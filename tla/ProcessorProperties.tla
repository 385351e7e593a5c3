------------------------ MODULE ProcessorProperties ------------------------
(* What the messaging service promises.                                    *)
EXTENDS Processor

\* What was published, as pairs of a message and its audience.
Announced ==
    UNION {{<<<<c, published[c][i].off>>, published[c][i].parts>> :
               i \in 1 .. Len(published[c])} : c \in Conversations}

Settled(m) ==
    \/ Sender(m) = Garbled
    \/ m \in rejected \cup interrupted
    \/ \E a \in Announced : a[1] = m

InHand(m) == \E w \in Workers : hand[w] # None /\ Held(w) = m

----------------------------------------------------------------------------
\* Committing ahead of the work never skips a message in silence: whatever
\* lies behind the committed offset was published, was refused, is still being
\* processed, or was in the hands of an instance when that ended.  What is
\* lost without a trace is only what an owner began behind while nothing was
\* committed yet, by the consumer's default start at the end of a partition.
NoSilentSkip ==
    \A c \in Conversations : \A o \in 1 .. committed[c] :
       Settled(<<c, o>>) \/ InHand(<<c, o>>) \/ <<c, o>> \in skipped

\* Within one assignment of a partition its messages are published in the
\* order of the log, although an instance that lost the partition may still
\* publish from an earlier assignment at the same time; and none twice but by
\* a retry inside the one send of it, whose records come one after the other.
OrderedPerAssignment ==
    \A c \in Conversations : \A i, j \in 1 .. Len(published[c]) :
       LET p == published[c][i]
           q == published[c][j]
       IN  (i < j /\ p.epoch = q.epoch) =>
              \/ p.off < q.off
              \/ p.off = q.off /\ <<<<c, p.off>>, p.epoch>> \in resent

\* "Update conversation last message timestamp": when nothing of a partition
\* is left to do, the conversation shows its last message, replays of earlier
\* ones after a crash notwithstanding.  It is about one instance and members
\* that stay; a second instance, or a sender banned between two runs of one
\* message, can leave an earlier message there.
LastMessageSettles ==
    changes = 0 =>
       \A c \in Conversations : \A o \in 1 .. Len(log[c]) :
          (/\ owner[c] # None /\ pos[c] = Len(log[c])
           /\ \A q \in Offsets : ~InHand(<<c, q>>)
           /\ <<c, o>> \in stored \ interrupted)
             => lastAt[c] >= o

\* The service implements the promise of MessageLifecycle.
Promise == INSTANCE MessageLifecycle WITH
    sent <- {m \in Messages : m[2] =< Len(log[m[1]])},
    announced <- Announced
KeepsPromise == Promise!Spec

\* Every envelope is dealt with in the end, unless its partition is left
\* without an instance again and again, or an owner began behind it with
\* nothing committed.  A failure or two do not excuse it.
Stranded(c) == owner[c] = None /\ (up = {} \/ epoch[c] = MaxEpochs)
HandledEventually ==
    \A m \in Messages :
       \/ []<>Stranded(m[1])
       \/ m[2] =< Len(log[m[1]]) ~>
             (m[2] =< Len(log[m[1]]) /\ (Settled(m) \/ m \in skipped))

----------------------------------------------------------------------------
\* "Sender sees it as delivered immediately": a published message has a
\* delivery record for its sender.
SenderTracked ==
    \A a \in Announced : <<a[1], Sender(a[1])>> \in tracked
=============================================================================

-------------------------- MODULE ProcessorProofs --------------------------
(***************************************************************************)
(* Theorems about the messaging service, for any instances, conversations, *)
(* members, and bounds.                                                    *)
(***************************************************************************)
EXTENDS ProcessorProperties, TLAPS

\* An instance has the same envelope in hand, at some stage.
Keeps(w) ==
    /\ hand'[w] \in Hands
    /\ hand'[w].conv = hand[w].conv /\ hand'[w].off = hand[w].off
    /\ hand'[w].epoch = hand[w].epoch

----------------------------------------------------------------------------
(* What the steps of an instance do to its envelope and to what is known   *)
(* of it.                                                                  *)

LEMMA FollowsStage ==
    \A s \in Stages \ {"publish"} : Follows(s) \in Stages
BY DEF Follows, Stages

\* One call of process_message after the other.
LEMMA Proceeds ==
    ASSUME TypeOK, NEW w \in Workers, NEW s \in Stages \ {"publish"},
           At(w, s), NEW todo \in SUBSET Users, Proceed(w, todo)
    PROVE  /\ Keeps(w)
           /\ hand'[w].stage = Follows(s)
           /\ hand'[w].parts = hand[w].parts /\ hand'[w].todo = todo
           /\ \A v \in Workers \ {w} : hand'[v] = hand[v]
           /\ hand' \in [Workers -> Hands \cup {None}]
<1>1. hand[w] \in Hands /\ hand[w].stage = s
  BY DEF TypeOK, At
<1>2. Follows(s) \in Stages
  BY FollowsStage
<1>3. hand' = [hand EXCEPT ![w] =
         [hand[w] EXCEPT !.stage = Follows(s), !.todo = todo]]
  BY <1>1 DEF Proceed
<1>4. [hand[w] EXCEPT !.stage = Follows(s), !.todo = todo] \in Hands
  BY <1>1, <1>2 DEF Hands
<1>5. hand'[w] = [hand[w] EXCEPT !.stage = Follows(s), !.todo = todo]
  BY <1>3 DEF TypeOK
<1>6. hand'[w] \in Hands
  BY <1>4, <1>5
<1>7. /\ hand'[w].conv = hand[w].conv /\ hand'[w].off = hand[w].off
      /\ hand'[w].epoch = hand[w].epoch /\ hand'[w].stage = Follows(s)
      /\ hand'[w].parts = hand[w].parts /\ hand'[w].todo = todo
  BY <1>1, <1>5 DEF Hands
<1>8. hand' \in [Workers -> Hands \cup {None}]
      /\ \A v \in Workers \ {w} : hand'[v] = hand[v]
  BY <1>3, <1>4 DEF TypeOK
<1> QED  BY <1>6, <1>7, <1>8 DEF Keeps

\* One participant after the other within a stage.
LEMMA Ticks ==
    ASSUME TypeOK, NEW w \in Workers, NEW s \in Stages, At(w, s),
           NEW u \in hand[w].todo,
           hand' = [hand EXCEPT ![w].todo = @ \ {u}]
    PROVE  /\ Keeps(w)
           /\ hand'[w].stage = s
           /\ hand'[w].parts = hand[w].parts
           /\ hand'[w].todo = hand[w].todo \ {u}
           /\ \A v \in Workers \ {w} : hand'[v] = hand[v]
           /\ hand' \in [Workers -> Hands \cup {None}]
<1>1. hand[w] \in Hands /\ hand[w].stage = s
  BY DEF TypeOK, At
<1>2. [hand[w] EXCEPT !.todo = hand[w].todo \ {u}] \in Hands
  BY <1>1 DEF Hands
<1>3. hand' = [hand EXCEPT ![w] =
         [hand[w] EXCEPT !.todo = hand[w].todo \ {u}]]
  OBVIOUS
<1>4. hand'[w] = [hand[w] EXCEPT !.todo = hand[w].todo \ {u}]
  BY <1>3 DEF TypeOK
<1>5. /\ hand'[w].conv = hand[w].conv /\ hand'[w].off = hand[w].off
      /\ hand'[w].epoch = hand[w].epoch /\ hand'[w].stage = s
      /\ hand'[w].parts = hand[w].parts
      /\ hand'[w].todo = hand[w].todo \ {u}
  BY <1>1, <1>4 DEF Hands
<1>6. hand' \in [Workers -> Hands \cup {None}]
      /\ \A v \in Workers \ {w} : hand'[v] = hand[v]
  BY <1>2, <1>3 DEF TypeOK
<1> QED  BY <1>2, <1>4, <1>5, <1>6 DEF Keeps

\* The envelope leaves the hand.
LEMMA Finishes ==
    ASSUME TypeOK, NEW w \in Workers, Finish(w)
    PROVE  /\ hand'[w] = None
           /\ \A v \in Workers \ {w} : hand'[v] = hand[v]
           /\ hand' \in [Workers -> Hands \cup {None}]
BY DEF TypeOK, Finish

\* The second look at the members.
LEMMA Fetches ==
    ASSUME TypeOK, NEW w \in Workers, Fetch(w)
    PROVE  /\ hand[w] \in Hands /\ hand[w].stage = "fetch"
           /\ Keeps(w)
           /\ hand'[w].stage = "unread"
           /\ hand'[w].todo \subseteq hand'[w].parts
           /\ \A v \in Workers \ {w} : hand'[v] = hand[v]
           /\ hand' \in [Workers -> Hands \cup {None}]
<1> DEFINE parts == Participants(hand[w].conv)
           todo == parts \ {Sender(Held(w))}
           new == [hand[w] EXCEPT !.stage = Follows(hand[w].stage),
                                  !.parts = parts, !.todo = todo]
<1>1. hand[w] \in Hands /\ hand[w].stage = "fetch"
  BY DEF TypeOK, At, Fetch
<1>2. parts \in SUBSET Users /\ todo \in SUBSET Users
  BY DEF Participants
<1>3. Follows("fetch") = "unread" /\ "unread" \in Stages
  BY DEF Follows, Stages
<1>4. new \in Hands /\ new.conv = hand[w].conv /\ new.off = hand[w].off
      /\ new.epoch = hand[w].epoch /\ new.stage = "unread"
      /\ new.parts = parts /\ new.todo = todo
  <2> HIDE DEF parts, todo
  <2> QED  BY <1>1, <1>2, <1>3 DEF Hands
<1>5. hand' = [hand EXCEPT ![w] = new]
  BY DEF Fetch
<1>6. hand'[w] = new /\ \A v \in Workers \ {w} : hand'[v] = hand[v]
  <2> HIDE DEF new
  <2> QED  BY <1>5 DEF TypeOK
<1>7. hand' \in [Workers -> Hands \cup {None}]
  <2> HIDE DEF new
  <2> QED  BY <1>4, <1>5 DEF TypeOK
<1>8. todo \subseteq parts
  OBVIOUS
<1> QED
  <2> HIDE DEF new, parts, todo
  <2> QED  BY <1>1, <1>4, <1>6, <1>7, <1>8 DEF Keeps

----------------------------------------------------------------------------
(* The shape of a step: what it does to the envelope in hand, and with it  *)
(* to the records of what became of a message.                             *)

Others(w) ==
    /\ \A v \in Workers \ {w} : hand'[v] = hand[v]
    /\ hand' \in [Workers -> Hands \cup {None}]

\* What a publication of w appends.
Notice(w) == [off |-> hand[w].off, epoch |-> hand[w].epoch,
              parts |-> hand[w].parts]

Published(w) ==
    /\ hand[w] \in Hands /\ hand[w].stage = "publish"
    /\ Notice(w) \in Announcements
    /\ published' \in [Conversations -> Seq(Announcements)]
    /\ \A c \in Conversations :
          published'[c] = IF c = hand[w].conv
                            THEN Append(published[c], Notice(w))
                            ELSE published[c]

LEMMA PublicationShape ==
    ASSUME TypeOK, NEW w \in Workers, At(w, "publish"), Publication(w)
    PROVE  Published(w)
<1>1. hand[w] \in Hands /\ hand[w].stage = "publish"
  BY DEF TypeOK, At
<1>2. hand[w].conv \in Conversations /\ Notice(w) \in Announcements
  BY <1>1 DEF Hands, Announcements, Notice
<1>3. published' = [published EXCEPT ![hand[w].conv] =
                       Append(published[hand[w].conv], Notice(w))]
  BY DEF Publication, Notice
<1>4. Append(published[hand[w].conv], Notice(w)) \in Seq(Announcements)
  BY <1>2 DEF TypeOK
<1> QED
  BY <1>1, <1>2, <1>3, <1>4 DEF Published, TypeOK

StepShape(w) ==
    /\ UNCHANGED <<log, owner, epoch, pos, start, committed, up, members,
                   changes, interrupted, skipped, resent>>
    /\ hand[w] \in Hands
    /\ Others(w)
    /\ \/ Keeps(w) /\ UNCHANGED <<published, rejected>>
       \/ /\ hand'[w] = None /\ hand[w].stage = "check"
          /\ Sender(Held(w)) \notin Participants(hand[w].conv)
          /\ rejected' = rejected \cup {Held(w)}
          /\ UNCHANGED published
       \/ hand'[w] = None /\ Published(w) /\ UNCHANGED rejected

LEMMA StepHasShape ==
    ASSUME TypeOK, NEW w \in Workers, Step(w)
    PROVE  StepShape(w)
<1> USE DEF StepShape, groupVars, pgVars, dbVars, history
<1>0. {} \in SUBSET Users
  OBVIOUS
<1>1. CASE Check(w)
  <2>1. At(w, "check") /\ hand[w] \in Hands /\ hand[w].stage = "check"
    BY <1>1 DEF Check, TypeOK, At
  <2>2. CASE Proceed(w, {}) /\ UNCHANGED rejected
    <3>1. "check" \in Stages \ {"publish"}
      BY DEF Stages
    <3>2. Keeps(w) /\ Others(w)
      BY <1>0, <2>1, <2>2, <3>1, Proceeds DEF Others
    <3> QED  BY <1>1, <2>1, <2>2, <3>2 DEF Check
  <2>3. CASE /\ Sender(Held(w)) \notin Participants(hand[w].conv)
             /\ Finish(w) /\ rejected' = rejected \cup {Held(w)}
    <3>1. hand'[w] = None /\ Others(w)
      BY <2>3, Finishes DEF Others
    <3> QED  BY <1>1, <2>1, <2>3, <3>1 DEF Check
  <2> QED  BY <1>1, <2>2, <2>3, Zenon DEF Check
<1>2. CASE Insert(w) \/ Touch(w)
  <2>1. PICK s \in {"insert", "touch"} : At(w, s) /\ Proceed(w, {})
    BY <1>2 DEF Insert, Touch
  <2>2. s \in Stages \ {"publish"} /\ hand[w] \in Hands
    BY <2>1 DEF Stages, TypeOK, At
  <2>3. Keeps(w) /\ Others(w)
    BY <1>0, <2>1, <2>2, Proceeds DEF Others
  <2> QED  BY <1>2, <2>2, <2>3 DEF Insert, Touch
<1>3. CASE Fetch(w)
  <2>1. hand[w] \in Hands /\ Keeps(w) /\ Others(w)
    BY <1>3, Fetches DEF Others
  <2> QED  BY <1>3, <2>1 DEF Fetch
<1>4. CASE BumpUnread(w) \/ TrackDelivery(w)
  <2>1. PICK s \in {"unread", "status"} :
           /\ At(w, s)
           /\ \/ \E u \in hand[w].todo :
                    hand' = [hand EXCEPT ![w].todo = @ \ {u}]
              \/ Proceed(w, hand[w].parts) \/ Proceed(w, {})
    BY <1>4 DEF BumpUnread, TrackDelivery
  <2>2. s \in Stages \ {"publish"} /\ hand[w] \in Hands
    BY <2>1 DEF Stages, TypeOK, At
  <2>3. hand[w].parts \in SUBSET Users
    BY <2>2 DEF Hands
  <2>4. ASSUME NEW u \in hand[w].todo,
               hand' = [hand EXCEPT ![w].todo = @ \ {u}]
        PROVE  Keeps(w) /\ Others(w)
    BY <2>1, <2>2, <2>4, Ticks DEF Others
  <2>5. ASSUME Proceed(w, hand[w].parts) \/ Proceed(w, {})
        PROVE  Keeps(w) /\ Others(w)
    <3>1. PICK todo \in SUBSET Users : Proceed(w, todo)
      BY <1>0, <2>3, <2>5, Zenon
    <3> QED  BY <2>1, <2>2, <3>1, Proceeds DEF Others
  <2>6. Keeps(w) /\ Others(w)
    BY <2>1, <2>4, <2>5, Zenon
  <2> QED  BY <1>4, <2>2, <2>6 DEF BumpUnread, TrackDelivery
<1>5. CASE Publish(w)
  <2>1. Published(w)
    BY <1>5, PublicationShape DEF Publish
  <2>2. hand'[w] = None /\ Others(w)
    BY <1>5, Finishes DEF Publish, Others
  <2> QED  BY <1>5, <2>1, <2>2 DEF Publish, Published
<1> QED  BY <1>1, <1>2, <1>3, <1>4, <1>5 DEF Step

\* The end of an instance, by an error or a crash.
EndShape(w) ==
    /\ UNCHANGED <<log, epoch, pos, start, members, changes, lastAt, stored,
                   unread, tracked, rejected, skipped, resent>>
    /\ hand'[w] = None /\ Others(w)
    /\ interrupted' = interrupted \cup
          IF hand[w] = None THEN {} ELSE {Held(w)}
    /\ up' = up \ {w}
    /\ owner' = [c \in Conversations |-> IF owner[c] = w THEN None
                                                         ELSE owner[c]]
    /\ committed' \in [Conversations -> 0 .. MaxLog]
    /\ \A c \in Conversations : committed'[c] \in {committed[c], pos[c]}
    /\ published' = published \/ Published(w)

\* A commit stores nothing new, or all that was handed out.
LEMMA CommitPoints ==
    \A c \in Conversations : CommitPoint(c) \in {committed[c], pos[c]}
BY DEF CommitPoint

LEMMA EndHasShape ==
    ASSUME TypeOK, NEW w \in Workers, Error(w) \/ Crash(w)
    PROVE  EndShape(w)
<1>1. Stop(w)
  BY DEF Error, Crash
<1>2. hand'[w] = None /\ Others(w)
  BY <1>1 DEF Stop, Others, TypeOK
<1>3. /\ committed' \in [Conversations -> 0 .. MaxLog]
      /\ \A c \in Conversations : committed'[c] \in {committed[c], pos[c]}
  <2>1. CASE Crash(w)
    BY <2>1 DEF Crash, TypeOK
  <2>2. CASE Error(w)
    <3>1. committed' = [c \in Conversations |-> IF owner[c] = w
                                                  THEN CommitPoint(c)
                                                  ELSE committed[c]]
      BY <2>2 DEF Error
    <3> QED  BY <3>1, CommitPoints DEF TypeOK
  <2> QED  BY <2>1, <2>2
<1>4. published' = published \/ Published(w)
  BY PublicationShape, Zenon DEF Error, Crash
<1>5. interrupted' = interrupted \cup
         IF hand[w] = None THEN {} ELSE {Held(w)}
  BY <1>1 DEF Stop
<1> QED
  BY <1>1, <1>2, <1>3, <1>4, <1>5 DEF EndShape, Stop, pgVars, dbVars

----------------------------------------------------------------------------
(* Types.                                                                  *)

LEMMA TypeInit == Init => TypeOK
BY ProcessorAssumption DEF Init, TypeOK

\* The databases after a step of an instance.
LEMMA StepWrites ==
    ASSUME TypeOK, NEW w \in Workers, Step(w)
    PROVE  /\ lastAt' \in [Conversations -> 0 .. MaxLog]
           /\ stored' \in SUBSET Messages
           /\ unread' \in SUBSET (Messages \X {"timestamp"})
           /\ tracked' \in SUBSET (Messages \X Users)
<1>1. /\ hand[w] \in Hands
      /\ hand[w].conv \in Conversations /\ hand[w].off \in 0 .. MaxLog
      /\ Held(w) \in Messages
      /\ hand[w].todo \subseteq Users
  BY StepHasShape, ProcessorAssumption
     DEF StepShape, Hands, Held, Messages, Offsets
<1> USE DEF TypeOK, pgVars, dbVars
<1>2. CASE Insert(w)
  BY <1>1, <1>2 DEF Insert
<1>3. CASE Touch(w)
  <2>1. /\ lastAt' = [lastAt EXCEPT ![hand[w].conv] = hand[w].off]
        /\ UNCHANGED dbVars
    BY <1>3 DEF Touch
  <2> QED  BY <1>1, <2>1
<1>4. CASE BumpUnread(w)
  <2>1. UNCHANGED <<lastAt, stored, tracked>>
    BY <1>4 DEF BumpUnread
  <2>2. unread' = unread \/ unread' = unread \cup {<<Held(w), "timestamp">>}
    BY <1>4 DEF BumpUnread, UnreadRow
  <2> QED  BY <1>1, <2>1, <2>2
<1>5. CASE TrackDelivery(w)
  <2>1. UNCHANGED <<lastAt, stored, unread>>
    BY <1>5 DEF TrackDelivery
  <2>2. \/ tracked' = tracked
        \/ \E u \in hand[w].todo : tracked' = tracked \cup {<<Held(w), u>>}
    BY <1>5 DEF TrackDelivery
  <2> QED  BY <1>1, <2>1, <2>2
<1>6. CASE Check(w) \/ Fetch(w) \/ Publish(w)
  BY <1>6 DEF Check, Fetch, Publish
<1> QED  BY <1>2, <1>3, <1>4, <1>5, <1>6 DEF Step

\* The envelope that is taken.
Taken(c) == [conv |-> c, off |-> pos[c] + 1, epoch |-> epoch[c],
             stage |-> "check", parts |-> {}, todo |-> {}]

\* A hand that takes an envelope holds it at the first stage; epoch[c] is not
\* 0, since somebody owns the partition.
TakeShape(w, c) ==
    /\ hand[w] = None /\ owner[c] = w /\ w \in up
    /\ pos[c] < Len(log[c])
    /\ pos' = [pos EXCEPT ![c] = pos[c] + 1]
    /\ UNCHANGED <<log, owner, epoch, start, committed, up, pgVars, dbVars,
                   published, history>>
    /\ Others(w)
    /\ \/ log[c][pos[c] + 1] = Garbled /\ hand' = hand
       \/ /\ log[c][pos[c] + 1] # Garbled
          /\ Taken(c) \in Hands /\ hand'[w] = Taken(c)

\* A retry inside a send: the record is there, and the send goes on.
ResendShape(w) ==
    /\ Published(w)
    /\ Held(w) \in Messages /\ resent' \in SUBSET Sends
    /\ resent' = resent \cup {<<Held(w), hand[w].epoch>>}
    /\ UNCHANGED <<log, groupVars, up, hand, pgVars, dbVars, rejected,
                   interrupted, skipped>>

LEMMA ResendHasShape ==
    ASSUME TypeOK, NEW w \in Workers, Resend(w)
    PROVE  ResendShape(w)
<1>1. Published(w)
  BY PublicationShape DEF Resend
<1>2. hand[w] \in Hands
  BY <1>1 DEF Published
<1>3. Held(w) \in Messages /\ hand[w].epoch \in 1 .. MaxEpochs
  BY <1>2 DEF Held, Hands, Messages
<1>4. resent' = resent \cup {<<Held(w), hand[w].epoch>>}
  BY DEF Resend
<1>5. resent' \in SUBSET Sends
  BY <1>3, <1>4 DEF Sends, TypeOK
<1> QED  BY <1>1, <1>3, <1>4, <1>5 DEF Resend, ResendShape

\* Where a partition is read from is an offset of it.
LEMMA Beginnings ==
    ASSUME TypeOK, NEW c \in Conversations
    PROVE  /\ Beginning(c) \in 0 .. MaxLog
           /\ committed[c] # 0 => Beginning(c) = committed[c]
           /\ committed[c] = 0 => Beginning(c) = Len(log[c])
BY ProcessorAssumption DEF Beginning, TypeOK

\* An owned partition was assigned before.
OwnedAssigned == \A c \in Conversations : owner[c] # None => epoch[c] # 0

LEMMA TakeHasShape ==
    ASSUME TypeOK, OwnedAssigned, NEW w \in Workers, NEW c \in Conversations,
           Take(w, c)
    PROVE  TakeShape(w, c)
<1>1. owner[c] = w /\ w # None /\ pos[c] < Len(log[c])
  BY ProcessorAssumption DEF Take
<1>2. /\ epoch[c] \in 1 .. MaxEpochs
      /\ pos[c] + 1 \in Offsets
  BY <1>1, ProcessorAssumption DEF OwnedAssigned, TypeOK, Offsets
<1>3. Taken(c) \in Hands
  BY <1>2 DEF Taken, Hands, Stages
<1>4. CASE log[c][pos[c] + 1] = Garbled
  BY <1>1, <1>4 DEF Take, TakeShape, Others, TypeOK
<1>5. CASE log[c][pos[c] + 1] # Garbled
  <2>1. hand' = [hand EXCEPT ![w] = Taken(c)]
    BY <1>5 DEF Take, Taken
  <2>2. hand'[w] = Taken(c) /\ Others(w)
    <3> HIDE DEF Taken
    <3> QED  BY <1>3, <2>1 DEF Others, TypeOK
  <2> QED  BY <1>1, <1>3, <1>5, <2>2 DEF Take, TakeShape
<1> QED  BY <1>4, <1>5

LEMMA AssignedInit == Init => OwnedAssigned
BY DEF Init, OwnedAssigned

LEMMA TypeNext ==
    TypeOK /\ OwnedAssigned /\ [Next]_vars => TypeOK' /\ OwnedAssigned'
<1> SUFFICES ASSUME TypeOK, OwnedAssigned, [Next]_vars
             PROVE  TypeOK' /\ OwnedAssigned'
  OBVIOUS
<1> USE ProcessorAssumption
<1>1. ASSUME NEW c \in Conversations, NEW u \in Users \cup {Garbled},
             Post(c, u)
      PROVE  TypeOK' /\ OwnedAssigned'
  <2>1. /\ log' = [log EXCEPT ![c] = Append(log[c], u)]
        /\ log[c] \in Seq(Users \cup {Garbled}) /\ Len(log[c]) < MaxLog
    BY <1>1 DEF Post, TypeOK
  <2>2. /\ Append(log[c], u) \in Seq(Users \cup {Garbled})
        /\ Len(Append(log[c], u)) =< MaxLog
    BY <2>1
  <2>3. /\ log' \in [Conversations -> Seq(Users \cup {Garbled})]
        /\ \A d \in Conversations : Len(log'[d]) =< MaxLog
    <3> DEFINE longer == Append(log[c], u)
    <3> HIDE DEF longer
    <3>1. log' = [log EXCEPT ![c] = longer]
      BY <2>1 DEF longer
    <3>2. longer \in Seq(Users \cup {Garbled}) /\ Len(longer) =< MaxLog
      BY <2>2 DEF longer
    <3> QED  BY <3>1, <3>2 DEF TypeOK
  <2> QED
    BY <1>1, <2>3 DEF Post, TypeOK, OwnedAssigned, groupVars, pgVars, dbVars,
                      history
<1>2. ASSUME NEW c \in Conversations, NEW u \in Users, ChangeMember(c, u)
      PROVE  TypeOK' /\ OwnedAssigned'
  <2>1. members' \in SUBSET (Conversations \X Users)
    BY <1>2 DEF ChangeMember, TypeOK
  <2>2. changes' \in 0 .. MaxChanges
    BY <1>2 DEF ChangeMember, TypeOK
  <2>3. UNCHANGED <<log, groupVars, up, hand, lastAt, dbVars, published,
                    history>>
    BY <1>2 DEF ChangeMember
  <2> HIDE <1>2
  <2> QED
    BY <2>1, <2>2, <2>3 DEF TypeOK, OwnedAssigned, groupVars, dbVars, history
<1>3. ASSUME NEW c \in Conversations, NEW w \in Workers, Assign(c, w)
      PROVE  TypeOK' /\ OwnedAssigned'
  <2>1. /\ owner' = [owner EXCEPT ![c] = w]
        /\ epoch' = [epoch EXCEPT ![c] = epoch[c] + 1]
        /\ pos' = [pos EXCEPT ![c] = Beginning(c)]
        /\ start' = [start EXCEPT ![c] = Beginning(c)]
        /\ skipped' = skipped \cup ({c} \X (pos[c] + 1 .. Beginning(c)))
        /\ epoch[c] + 1 \in 1 .. MaxEpochs
    BY <1>3 DEF Assign, TypeOK
  <2>2. /\ owner' \in [Conversations -> Workers \cup {None}]
        /\ epoch' \in [Conversations -> 0 .. MaxEpochs]
        /\ pos' \in [Conversations -> 0 .. MaxLog]
        /\ start' \in [Conversations -> 0 .. MaxLog]
        /\ skipped' \in SUBSET Messages
    <3>1. Beginning(c) \in 0 .. MaxLog /\ pos[c] \in 0 .. MaxLog
      BY Beginnings DEF TypeOK
    <3>2. pos[c] + 1 .. Beginning(c) \subseteq Offsets
      BY <3>1 DEF Offsets
    <3>3. {c} \X (pos[c] + 1 .. Beginning(c)) \subseteq Messages
      BY <3>2 DEF Messages
    <3>4. skipped' \in SUBSET Messages
      BY <2>1, <3>3 DEF TypeOK
    <3>5. epoch' \in [Conversations -> 0 .. MaxEpochs]
      BY <2>1 DEF TypeOK
    <3>6. owner' \in [Conversations -> Workers \cup {None}]
      BY <2>1 DEF TypeOK
    <3>7. /\ pos' \in [Conversations -> 0 .. MaxLog]
          /\ start' \in [Conversations -> 0 .. MaxLog]
      BY <2>1, <3>1 DEF TypeOK
    <3> QED  BY <3>4, <3>5, <3>6, <3>7
  <2>3. OwnedAssigned'
    BY <2>1 DEF OwnedAssigned, TypeOK
  <2> QED
    BY <1>3, <2>2, <2>3 DEF Assign, TypeOK, pgVars, dbVars
<1>4. ASSUME NEW c \in Conversations, NEW w \in Workers, Take(w, c)
      PROVE  TypeOK' /\ OwnedAssigned'
  <2>1. TakeShape(w, c)
    BY <1>4, TakeHasShape
  <2>2. pos' \in [Conversations -> 0 .. MaxLog]
    BY <2>1 DEF TakeShape, TypeOK
  <2> QED
    BY <2>1, <2>2 DEF TakeShape, Others, TypeOK, OwnedAssigned, pgVars,
                      dbVars, history
<1>5. ASSUME NEW c \in Conversations, Revoke(c) \/ AutoCommit(c)
      PROVE  TypeOK' /\ OwnedAssigned'
  <2>1. /\ committed' \in [Conversations -> 0 .. MaxLog]
        /\ owner' \in [Conversations -> Workers \cup {None}]
        /\ \A d \in Conversations : owner'[d] # None => owner[d] # None
        /\ UNCHANGED <<log, epoch, pos, start, up, hand, pgVars, dbVars,
                       published, history>>
    <3>1. committed' \in {committed, [committed EXCEPT ![c] = CommitPoint(c)]}
      BY <1>5 DEF Revoke, AutoCommit
    <3>2. owner' \in {owner, [owner EXCEPT ![c] = None]}
      BY <1>5 DEF Revoke, AutoCommit
    <3>3. UNCHANGED <<log, epoch, pos, start, up, hand, pgVars, dbVars,
                      published, history>>
      BY <1>5 DEF Revoke, AutoCommit
    <3> QED  BY <3>1, <3>2, <3>3, CommitPoints DEF TypeOK
  <2> QED  BY <2>1 DEF TypeOK, OwnedAssigned, pgVars, dbVars, history
<1>6. ASSUME NEW w \in Workers, Step(w)
      PROVE  TypeOK' /\ OwnedAssigned'
  <2>1. StepShape(w)
    BY <1>6, StepHasShape
  <2>2. /\ published' \in [Conversations -> Seq(Announcements)]
        /\ rejected' \in SUBSET Messages
    BY SMTT(30), <2>1 DEF StepShape, Published, TypeOK, Held, Messages, Hands
  <2> QED
    BY <1>6, <2>1, <2>2, StepWrites DEF StepShape, Others, TypeOK,
                                        OwnedAssigned
<1>7. ASSUME NEW w \in Workers, Error(w) \/ Crash(w)
      PROVE  TypeOK' /\ OwnedAssigned'
  <2>1. EndShape(w)
    BY <1>7, EndHasShape
  <2>2. /\ published' \in [Conversations -> Seq(Announcements)]
        /\ interrupted' \in SUBSET Messages
    BY <2>1 DEF EndShape, Published, TypeOK, Held, Messages, Hands
  <2> QED
    BY <2>1, <2>2 DEF EndShape, Others, TypeOK, OwnedAssigned
<1>8. ASSUME NEW w \in Workers, Restart(w)
      PROVE  TypeOK' /\ OwnedAssigned'
  BY <1>8 DEF Restart, TypeOK, OwnedAssigned, groupVars, pgVars, dbVars,
              history
<1>9. CASE UNCHANGED vars
  BY <1>9 DEF vars, TypeOK, OwnedAssigned, groupVars, pgVars, dbVars, history
<1>10. ASSUME NEW w \in Workers, Resend(w)
       PROVE  TypeOK' /\ OwnedAssigned'
  <2>1. ResendShape(w)
    BY <1>10, ResendHasShape
  <2> QED
    BY <2>1 DEF ResendShape, Published, TypeOK, OwnedAssigned, groupVars,
                pgVars, dbVars
<1> QED
  BY <1>1, <1>2, <1>3, <1>4, <1>5, <1>6, <1>7, <1>8, <1>9, <1>10 DEF Next

LEMMA Types == Spec => [](TypeOK /\ OwnedAssigned)
BY TypeInit, AssignedInit, TypeNext, PTL DEF Spec

\* Every variable of the messaging service keeps its type.
THEOREM ProcessorTypeCorrect == Spec => []TypeOK
BY Types, PTL
----------------------------------------------------------------------------
(* The inductive invariant.                                                *)

\* What is committed was taken, and what was taken is in the log.
TakenInOrder ==
    \A c \in Conversations : committed[c] =< pos[c] /\ pos[c] =< Len(log[c])

\* What lies behind an owner is settled, in hand, or was begun behind.
Accounted(m) == Settled(m) \/ InHand(m) \/ m \in skipped
TakenAccounted ==
    \A c \in Conversations : \A o \in 1 .. pos[c] : Accounted(<<c, o>>)

\* What an instance has in hand is an envelope, of the current assignment
\* only if nobody else was given the partition since, after all that was
\* published from that assignment but records of its own send, and which
\* nobody else has from it.
NotAfter(p, c, off, ep, again) ==
    \/ p.off < off
    \/ p.off = off /\ <<<<c, off>>, ep>> \in again

HandFits(w) ==
    LET c == hand[w].conv IN
    /\ hand[w].off =< Len(log[c]) /\ Sender(Held(w)) # Garbled
    /\ hand[w].epoch =< epoch[c]
    /\ hand[w].epoch = epoch[c] =>
          hand[w].off =< pos[c] /\ owner[c] \in {w, None}
    /\ \A i \in 1 .. Len(published[c]) :
          published[c][i].epoch = hand[w].epoch =>
             NotAfter(published[c][i], c, hand[w].off, hand[w].epoch, resent)
    /\ \A v \in Workers :
          (/\ hand[v] # None /\ hand[v].conv = c
           /\ hand[v].epoch = hand[w].epoch) => v = w

HandsFit == \A w \in Workers : hand[w] # None => HandFits(w)

\* What was published was taken, by the current assignment or before it.
PublishedTaken ==
    \A c \in Conversations : \A i \in 1 .. Len(published[c]) :
       LET p == published[c][i] IN
       /\ p.epoch =< epoch[c]
       /\ p.epoch = epoch[c] => p.off =< pos[c]
       /\ p.off =< Len(log[c])

\* What has been written for the envelope in hand at its stage.
Written(w) ==
    LET m == Held(w) IN
    /\ hand[w].stage \notin {"check", "insert"} => m \in stored
    /\ hand[w].stage = "status" =>
          \A u \in hand[w].parts \ hand[w].todo : <<m, u>> \in tracked
    /\ hand[w].stage = "publish" =>
          \A u \in hand[w].parts : <<m, u>> \in tracked

HandsWritten == \A w \in Workers : hand[w] # None => Written(w)

----------------------------------------------------------------------------
(* The log and what was published only grow.                               *)

LEMMA LogGrows ==
    ASSUME TypeOK, [Next]_vars
    PROVE  \A c \in Conversations :
              /\ Len(log[c]) =< Len(log'[c])
              /\ \A i \in 1 .. Len(log[c]) : log'[c][i] = log[c][i]
<1>1. ASSUME NEW c \in Conversations, NEW u \in Users \cup {Garbled},
             Post(c, u)
      PROVE  \A d \in Conversations :
                /\ Len(log[d]) =< Len(log'[d])
                /\ \A i \in 1 .. Len(log[d]) : log'[d][i] = log[d][i]
  <2>1. /\ log' = [log EXCEPT ![c] = Append(log[c], u)]
        /\ log[c] \in Seq(Users \cup {Garbled})
    BY <1>1 DEF Post, TypeOK
  <2>2. /\ Len(log[c]) =< Len(Append(log[c], u))
        /\ \A i \in 1 .. Len(log[c]) : Append(log[c], u)[i] = log[c][i]
    BY <2>1
  <2>3. TAKE d \in Conversations
  <2>4. CASE d = c
    <3>1. log'[d] = Append(log[c], u)
      BY <2>1, <2>4 DEF TypeOK
    <3> QED  BY <2>2, <2>4, <3>1
  <2>5. CASE d # c
    <3>1. log'[d] = log[d] /\ log[d] \in Seq(Users \cup {Garbled})
      BY <2>1, <2>5 DEF TypeOK
    <3> QED  BY <3>1
  <2> QED  BY <2>4, <2>5
<1>2. CASE log' = log
  BY <1>2 DEF TypeOK
<1>3. \/ log' = log
      \/ \E c \in Conversations, u \in Users \cup {Garbled} : Post(c, u)
  BY DEF Next, ChangeMember, Assign, Take, Revoke, AutoCommit, Step, Check,
         Insert, Touch, Fetch, BumpUnread, TrackDelivery, Publish, Resend,
         Error, Crash, Stop, Restart, vars
<1> QED  BY <1>1, <1>2, <1>3

LEMMA Appended ==
    ASSUME NEW S, NEW s \in Seq(S), NEW e \in S
    PROVE  /\ Len(s) \in Nat
           /\ Len(Append(s, e)) = Len(s) + 1
           /\ \A i \in 1 .. Len(s) : Append(s, e)[i] = s[i]
           /\ Append(s, e)[Len(s) + 1] = e
OBVIOUS

\* The numbers of the model are numbers.
Numbers ==
    /\ \A c \in Conversations :
          /\ pos[c] \in Nat /\ committed[c] \in Nat /\ epoch[c] \in Nat
          /\ Len(log[c]) \in Nat
          /\ \A i \in 1 .. Len(published[c]) :
                /\ published[c][i] \in Announcements
                /\ published[c][i].off \in Nat
                /\ published[c][i].epoch \in Nat
    /\ \A w \in Workers : hand[w] # None =>
          /\ hand[w] \in Hands
          /\ hand[w].conv \in Conversations
          /\ hand[w].off \in Nat \ {0} /\ hand[w].epoch \in Nat

LEMMA TypeNumbers == TypeOK => Numbers
<1> SUFFICES ASSUME TypeOK PROVE Numbers
  OBVIOUS
<1> USE ProcessorAssumption
<1>1. ASSUME NEW c \in Conversations
      PROVE  /\ pos[c] \in Nat /\ committed[c] \in Nat /\ epoch[c] \in Nat
             /\ Len(log[c]) \in Nat
  BY DEF TypeOK
<1>2. ASSUME NEW c \in Conversations, NEW i \in 1 .. Len(published[c])
      PROVE  /\ published[c][i] \in Announcements
             /\ published[c][i].off \in Nat
             /\ published[c][i].epoch \in Nat
  <2>1. published[c] \in Seq(Announcements)
    BY DEF TypeOK
  <2>2. published[c][i] \in Announcements
    BY <2>1
  <2> QED  BY <2>2 DEF Announcements, Offsets
<1>3. ASSUME NEW w \in Workers, hand[w] # None
      PROVE  /\ hand[w] \in Hands
             /\ hand[w].conv \in Conversations
             /\ hand[w].off \in Nat \ {0} /\ hand[w].epoch \in Nat
  <2>1. hand[w] \in Hands
    BY <1>3 DEF TypeOK
  <2> QED  BY <2>1 DEF Hands, Offsets
<1> QED  BY <1>1, <1>2, <1>3 DEF Numbers

\* The entries after a publication: those before, and one more.
LEMMA PublishedGrows ==
    ASSUME TypeOK, NEW w \in Workers, Published(w), NEW c \in Conversations
    PROVE  /\ \A i \in 1 .. Len(published[c]) :
                 /\ i \in 1 .. Len(published'[c])
                 /\ published'[c][i] = published[c][i]
           /\ \A i \in 1 .. Len(published'[c]) :
                 \/ /\ i \in 1 .. Len(published[c])
                    /\ published'[c][i] = published[c][i]
                 \/ /\ c = hand[w].conv /\ i = Len(published[c]) + 1
                    /\ published'[c][i] = Notice(w)
           /\ c = hand[w].conv =>
                 /\ Len(published'[c]) = Len(published[c]) + 1
                 /\ published'[c][Len(published[c]) + 1] = Notice(w)
<1>1. /\ published[c] \in Seq(Announcements) /\ Notice(w) \in Announcements
      /\ published'[c] = IF c = hand[w].conv
                           THEN Append(published[c], Notice(w))
                           ELSE published[c]
  BY DEF TypeOK, Published
<1> DEFINE n == Notice(w)
<1> HIDE DEF n
<1>2. CASE c = hand[w].conv
  <2>1. n \in Announcements /\ published'[c] = Append(published[c], n)
    BY <1>1, <1>2 DEF n
  <2>2. /\ Len(Append(published[c], n)) = Len(published[c]) + 1
        /\ \A i \in 1 .. Len(published[c]) :
              Append(published[c], n)[i] = published[c][i]
        /\ Append(published[c], n)[Len(published[c]) + 1] = n
        /\ Len(published[c]) \in Nat
    <3>1. n \in Announcements /\ published[c] \in Seq(Announcements)
      BY <1>1, <2>1
    <3> HIDE <2>1
    <3> QED  BY <3>1, Appended
  <2>3. /\ Len(published'[c]) = Len(published[c]) + 1
        /\ \A i \in 1 .. Len(published[c]) :
              published'[c][i] = published[c][i]
        /\ published'[c][Len(published[c]) + 1] = n
        /\ Len(published[c]) \in Nat
    BY <2>1, <2>2, Zenon
  <2> QED  BY <1>2, <2>3 DEF n
<1>3. CASE c # hand[w].conv
  BY <1>1, <1>3
<1> QED  BY <1>2, <1>3

----------------------------------------------------------------------------
(* Order.                                                                  *)

OrderInv == TakenInOrder /\ HandsFit /\ PublishedTaken

LEMMA OrderInit == Init => OrderInv
BY DEF Init, OrderInv, TakenInOrder, HandsFit, PublishedTaken

\* What an envelope needs to fit stays true while the log grows.
LEMMA OrderKept ==
    ASSUME TypeOK, TypeOK', OrderInv, [Next]_vars,
           UNCHANGED <<hand, published, epoch, pos, resent>>,
           \A c \in Conversations :
              /\ owner'[c] \in {owner[c], None}
              /\ committed'[c] \in {committed[c], pos[c]}
    PROVE  OrderInv'
<1>0. Numbers /\ Numbers'
  BY TypeNumbers, PTL
<1>1. \A c \in Conversations :
         /\ Len(log[c]) \in Nat /\ Len(log'[c]) \in Nat
         /\ Len(log[c]) =< Len(log'[c])
         /\ \A i \in 1 .. Len(log[c]) : log'[c][i] = log[c][i]
  BY LogGrows, <1>0 DEF Numbers
<1>2. \A c \in Conversations :
         /\ pos[c] \in Nat /\ committed[c] \in Nat
         /\ committed'[c] \in Nat
         /\ \A i \in 1 .. Len(published[c]) : published[c][i].off \in Nat
  BY <1>0 DEF Numbers
<1>3. TakenInOrder'
  BY <1>1, <1>2 DEF OrderInv, TakenInOrder
<1>4. PublishedTaken'
  BY <1>1, <1>2 DEF OrderInv, PublishedTaken
<1>5. HandsFit'
  <2>1. SUFFICES ASSUME NEW w \in Workers, hand'[w] # None
                 PROVE  HandFits(w)'
    BY DEF HandsFit
  <2>2. HandFits(w) /\ hand[w] \in Hands
    BY <2>1 DEF OrderInv, HandsFit, TypeOK
  <2>3. hand[w].conv \in Conversations /\ hand[w].off \in Nat \ {0}
    BY <2>2, ProcessorAssumption DEF Hands, Offsets
  <2>4. log'[hand[w].conv][hand[w].off] = log[hand[w].conv][hand[w].off]
    BY <1>1, <2>2, <2>3 DEF HandFits
  <2>5. /\ hand[w].off =< Len(log'[hand[w].conv])
        /\ owner'[hand[w].conv] \in {owner[hand[w].conv], None}
    BY <1>1, <2>2, <2>3 DEF HandFits
  <2> QED
    BY <2>2, <2>3, <2>4, <2>5 DEF HandFits, NotAfter, Sender, Held
<1> QED  BY <1>3, <1>4, <1>5 DEF OrderInv

LEMMA AssignOrder ==
    ASSUME TypeOK, TypeOK', OrderInv, NEW c \in Conversations,
           NEW w \in Workers, Assign(c, w)
    PROVE  OrderInv'
<1>1. /\ owner' = [owner EXCEPT ![c] = w]
      /\ epoch' = [epoch EXCEPT ![c] = epoch[c] + 1]
      /\ pos' = [pos EXCEPT ![c] = Beginning(c)]
      /\ UNCHANGED <<log, committed, hand, published, resent>>
  BY DEF Assign
<1>2. \A d \in Conversations :
         /\ epoch[d] \in Nat /\ pos[d] \in Nat /\ committed[d] \in Nat
         /\ Len(log[d]) \in Nat
         /\ epoch'[d] = IF d = c THEN epoch[c] + 1 ELSE epoch[d]
         /\ pos'[d] = IF d = c THEN Beginning(c) ELSE pos[d]
         /\ d # c => owner'[d] = owner[d]
         /\ \A i \in 1 .. Len(published[d]) :
               published[d][i].epoch \in Nat
  BY <1>1, TypeNumbers DEF TypeOK, Numbers
<1>3. TakenInOrder'
  BY <1>1, <1>2, Beginnings DEF OrderInv, TakenInOrder
<1>4. PublishedTaken'
  BY <1>1, <1>2 DEF OrderInv, PublishedTaken
<1>5. HandsFit'
  <2>1. SUFFICES ASSUME NEW v \in Workers, hand'[v] # None
                 PROVE  HandFits(v)'
    BY DEF HandsFit
  <2>2. HandFits(v) /\ hand[v] \in Hands
    BY <1>1, <2>1 DEF OrderInv, HandsFit, TypeOK
  <2>3. hand[v].conv \in Conversations /\ hand[v].epoch \in Nat
    BY <2>2 DEF Hands
  <2>4. /\ owner'[hand[v].conv] = owner[hand[v].conv]
        /\ epoch'[hand[v].conv] = epoch[hand[v].conv]
        /\ pos'[hand[v].conv] = pos[hand[v].conv]
        \/ /\ hand[v].conv = c /\ epoch'[c] = epoch[c] + 1
           /\ hand[v].epoch =< epoch[c]
    BY <1>1, <1>2, <2>2, <2>3 DEF HandFits, TypeOK
  <2>5. /\ hand[v].epoch =< epoch'[hand[v].conv]
        /\ hand[v].epoch = epoch'[hand[v].conv] =>
              /\ hand[v].off =< pos'[hand[v].conv]
              /\ owner'[hand[v].conv] \in {v, None}
    BY <1>2, <2>2, <2>3, <2>4 DEF HandFits
  <2> QED  BY <1>1, <2>2, <2>5 DEF HandFits, NotAfter, Sender, Held
<1> QED  BY <1>3, <1>4, <1>5 DEF OrderInv

\* The envelope taken is later than all that was taken before it in the same
\* assignment, and nobody else has one of that.
LEMMA TakeOrder ==
    ASSUME TypeOK, TypeOK', OrderInv, NEW c \in Conversations,
           NEW w \in Workers, TakeShape(w, c)
    PROVE  OrderInv'
<1>1. /\ pos[c] < Len(log[c]) /\ pos' = [pos EXCEPT ![c] = pos[c] + 1]
      /\ UNCHANGED <<log, owner, epoch, committed, published, resent>>
      /\ hand[w] = None /\ owner[c] = w /\ Others(w)
  BY DEF TakeShape, history
<1>2. \A d \in Conversations :
         /\ epoch[d] \in Nat /\ pos[d] \in Nat /\ committed[d] \in Nat
         /\ Len(log[d]) \in Nat
         /\ pos'[d] = IF d = c THEN pos[c] + 1 ELSE pos[d]
         /\ \A i \in 1 .. Len(published[d]) :
               published[d][i].off \in Nat
  BY <1>1, TypeNumbers DEF TypeOK, Numbers
<1>3. TakenInOrder'
  BY <1>1, <1>2 DEF OrderInv, TakenInOrder
<1>4. PublishedTaken'
  BY <1>1, <1>2 DEF OrderInv, PublishedTaken
<1>5. ASSUME NEW v \in Workers, hand[v] # None
      PROVE  /\ v # w /\ HandFits(v) /\ hand'[v] = hand[v]
             /\ hand[v].conv \in Conversations /\ hand[v].off \in Nat
             /\ hand[v].epoch \in Nat
  BY <1>1, <1>5, TypeNumbers DEF OrderInv, HandsFit, Numbers, Others
<1>6. ASSUME NEW v \in Workers, hand[v] # None, hand[v].conv = c,
             hand[v].epoch = epoch[c]
      PROVE  FALSE
  <2>1. owner[c] \in {v, None}
    BY <1>5, <1>6 DEF HandFits
  <2> QED  BY <1>1, <1>5, <1>6, <2>1, ProcessorAssumption
<1>7. CASE hand' = hand
  <2>1. SUFFICES ASSUME NEW v \in Workers, hand'[v] # None
                 PROVE  HandFits(v)'
    BY <1>3, <1>4 DEF HandsFit, OrderInv
  <2>2. /\ HandFits(v) /\ hand[v] # None
        /\ hand[v].conv \in Conversations /\ hand[v].off \in Nat
        /\ ~(hand[v].conv = c /\ hand[v].epoch = epoch[c])
    BY <1>5, <1>6, <1>7, <2>1
  <2>3. pos'[hand[v].conv] = pos[hand[v].conv] \/ hand[v].conv = c
    BY <1>2, <2>2
  <2> QED  BY <1>1, <1>7, <2>2, <2>3 DEF HandFits, NotAfter, Sender, Held
<1>8. CASE /\ log[c][pos[c] + 1] # Garbled
           /\ Taken(c) \in Hands /\ hand'[w] = Taken(c)
  <2>1. /\ hand'[w].conv = c /\ hand'[w].off = pos[c] + 1
        /\ hand'[w].epoch = epoch[c]
    BY <1>8 DEF Taken
  <2>2. ASSUME NEW v \in Workers, hand'[v] # None, v # w
        PROVE  /\ hand[v] # None /\ hand'[v] = hand[v]
    BY <1>1, <2>2 DEF Others
  <2>3. HandFits(w)'
    <3>1. \A v \in Workers : (/\ hand'[v] # None /\ hand'[v].conv = c
                              /\ hand'[v].epoch = epoch[c]) => v = w
      BY <1>6, <2>2
    <3>2. \A i \in 1 .. Len(published[c]) :
             published[c][i].epoch = epoch[c] =>
                published[c][i].off < pos[c] + 1
      BY <1>2 DEF OrderInv, PublishedTaken
    <3> QED
      BY <1>1, <1>2, <1>8, <2>1, <3>1, <3>2
         DEF HandFits, NotAfter, Sender, Held
  <2>4. ASSUME NEW v \in Workers, hand'[v] # None, v # w
        PROVE  HandFits(v)'
    <3>1. HandFits(v) /\ hand'[v] = hand[v] /\ hand[v] # None
      BY <1>5, <2>2, <2>4
    <3>2. /\ hand[v].conv \in Conversations /\ hand[v].off \in Nat
          /\ ~(hand[v].conv = c /\ hand[v].epoch = epoch[c])
      BY <1>5, <1>6, <3>1
    <3>3. \A x \in Workers :
             (/\ hand'[x] # None /\ hand'[x].conv = hand[v].conv
              /\ hand'[x].epoch = hand[v].epoch) => x = v
      BY <2>1, <2>2, <3>1, <3>2 DEF HandFits
    <3>4. pos'[hand[v].conv] = pos[hand[v].conv] \/ hand[v].conv = c
      BY <1>2, <3>2
    <3>5. hand[v].epoch = epoch[hand[v].conv] =>
             pos'[hand[v].conv] = pos[hand[v].conv]
      BY <3>2, <3>4
    <3> QED
      BY <1>1, <3>1, <3>3, <3>5 DEF HandFits, NotAfter, Sender, Held
  <2> QED  BY <1>3, <1>4, <2>3, <2>4 DEF HandsFit, OrderInv
<1> QED  BY <1>7, <1>8 DEF TakeShape

\* A hand that keeps its envelope or gives it up fits as before; what it
\* publishes is later than all that was published of its assignment.
LEMMA HandOrder ==
    ASSUME TypeOK, TypeOK', OrderInv, NEW w \in Workers,
           UNCHANGED <<log, epoch, pos, resent>>, Others(w),
           \A c \in Conversations :
              /\ owner'[c] \in {owner[c], None}
              /\ committed'[c] \in {committed[c], pos[c]},
           \/ hand'[w] = None /\ (published' = published \/ Published(w))
           \/ hand[w] \in Hands /\ Keeps(w) /\ published' = published
    PROVE  OrderInv'
<1>1. \A d \in Conversations :
         /\ epoch[d] \in Nat /\ pos[d] \in Nat /\ committed[d] \in Nat
         /\ Len(log[d]) \in Nat
  BY DEF TypeOK
<1>2. TakenInOrder'
  BY <1>1 DEF OrderInv, TakenInOrder
<1>3. \A v \in Workers : hand[v] # None =>
         /\ HandFits(v)
         /\ hand[v].conv \in Conversations /\ hand[v].off \in Nat \ {0}
         /\ hand[v].epoch \in Nat
  BY TypeNumbers DEF OrderInv, HandsFit, Numbers
<1>4. \A v \in Workers : hand'[v] # None =>
         /\ hand[v] # None
         /\ hand'[v].conv = hand[v].conv /\ hand'[v].off = hand[v].off
         /\ hand'[v].epoch = hand[v].epoch
  BY HandAssumption DEF Others, Keeps
<1>5. CASE published' = published
  <2>1. PublishedTaken'
    BY <1>1, <1>5 DEF OrderInv, PublishedTaken
  <2>2. ASSUME NEW v \in Workers, hand'[v] # None PROVE HandFits(v)'
    <3>1. /\ HandFits(v) /\ hand[v] # None
          /\ hand[v].conv \in Conversations
          /\ hand'[v].conv = hand[v].conv /\ hand'[v].off = hand[v].off
          /\ hand'[v].epoch = hand[v].epoch
      BY <1>3, <1>4, <2>2
    <3>2. owner'[hand[v].conv] \in {owner[hand[v].conv], None}
      BY <3>1
    <3>3. \A x \in Workers :
             (/\ hand'[x] # None /\ hand'[x].conv = hand[v].conv
              /\ hand'[x].epoch = hand[v].epoch) => x = v
      BY <1>4, <3>1 DEF HandFits
    <3> QED
      BY <1>5, <3>1, <3>2, <3>3 DEF HandFits, NotAfter, Sender, Held
  <2> QED  BY <1>2, <2>1, <2>2 DEF OrderInv, HandsFit
<1>6. CASE hand'[w] = None /\ Published(w)
  <2>1. /\ hand[w] \in Hands /\ hand[w] # None
        /\ Notice(w).off = hand[w].off /\ Notice(w).epoch = hand[w].epoch
    BY <1>6, HandAssumption DEF Published, Notice
  <2>2. PublishedTaken'
    <3>1. SUFFICES ASSUME NEW c \in Conversations,
                          NEW i \in 1 .. Len(published'[c])
                   PROVE  LET p == published'[c][i] IN
                          /\ p.epoch =< epoch[c]
                          /\ p.epoch = epoch[c] => p.off =< pos[c]
                          /\ p.off =< Len(log[c])
      BY DEF PublishedTaken
    <3>2. CASE /\ i \in 1 .. Len(published[c])
               /\ published'[c][i] = published[c][i]
      BY <3>2 DEF OrderInv, PublishedTaken
    <3>3. CASE c = hand[w].conv /\ published'[c][i] = Notice(w)
      <4>1. HandFits(w)
        BY <1>3, <2>1
      <4> QED  BY <2>1, <3>3, <4>1 DEF HandFits
    <3> QED  BY <1>6, <3>2, <3>3, PublishedGrows
  <2>3. ASSUME NEW v \in Workers, hand'[v] # None PROVE HandFits(v)'
    <3>1. /\ v # w /\ hand[v] # None /\ HandFits(v)
          /\ hand[v].conv \in Conversations
      BY <1>3, <1>4, <1>6, <2>3
    <3>2. hand[v].conv = hand[w].conv => hand[v].epoch # hand[w].epoch
      BY <2>1, <3>1 DEF HandFits
    <3>3. ASSUME NEW i \in 1 .. Len(published'[hand[v].conv]),
                 published'[hand[v].conv][i].epoch = hand[v].epoch
          PROVE  NotAfter(published'[hand[v].conv][i], hand[v].conv,
                          hand[v].off, hand[v].epoch, resent)
      <4>1. /\ i \in 1 .. Len(published[hand[v].conv])
            /\ published'[hand[v].conv][i] = published[hand[v].conv][i]
        BY <1>6, <2>1, <3>1, <3>2, <3>3, PublishedGrows
      <4> QED  BY <3>1, <3>3, <4>1 DEF HandFits
    <3>4. /\ hand'[v] = hand[v]
          /\ owner'[hand[v].conv] \in {owner[hand[v].conv], None}
      BY <3>1 DEF Others
    <3>5. \A x \in Workers :
             (/\ hand'[x] # None /\ hand'[x].conv = hand[v].conv
              /\ hand'[x].epoch = hand[v].epoch) => x = v
      BY <1>4, <3>1 DEF HandFits
    <3> QED
      BY <3>1, <3>3, <3>4, <3>5 DEF HandFits, NotAfter, Sender, Held
  <2> QED  BY <1>2, <2>2, <2>3 DEF OrderInv, HandsFit
<1> QED  BY <1>5, <1>6

\* A record of a retry comes after all that was published before it.
LEMMA ResendOrder ==
    ASSUME TypeOK, OrderInv, NEW w \in Workers, ResendShape(w)
    PROVE  OrderInv'
<1>1. /\ Published(w) /\ hand[w] \in Hands /\ hand[w] # None
      /\ Notice(w).off = hand[w].off /\ Notice(w).epoch = hand[w].epoch
      /\ resent' = resent \cup {<<Held(w), hand[w].epoch>>}
      /\ UNCHANGED <<log, owner, epoch, pos, committed, hand>>
  BY HandAssumption DEF ResendShape, Published, Notice, groupVars
<1>2. HandFits(w)
  BY <1>1 DEF OrderInv, HandsFit
<1>3. TakenInOrder'
  BY <1>1 DEF OrderInv, TakenInOrder
<1>4. PublishedTaken'
  <2>1. SUFFICES ASSUME NEW c \in Conversations,
                        NEW i \in 1 .. Len(published'[c])
                 PROVE  LET p == published'[c][i] IN
                        /\ p.epoch =< epoch[c]
                        /\ p.epoch = epoch[c] => p.off =< pos[c]
                        /\ p.off =< Len(log[c])
    BY <1>1 DEF PublishedTaken
  <2>2. CASE /\ i \in 1 .. Len(published[c])
             /\ published'[c][i] = published[c][i]
    BY <2>2 DEF OrderInv, PublishedTaken
  <2>3. CASE c = hand[w].conv /\ published'[c][i] = Notice(w)
    BY <1>1, <1>2, <2>3 DEF HandFits
  <2> QED  BY <1>1, <2>2, <2>3, PublishedGrows
<1>5. ASSUME NEW v \in Workers, hand[v] # None
      PROVE  HandFits(v)'
  <2>1. HandFits(v) /\ hand[v] \in Hands /\ hand[v].conv \in Conversations
    BY <1>5 DEF OrderInv, HandsFit, TypeOK, Hands
  <2>2. ASSUME NEW i \in 1 .. Len(published'[hand[v].conv]),
               published'[hand[v].conv][i].epoch = hand[v].epoch
        PROVE  NotAfter(published'[hand[v].conv][i], hand[v].conv,
                        hand[v].off, hand[v].epoch, resent')
    <3>1. CASE /\ i \in 1 .. Len(published[hand[v].conv])
               /\ published'[hand[v].conv][i] = published[hand[v].conv][i]
      BY <1>1, <2>1, <2>2, <3>1 DEF HandFits, NotAfter
    <3>2. CASE /\ hand[v].conv = hand[w].conv
               /\ published'[hand[v].conv][i] = Notice(w)
      <4>1. v = w
        BY <1>1, <1>5, <2>1, <2>2, <3>2 DEF HandFits
      <4> QED  BY <1>1, <3>2, <4>1 DEF NotAfter, Held
    <3> QED  BY <1>1, <2>1, <3>1, <3>2, PublishedGrows
  <2> QED  BY <1>1, <2>1, <2>2 DEF HandFits, Sender, Held
<1> QED  BY <1>1, <1>3, <1>4, <1>5 DEF OrderInv, HandsFit

LEMMA OrderNext ==
    ASSUME TypeOK, TypeOK', OwnedAssigned, OrderInv, [Next]_vars
    PROVE  OrderInv'
<1>1. ASSUME NEW c \in Conversations, NEW w \in Workers, Assign(c, w)
      PROVE  OrderInv'
  BY <1>1, AssignOrder
<1>2. ASSUME NEW c \in Conversations, NEW w \in Workers, Take(w, c)
      PROVE  OrderInv'
  BY <1>2, TakeHasShape, TakeOrder
<1>3. ASSUME NEW w \in Workers, Step(w) PROVE OrderInv'
  <2>1. StepShape(w)
    BY <1>3, StepHasShape
  <2> QED  BY <2>1, HandOrder DEF StepShape
<1>4. ASSUME NEW w \in Workers, Error(w) \/ Crash(w) PROVE OrderInv'
  <2>1. EndShape(w)
    BY <1>4, EndHasShape
  <2>2. \A c \in Conversations : owner'[c] \in {owner[c], None}
    BY <2>1 DEF EndShape
  <2> QED  BY <2>1, <2>2, HandOrder DEF EndShape
<1>5. ASSUME NEW c \in Conversations, Revoke(c) \/ AutoCommit(c)
      PROVE  OrderInv'
  <2>1. /\ committed' \in {committed, [committed EXCEPT ![c] = CommitPoint(c)]}
        /\ owner' \in {owner, [owner EXCEPT ![c] = None]}
        /\ UNCHANGED <<hand, published, epoch, pos, resent>>
    BY <1>5 DEF Revoke, AutoCommit, history
  <2>2. \A d \in Conversations :
           /\ owner'[d] \in {owner[d], None}
           /\ committed'[d] \in {committed[d], pos[d]}
    BY <2>1, CommitPoints DEF TypeOK
  <2> QED  BY <2>1, <2>2, OrderKept
<1>6. ASSUME \/ \E c \in Conversations :
                   \/ \E u \in Users \cup {Garbled} : Post(c, u)
                   \/ \E u \in Users : ChangeMember(c, u)
             \/ \E w \in Workers : Restart(w)
             \/ UNCHANGED vars
      PROVE  OrderInv'
  <2>1. UNCHANGED <<hand, published, epoch, pos, owner, committed, resent>>
    BY <1>6 DEF Post, ChangeMember, Restart, vars, groupVars, history
  <2> QED  BY <2>1, OrderKept
<1>7. ASSUME NEW w \in Workers, Resend(w) PROVE OrderInv'
  BY <1>7, ResendHasShape, ResendOrder
<1> QED  BY <1>1, <1>2, <1>3, <1>4, <1>5, <1>6, <1>7 DEF Next

LEMMA Order == Spec => [](TypeOK /\ OwnedAssigned /\ OrderInv)
<1>1. Init => TypeOK /\ OwnedAssigned /\ OrderInv
  BY TypeInit, AssignedInit, OrderInit
<1>2. TypeOK /\ OwnedAssigned /\ OrderInv /\ [Next]_vars
         => (TypeOK /\ OwnedAssigned /\ OrderInv)'
  BY TypeNext, OrderNext
<1> QED  BY <1>1, <1>2, PTL DEF Spec

----------------------------------------------------------------------------
(* The order of the publications.                                          *)

\* A step publishes what one instance has in hand, or nothing.
LEMMA Publishes ==
    ASSUME TypeOK, [Next]_vars
    PROVE  /\ published' = published \/ \E w \in Workers : Published(w)
           /\ resent \subseteq resent'
<1>1. ASSUME NEW w \in Workers, Step(w)
      PROVE  (published' = published \/ Published(w)) /\ resent' = resent
  BY <1>1, StepHasShape DEF StepShape
<1>2. ASSUME NEW w \in Workers, Error(w) \/ Crash(w)
      PROVE  (published' = published \/ Published(w)) /\ resent' = resent
  BY <1>2, EndHasShape DEF EndShape
<1>3. ASSUME NEW w \in Workers, Resend(w)
      PROVE  Published(w) /\ resent \subseteq resent'
  BY <1>3, ResendHasShape DEF ResendShape
<1>4. ASSUME ~\E w \in Workers :
                 Step(w) \/ Error(w) \/ Crash(w) \/ Resend(w)
      PROVE  published' = published /\ resent' = resent
  BY <1>4 DEF Next, Post, ChangeMember, Assign, Take, Revoke, AutoCommit,
              Restart, vars, history
<1> QED  BY <1>1, <1>2, <1>3, <1>4

LEMMA OrderedStep ==
    ASSUME TypeOK, OrderInv, OrderedPerAssignment, [Next]_vars
    PROVE  OrderedPerAssignment'
<1>0. resent \subseteq resent'
  BY Publishes
<1>1. ASSUME NEW w \in Workers, Published(w),
             NEW c \in Conversations,
             NEW i \in 1 .. Len(published'[c]),
             NEW j \in 1 .. Len(published'[c]),
             i < j, published'[c][i].epoch = published'[c][j].epoch
      PROVE  NotAfter(published'[c][i], c, published'[c][j].off,
                      published'[c][j].epoch, resent')
  <2>1. /\ i \in 1 .. Len(published[c])
        /\ published'[c][i] = published[c][i]
    <3>1. Len(published[c]) \in Nat /\ Len(published'[c]) \in Nat
      BY <1>1 DEF TypeOK, Published
    <3>2. CASE i \notin 1 .. Len(published[c])
      <4>1. i = Len(published[c]) + 1
        BY <1>1, <3>2, PublishedGrows
      <4>2. j \in 1 .. Len(published[c]) \/ j = Len(published[c]) + 1
        BY <1>1, PublishedGrows
      <4> QED  BY <1>1, <3>1, <4>1, <4>2
    <3> QED  BY <1>1, <3>2, PublishedGrows
  <2>2. CASE /\ j \in 1 .. Len(published[c])
             /\ published'[c][j] = published[c][j]
    <3>1. \/ published[c][i].off < published[c][j].off
          \/ /\ published[c][i].off = published[c][j].off
             /\ <<<<c, published[c][i].off>>, published[c][i].epoch>>
                   \in resent
      BY <1>1, <2>1, <2>2 DEF OrderedPerAssignment
    <3> QED  BY <1>0, <1>1, <2>1, <2>2, <3>1 DEF NotAfter
  <2>3. CASE c = hand[w].conv /\ published'[c][j] = Notice(w)
    <3>1. hand[w] # None /\ hand[w] \in Hands
      BY <1>1, HandAssumption DEF Published
    <3>2. HandFits(w)
      BY <3>1 DEF OrderInv, HandsFit
    <3> QED
      BY <1>0, <1>1, <2>1, <2>3, <3>2 DEF HandFits, Notice, NotAfter
  <2> QED  BY <1>1, <2>2, <2>3, PublishedGrows
<1>2. CASE published' = published
  BY <1>0, <1>2 DEF OrderedPerAssignment
<1>3. CASE \E w \in Workers : Published(w)
  BY <1>1, <1>3 DEF OrderedPerAssignment, NotAfter
<1> QED  BY <1>2, <1>3, Publishes

\* Within one assignment of a partition its messages are published in the
\* order of the log, and none twice but by a retry inside its one send,
\* whatever an instance that lost the partition still publishes from an
\* earlier assignment.
THEOREM PublishedInOrder == Spec => []OrderedPerAssignment
<1>1. Init => OrderedPerAssignment
  BY DEF Init, OrderedPerAssignment
<1>2. TypeOK /\ OrderInv /\ OrderedPerAssignment /\ [Next]_vars
         => OrderedPerAssignment'
  BY OrderedStep
<1> QED  BY <1>1, <1>2, Order, PTL DEF Spec

----------------------------------------------------------------------------
(* What was taken.                                                         *)

\* A publication is of the envelope in hand, and takes nothing back.
LEMMA AnnouncedGrows ==
    ASSUME TypeOK, NEW w \in Workers, Published(w)
    PROVE  Announced' = Announced \cup {<<Held(w), hand[w].parts>>}
<1> DEFINE Pair(c, p) == <<<<c, p.off>>, p.parts>>
<1>1. Announced = UNION {{Pair(c, published[c][i]) :
                            i \in 1 .. Len(published[c])} :
                               c \in Conversations}
  BY DEF Announced
<1>2. Announced' = UNION {{Pair(c, published'[c][i]) :
                            i \in 1 .. Len(published'[c])} :
                               c \in Conversations}
  BY DEF Announced
<1>3. Pair(hand[w].conv, Notice(w)) = <<Held(w), hand[w].parts>>
  BY DEF Notice, Held
<1>4. ASSUME NEW a \in Announced' PROVE
         a \in Announced \/ a = <<Held(w), hand[w].parts>>
  <2>0. PICK c \in Conversations : \E i \in 1 .. Len(published'[c]) :
           a = Pair(c, published'[c][i])
    BY <1>2, <1>4
  <2>1. PICK i \in 1 .. Len(published'[c]) : a = Pair(c, published'[c][i])
    BY <2>0
  <2> HIDE DEF Pair
  <2>2. CASE /\ i \in 1 .. Len(published[c])
             /\ published'[c][i] = published[c][i]
    BY <1>1, <2>1, <2>2
  <2>3. CASE c = hand[w].conv /\ published'[c][i] = Notice(w)
    BY <1>3, <2>1, <2>3
  <2> QED  BY <2>2, <2>3, PublishedGrows
<1>5. ASSUME NEW a \in Announced PROVE a \in Announced'
  <2>0. PICK c \in Conversations : \E i \in 1 .. Len(published[c]) :
           a = Pair(c, published[c][i])
    BY <1>1, <1>5
  <2>1. PICK i \in 1 .. Len(published[c]) : a = Pair(c, published[c][i])
    BY <2>0
  <2>2. /\ i \in 1 .. Len(published'[c])
        /\ published'[c][i] = published[c][i]
    BY PublishedGrows
  <2> HIDE DEF Pair
  <2> QED  BY <1>2, <2>1, <2>2
<1>6. <<Held(w), hand[w].parts>> \in Announced'
  <2>1. PICK c \in Conversations : c = hand[w].conv
    BY DEF Published, Hands
  <2>2. /\ Len(published'[c]) = Len(published[c]) + 1
        /\ published'[c][Len(published[c]) + 1] = Notice(w)
    BY <2>1, PublishedGrows
  <2>3. Len(published[c]) \in Nat
    BY DEF TypeOK
  <2>4. Len(published[c]) + 1 \in 1 .. Len(published'[c])
    BY <2>2, <2>3
  <2> HIDE DEF Pair
  <2> QED  BY <1>2, <1>3, <2>1, <2>2, <2>4
<1> QED  BY <1>4, <1>5, <1>6

\* What became of a message is never taken back.
LEMMA RecordsGrow ==
    ASSUME TypeOK, [Next]_vars
    PROVE  /\ Announced \subseteq Announced'
           /\ rejected \subseteq rejected'
           /\ interrupted \subseteq interrupted'
           /\ skipped \subseteq skipped'
<1>1. Announced \subseteq Announced'
  <2>1. CASE published' = published
    BY <2>1 DEF Announced
  <2>2. CASE \E w \in Workers : Published(w)
    BY <2>2, AnnouncedGrows
  <2> QED  BY <2>1, <2>2, Publishes
<1>2. ASSUME NEW w \in Workers, Step(w)
      PROVE  /\ rejected \subseteq rejected'
             /\ interrupted \subseteq interrupted' /\ skipped' = skipped
  <2>1. StepShape(w)
    BY <1>2, StepHasShape
  <2> QED  BY <2>1 DEF StepShape
<1>3. ASSUME NEW w \in Workers, Error(w) \/ Crash(w)
      PROVE  /\ rejected \subseteq rejected'
             /\ interrupted \subseteq interrupted' /\ skipped' = skipped
  <2>1. EndShape(w)
    BY <1>3, EndHasShape
  <2> QED  BY <2>1 DEF EndShape
<1>4. ASSUME ~\E w \in Workers : Step(w) \/ Error(w) \/ Crash(w)
      PROVE  UNCHANGED <<rejected, interrupted>> /\ skipped \subseteq skipped'
  BY <1>4 DEF Next, Post, ChangeMember, Assign, Take, Revoke, AutoCommit,
              Resend, Restart, vars, history
<1> QED  BY <1>1, <1>2, <1>3, <1>4

LEMMA SettledStays ==
    ASSUME TypeOK, [Next]_vars, NEW c \in Conversations,
           NEW o \in 1 .. Len(log[c]), Settled(<<c, o>>)
    PROVE  Settled(<<c, o>>)'
<1>1. log'[c][o] = log[c][o]
  BY LogGrows
<1>2. Sender(<<c, o>>)' = Sender(<<c, o>>)
  BY <1>1 DEF Sender
<1> QED  BY <1>2, RecordsGrow DEF Settled

\* An instance keeps its envelope, or the envelope is settled.
LEMMA HandsSettle ==
    ASSUME TypeOK, [Next]_vars, NEW w \in Workers, hand[w] # None,
           NEW m, Held(w) = m
    PROVE  \/ hand'[w] # None /\ Held(w)' = m
           \/ Settled(m)'
<1>0. m = <<hand[w].conv, hand[w].off>>
  BY DEF Held
<1>1. ASSUME NEW v \in Workers, Step(v)
      PROVE  \/ hand'[w] # None /\ Held(w)' = m
             \/ Settled(m)'
  <2>1. StepShape(v)
    BY <1>1, StepHasShape
  <2>2. CASE v # w
    BY <2>1, <2>2 DEF StepShape, Others, Held
  <2>3. CASE v = w /\ Keeps(w)
    BY <2>3, HandAssumption DEF Keeps, Held
  <2>4. CASE v = w /\ rejected' = rejected \cup {m}
    BY <2>4 DEF Settled
  <2>5. CASE v = w /\ Published(w)
    <3>1. <<m, hand[w].parts>> \in Announced'
      BY <2>5, AnnouncedGrows
    <3> QED  BY <3>1 DEF Settled
  <2> QED  BY <2>1, <2>2, <2>3, <2>4, <2>5 DEF StepShape
<1>2. ASSUME NEW v \in Workers, Error(v) \/ Crash(v)
      PROVE  \/ hand'[w] # None /\ Held(w)' = m
             \/ Settled(m)'
  <2>1. EndShape(v)
    BY <1>2, EndHasShape
  <2>2. CASE v # w
    BY <2>1, <2>2 DEF EndShape, Others, Held
  <2>3. CASE v = w
    BY <2>1, <2>3 DEF EndShape, Settled
  <2> QED  BY <2>2, <2>3
<1>3. ASSUME NEW c \in Conversations, NEW v \in Workers, Take(v, c)
      PROVE  hand'[w] # None /\ Held(w)' = m
  BY <1>3 DEF Take, Held, TypeOK
<1>4. ASSUME ~\E v \in Workers : Step(v) \/ Error(v) \/ Crash(v),
             ~\E c \in Conversations, v \in Workers : Take(v, c)
      PROVE  hand' = hand
  BY <1>4 DEF Next, Post, ChangeMember, Assign, Revoke, AutoCommit, Resend,
              Restart, vars
<1> QED  BY <1>1, <1>2, <1>3, <1>4 DEF Held

\* The offset of a partition goes back, stays, passes one envelope, or, with
\* nothing committed, is set to the end.
LEMMA OffsetMoves ==
    ASSUME TypeOK, OwnedAssigned, OrderInv, [Next]_vars,
           NEW c \in Conversations
    PROVE  \/ pos'[c] =< pos[c]
           \/ /\ pos'[c] = pos[c] + 1
              /\ \E w \in Workers : TakeShape(w, c)
           \/ /\ committed[c] = 0 /\ pos'[c] = Len(log[c])
              /\ {c} \X (pos[c] + 1 .. pos'[c]) \subseteq skipped'
              /\ \E w \in Workers : Assign(c, w)
<1>1. /\ pos[c] \in Nat /\ committed[c] =< pos[c]
  BY TypeNumbers DEF Numbers, OrderInv, TakenInOrder
<1>2. ASSUME NEW d \in Conversations, NEW w \in Workers, Assign(d, w)
      PROVE  \/ pos'[c] =< pos[c]
             \/ /\ committed[c] = 0 /\ pos'[c] = Len(log[c]) /\ d = c
                /\ {c} \X (pos[c] + 1 .. pos'[c]) \subseteq skipped'
  <2>1. /\ pos' = [pos EXCEPT ![d] = Beginning(d)]
        /\ skipped' = skipped \cup ({d} \X (pos[d] + 1 .. Beginning(d)))
    BY <1>2 DEF Assign
  <2>2. pos'[c] = IF c = d THEN Beginning(d) ELSE pos[c]
    BY <2>1 DEF TypeOK
  <2> QED  BY <1>1, <2>1, <2>2, Beginnings
<1>3. ASSUME NEW d \in Conversations, NEW w \in Workers, Take(w, d)
      PROVE  \/ pos'[c] =< pos[c]
             \/ pos'[c] = pos[c] + 1 /\ TakeShape(w, c)
  <2>1. TakeShape(w, d)
    BY <1>3, TakeHasShape
  <2>2. pos' = [pos EXCEPT ![d] = pos[d] + 1]
    BY <2>1 DEF TakeShape
  <2> QED  BY <1>1, <2>1, <2>2 DEF TypeOK
<1>4. ASSUME ~\E d \in Conversations, w \in Workers :
                 Assign(d, w) \/ Take(w, d)
      PROVE  pos' = pos
  BY <1>4 DEF Next, Post, ChangeMember, Revoke, AutoCommit, Step, Check,
              Insert, Touch, Fetch, BumpUnread, TrackDelivery, Publish,
              Resend, Error, Crash, Stop, Restart, groupVars, vars
<1> QED  BY <1>1, <1>2, <1>3, <1>4

LEMMA AccountStep ==
    ASSUME TypeOK, OwnedAssigned, OrderInv, TakenAccounted, [Next]_vars
    PROVE  TakenAccounted'
<1>1. SUFFICES ASSUME NEW c \in Conversations, NEW o \in 1 .. pos'[c]
               PROVE  Accounted(<<c, o>>)'
  BY DEF TakenAccounted
<1>2. /\ pos[c] \in Nat /\ Len(log[c]) \in Nat /\ pos[c] =< Len(log[c])
  BY TypeNumbers DEF Numbers, OrderInv, TakenInOrder
<1>3. CASE o \in 1 .. pos[c]
  <2>1. o \in 1 .. Len(log[c])
    BY <1>2, <1>3
  <2>2. CASE Settled(<<c, o>>)
    BY <2>1, <2>2, SettledStays DEF Accounted
  <2>3. CASE InHand(<<c, o>>)
    <3>1. PICK w \in Workers : hand[w] # None /\ Held(w) = <<c, o>>
      BY <2>3 DEF InHand
    <3> QED  BY <3>1, HandsSettle DEF InHand, Accounted
  <2>4. CASE <<c, o>> \in skipped
    BY <2>4, RecordsGrow DEF Accounted
  <2> QED  BY <1>3, <2>2, <2>3, <2>4 DEF TakenAccounted, Accounted
<1>4. pos'[c] \in Nat
  <2>1. TypeOK'
    BY TypeNext
  <2> QED  BY <2>1 DEF TypeOK
<1>5. CASE {c} \X (pos[c] + 1 .. pos'[c]) \subseteq skipped'
           /\ o \notin 1 .. pos[c]
  <2>1. o \in pos[c] + 1 .. pos'[c]
    BY <1>2, <1>4, <1>5
  <2> QED  BY <1>5, <2>1 DEF Accounted
<1>6. ASSUME o \notin 1 .. pos[c], NEW w \in Workers,
             TakeShape(w, c), pos'[c] = pos[c] + 1
      PROVE  Accounted(<<c, o>>)'
  <2>2. o = pos[c] + 1 /\ log' = log
    BY <1>2, <1>6 DEF TakeShape
  <2>3. CASE log[c][o] = Garbled
    BY <2>2, <2>3 DEF Settled, Sender, Accounted
  <2>4. CASE hand'[w] = Taken(c) /\ Taken(c) \in Hands
    <3>1. hand'[w] # None
      BY <2>4, HandAssumption
    <3>2. hand'[w].conv = c /\ hand'[w].off = o
      BY <2>2, <2>4 DEF Taken
    <3> QED  BY <3>1, <3>2 DEF InHand, Held, Accounted
  <2> QED  BY <1>6, <2>2, <2>3, <2>4 DEF TakeShape
<1> QED  BY <1>2, <1>3, <1>4, <1>5, <1>6, OffsetMoves

\* Committing ahead of the work never skips a message in silence: whatever
\* lies behind the committed offset was published, was refused, is still being
\* processed, was in the hands of an instance when that ended, or was begun
\* behind while nothing was committed.
THEOREM NothingSkipped == Spec => []NoSilentSkip
<1>1. Init => TakenAccounted
  BY DEF Init, TakenAccounted
<1>2. TypeOK /\ OwnedAssigned /\ OrderInv /\ TakenAccounted /\ [Next]_vars
         => TakenAccounted'
  BY AccountStep
<1>3. TypeOK /\ OrderInv /\ TakenAccounted => NoSilentSkip
  <2> SUFFICES ASSUME TypeOK, OrderInv, TakenAccounted,
                      NEW c \in Conversations, NEW o \in 1 .. committed[c]
               PROVE  Accounted(<<c, o>>)
    BY DEF NoSilentSkip, Accounted
  <2>1. o \in 1 .. pos[c]
    BY TypeNumbers DEF Numbers, OrderInv, TakenInOrder
  <2> QED  BY <2>1 DEF TakenAccounted
<1> QED  BY <1>1, <1>2, <1>3, Order, PTL DEF Spec

----------------------------------------------------------------------------
(* What is written for the envelope in hand.                               *)

LEMMA StagesFollow ==
    /\ Follows("check") = "insert" /\ Follows("insert") = "touch"
    /\ Follows("touch") = "fetch" /\ Follows("unread") = "status"
    /\ Follows("status") = "publish"
BY DEF Follows

\* The rows of the database stay, and a step of an instance adds the message
\* it holds, or the delivery record of a member, at the stage of that.
LEMMA RowsGrow ==
    ASSUME TypeOK, [Next]_vars
    PROVE  /\ stored \subseteq stored' /\ tracked \subseteq tracked'
           /\ \/ UNCHANGED <<stored, tracked>>
              \/ \E w \in Workers : Insert(w) \/ TrackDelivery(w)
BY DEF Next, Post, ChangeMember, Assign, Take, Revoke, AutoCommit, Step,
       Check, Insert, Touch, Fetch, BumpUnread, TrackDelivery, Publish,
       Resend, Error, Crash, Stop, Restart, dbVars, vars

LEMMA StepWritten ==
    ASSUME TypeOK, NEW w \in Workers, Step(w), Written(w), hand'[w] # None
    PROVE  Written(w)'
<1> DEFINE m == <<hand[w].conv, hand[w].off>>
<1>1. hand[w] \in Hands /\ hand[w].todo \subseteq Users /\ {} \subseteq Users
      /\ hand[w].parts \subseteq Users
  BY StepHasShape DEF StepShape, Hands
<1>2. /\ hand[w].stage \notin {"check", "insert"} => m \in stored
      /\ hand[w].stage = "status" =>
            \A u \in hand[w].parts \ hand[w].todo : <<m, u>> \in tracked
  BY DEF Written, Held
<1>3. ASSUME Keeps(w)
      PROVE  Held(w)' = m
  BY <1>3 DEF Keeps, Held
<1>4. CASE Check(w)
  <2>1. At(w, "check") /\ Proceed(w, {})
    BY <1>4, Finishes DEF Check
  <2>2. "check" \in Stages \ {"publish"}
    BY DEF Stages
  <2>3. hand'[w].stage = "insert"
    BY <1>1, <2>1, <2>2, Proceeds, StagesFollow
  <2> QED  BY <2>3 DEF Written
<1>5. CASE Insert(w)
  <2>1. At(w, "insert") /\ Proceed(w, {}) /\ stored' = stored \cup {m}
    BY <1>5 DEF Insert, Held
  <2>2. "insert" \in Stages \ {"publish"}
    BY DEF Stages
  <2>3. hand'[w].stage = "touch" /\ Keeps(w)
    BY <1>1, <2>1, <2>2, Proceeds, StagesFollow
  <2> QED  BY <1>3, <2>1, <2>3 DEF Written
<1>6. CASE Touch(w)
  <2>1. At(w, "touch") /\ Proceed(w, {}) /\ stored' = stored
    BY <1>6 DEF Touch, dbVars
  <2>2. "touch" \in Stages \ {"publish"} /\ hand[w].stage = "touch"
    BY <2>1 DEF Stages, At
  <2>3. hand'[w].stage = "fetch" /\ Keeps(w)
    BY <1>1, <2>1, <2>2, Proceeds, StagesFollow
  <2> QED  BY <1>2, <1>3, <2>1, <2>2, <2>3 DEF Written
<1>7. CASE Fetch(w)
  <2>1. stored' = stored
    BY <1>7 DEF Fetch, dbVars
  <2>2. hand[w].stage = "fetch" /\ hand'[w].stage = "unread" /\ Keeps(w)
    BY <1>7, Fetches
  <2> QED  BY <1>2, <1>3, <2>1, <2>2 DEF Written
<1>8. CASE BumpUnread(w)
  <2>1. At(w, "unread") /\ UNCHANGED <<stored, tracked>>
    BY <1>8 DEF BumpUnread
  <2>2. "unread" \in Stages \ {"publish"} /\ hand[w].stage = "unread"
    BY <2>1 DEF Stages, At
  <2>3. CASE Proceed(w, hand[w].parts)
    <3>1. /\ hand'[w].stage = "status" /\ Keeps(w)
          /\ hand'[w].todo = hand[w].parts /\ hand'[w].parts = hand[w].parts
      BY <1>1, <2>1, <2>2, <2>3, Proceeds, StagesFollow
    <3> QED  BY <1>2, <1>3, <2>1, <2>2, <3>1 DEF Written
  <2>4. ASSUME NEW u \in hand[w].todo,
               hand' = [hand EXCEPT ![w].todo = @ \ {u}]
        PROVE  Written(w)'
    <3>1. hand'[w].stage = "unread" /\ Keeps(w)
      BY <2>1, <2>2, <2>4, Ticks
    <3> QED  BY <1>2, <1>3, <2>1, <2>2, <3>1 DEF Written
  <2> QED  BY <1>8, <2>3, <2>4 DEF BumpUnread
<1>9. CASE TrackDelivery(w)
  <2>1. At(w, "status") /\ stored' = stored
    BY <1>9 DEF TrackDelivery
  <2>2. "status" \in Stages \ {"publish"} /\ hand[w].stage = "status"
    BY <2>1 DEF Stages, At
  <2>3. CASE /\ hand[w].todo = {} /\ Proceed(w, {}) /\ tracked' = tracked
    <3>1. /\ hand'[w].stage = "publish" /\ Keeps(w)
          /\ hand'[w].parts = hand[w].parts
      BY <1>1, <2>1, <2>2, <2>3, Proceeds, StagesFollow
    <3> QED  BY <1>2, <1>3, <2>1, <2>2, <2>3, <3>1 DEF Written
  <2>4. ASSUME NEW u \in hand[w].todo,
               tracked' = tracked \cup {<<m, u>>},
               hand' = [hand EXCEPT ![w].todo = @ \ {u}]
        PROVE  Written(w)'
    <3>1. /\ hand'[w].stage = "status" /\ Keeps(w)
          /\ hand'[w].parts = hand[w].parts
          /\ hand'[w].todo = hand[w].todo \ {u}
      BY <2>1, <2>2, <2>4, Ticks
    <3> QED  BY <1>2, <1>3, <2>1, <2>2, <2>4, <3>1 DEF Written
  <2> QED  BY <1>9, <2>3, <2>4 DEF TrackDelivery, Held
<1>10. CASE Publish(w)
  BY <1>10, Finishes DEF Publish
<1> QED  BY <1>4, <1>5, <1>6, <1>7, <1>8, <1>9, <1>10 DEF Step

LEMMA WrittenStep ==
    ASSUME TypeOK, OwnedAssigned, HandsWritten, [Next]_vars
    PROVE  HandsWritten'
<1>1. SUFFICES ASSUME NEW w \in Workers, hand'[w] # None
               PROVE  Written(w)'
  BY DEF HandsWritten
<1>2. ASSUME hand'[w] = hand[w] PROVE Written(w)'
  BY <1>1, <1>2, RowsGrow DEF HandsWritten, Written, Held
<1>3. ASSUME NEW v \in Workers, Step(v) PROVE Written(w)'
  <2>1. StepShape(v)
    BY <1>3, StepHasShape
  <2>2. CASE v = w
    BY <1>1, <1>3, <2>1, <2>2, HandAssumption, StepWritten
       DEF StepShape, HandsWritten
  <2> QED  BY <1>2, <2>1, <2>2 DEF StepShape, Others
<1>4. ASSUME NEW v \in Workers, Error(v) \/ Crash(v) PROVE Written(w)'
  BY <1>1, <1>2, <1>4, EndHasShape DEF EndShape, Others
<1>5. ASSUME NEW c \in Conversations, NEW v \in Workers, Take(v, c)
      PROVE  Written(w)'
  <2>1. TakeShape(v, c)
    BY <1>5, TakeHasShape
  <2>2. CASE hand'[v] = Taken(c) /\ v = w
    BY <2>2 DEF Taken, Written
  <2> QED  BY <1>2, <2>1, <2>2 DEF TakeShape, Others
<1>6. ASSUME ~\E v \in Workers : Step(v) \/ Error(v) \/ Crash(v),
             ~\E c \in Conversations, v \in Workers : Take(v, c)
      PROVE  hand' = hand
  BY <1>6 DEF Next, Post, ChangeMember, Assign, Revoke, AutoCommit, Resend,
              Restart, vars
<1> QED  BY <1>2, <1>3, <1>4, <1>5, <1>6

----------------------------------------------------------------------------
(* The refinement: every step of the service is one of MessageLifecycle.   *)

\* The messages the service was given, as the promise has them.
Sent == {m \in Messages : m[2] =< Len(log[m[1]])}

PromiseVars == <<Sent, stored, tracked, Announced>>

LEMMA PostSends ==
    ASSUME TypeOK, NEW c \in Conversations, NEW u \in Users \cup {Garbled},
           Post(c, u)
    PROVE  \E m \in Messages : Promise!Send(m)
<1> DEFINE n == Len(log[c]) + 1
<1>1. /\ log' = [log EXCEPT ![c] = Append(log[c], u)]
      /\ log[c] \in Seq(Users \cup {Garbled})
      /\ Len(log[c]) < MaxLog /\ Len(log[c]) \in Nat
      /\ UNCHANGED <<stored, tracked, published>>
  BY DEF Post, TypeOK, dbVars
<1>2. Len(log'[c]) = n /\ n \in Offsets
  <2>1. Len(Append(log[c], u)) = Len(log[c]) + 1
    BY <1>1
  <2>2. log'[c] = Append(log[c], u)
    BY <1>1 DEF TypeOK
  <2> QED  BY <1>1, <2>1, <2>2, ProcessorAssumption DEF Offsets
<1>3. \A d \in Conversations \ {c} : log'[d] = log[d]
  BY <1>1 DEF TypeOK
<1>4. <<c, n>> \in Messages
  BY <1>2 DEF Messages
<1> HIDE DEF n
<1>5. Sent' = Sent \cup {<<c, n>>}
  <2>1. ASSUME NEW m \in Messages
        PROVE  m \in Sent' <=> m \in Sent \/ m = <<c, n>>
    <3>1. m = <<m[1], m[2]>> /\ m[1] \in Conversations /\ m[2] \in Nat
      BY DEF Messages, Offsets
    <3>2. CASE m[1] = c
      BY <1>1, <1>2, <3>1, <3>2 DEF Sent, n
    <3>3. CASE m[1] # c
      BY <1>3, <3>1, <3>3 DEF Sent
    <3> QED  BY <3>2, <3>3
  <2> QED  BY <1>4, <2>1 DEF Sent
<1>6. UNCHANGED <<stored, tracked, Announced>>
  BY <1>1 DEF Announced
<1> QED
  BY <1>4, <1>5, <1>6 DEF Promise!Send, Sent

\* The envelope in hand is a message that was sent.
LEMMA HeldSent ==
    ASSUME TypeOK, OrderInv, NEW w \in Workers, hand[w] # None
    PROVE  Held(w) \in Messages /\ Held(w) \in Sent
<1>1. hand[w] \in Hands /\ HandFits(w)
  BY DEF TypeOK, OrderInv, HandsFit
<1>2. hand[w].conv \in Conversations /\ hand[w].off \in Offsets
  BY <1>1 DEF Hands
<1>3. Held(w) \in Messages
  BY <1>2 DEF Held, Messages
<1> QED  BY <1>1, <1>3 DEF HandFits, Held, Sent

LEMMA PublishedAnnounces ==
    ASSUME TypeOK, OrderInv, HandsWritten, NEW w \in Workers, Published(w),
           UNCHANGED <<log, stored, tracked>>
    PROVE  \E m \in Messages : \E audience \in SUBSET Users :
              Promise!Announce(m, audience)
<1>1. /\ hand[w] \in Hands /\ hand[w] # None
      /\ hand[w].stage = "publish"
  BY HandAssumption DEF Published
<1>2. /\ Held(w) \in stored
      /\ \A u \in hand[w].parts : <<Held(w), u>> \in tracked
  BY <1>1 DEF HandsWritten, Written
<1>3. Held(w) \in Messages /\ hand[w].parts \in SUBSET Users
  BY <1>1, HeldSent DEF Hands
<1>4. UNCHANGED Sent
  BY DEF Sent
<1>5. Announced' = Announced \cup {<<Held(w), hand[w].parts>>}
  BY AnnouncedGrows
<1>6. Promise!Announce(Held(w), hand[w].parts)
  BY <1>2, <1>4, <1>5 DEF Promise!Announce, Sent
<1> QED  BY <1>3, <1>6

LEMMA PromiseStep ==
    ASSUME TypeOK, OwnedAssigned, OrderInv, HandsWritten, [Next]_vars
    PROVE  Promise!Next \/ UNCHANGED PromiseVars
<1>1. ASSUME NEW c \in Conversations, NEW u \in Users \cup {Garbled},
             Post(c, u)
      PROVE  Promise!Next
  BY <1>1, PostSends DEF Promise!Next
<1>2. ASSUME NEW w \in Workers, Insert(w)
      PROVE  Promise!Next
  <2>1. /\ hand[w] # None /\ UNCHANGED <<log, tracked, published>>
        /\ stored' = stored \cup {Held(w)}
    BY <1>2 DEF Insert, At
  <2>2. UNCHANGED Sent /\ UNCHANGED Announced
    BY <2>1 DEF Sent, Announced
  <2>3. Promise!Store(Held(w))
    BY <2>1, <2>2, HeldSent DEF Promise!Store, Sent
  <2> QED  BY <2>1, <2>3, HeldSent DEF Promise!Next
<1>3. ASSUME NEW w \in Workers, TrackDelivery(w)
      PROVE  Promise!Next \/ UNCHANGED PromiseVars
  <2>1. /\ hand[w] # None /\ hand[w].stage = "status"
        /\ UNCHANGED <<log, stored, published>>
    BY <1>3 DEF TrackDelivery, At
  <2>2. UNCHANGED Sent /\ UNCHANGED Announced
    BY <2>1 DEF Sent, Announced
  <2>3. Held(w) \in stored /\ hand[w].todo \subseteq Users
    BY <2>1 DEF HandsWritten, Written, TypeOK, Hands
  <2>4. ASSUME NEW u \in hand[w].todo,
               tracked' = tracked \cup {<<Held(w), u>>}
        PROVE  Promise!Next
    <3>1. Promise!Track(Held(w), u)
      BY <2>1, <2>2, <2>3, <2>4 DEF Promise!Track, Sent
    <3> QED  BY <2>1, <2>3, <3>1, HeldSent DEF Promise!Next
  <2>5. CASE tracked' = tracked
    BY <2>1, <2>2, <2>5 DEF PromiseVars
  <2> QED  BY <1>3, <2>4, <2>5 DEF TrackDelivery
<1>4. ASSUME NEW w \in Workers, Published(w),
             UNCHANGED <<log, stored, tracked>>
      PROVE  Promise!Next
  BY <1>4, PublishedAnnounces DEF Promise!Next
<1>5. CASE UNCHANGED <<log, stored, tracked, published>>
  BY <1>5 DEF PromiseVars, Sent, Announced
<1>6. ASSUME NEW w \in Workers,
             Publish(w) \/ Resend(w) \/ Error(w) \/ Crash(w)
      PROVE  Promise!Next \/ UNCHANGED PromiseVars
  <2>1. UNCHANGED <<log, stored, tracked>>
    BY <1>6 DEF Publish, Resend, Error, Crash, Stop, dbVars
  <2>2. published' = published \/ Published(w)
    BY <1>6, PublicationShape, Zenon DEF Publish, Resend, Error, Crash
  <2> QED  BY <1>4, <1>5, <2>1, <2>2
<1>7. ASSUME ~\E c \in Conversations, u \in Users \cup {Garbled} : Post(c, u),
             ~\E w \in Workers :
                 \/ Insert(w) \/ TrackDelivery(w)
                 \/ Publish(w) \/ Resend(w) \/ Error(w) \/ Crash(w)
      PROVE  UNCHANGED <<log, stored, tracked, published>>
  BY <1>7 DEF Next, ChangeMember, Assign, Take, Revoke, AutoCommit, Step,
              Check, Touch, Fetch, BumpUnread, Restart, dbVars, vars
<1> QED  BY <1>1, <1>2, <1>3, <1>5, <1>6, <1>7

\* A message is announced only to members with a delivery record, after it
\* was stored, after it was sent; and nothing of that is taken back, whatever
\* fails in between.
THEOREM Lifecycle == Spec => KeepsPromise
<1>1. Init => HandsWritten /\ Promise!Init
  BY DEF Init, HandsWritten, Promise!Init, Announced, Messages, Offsets
<1>2. TypeOK /\ OwnedAssigned /\ HandsWritten /\ [Next]_vars => HandsWritten'
  BY WrittenStep
<1>3. TypeOK /\ OwnedAssigned /\ OrderInv /\ HandsWritten /\ [Next]_vars
         => [Promise!Next]_(Promise!lifecycle)
  BY PromiseStep DEF PromiseVars, Promise!lifecycle, Sent
<1> QED
  BY <1>1, <1>2, <1>3, Order, PTL DEF Spec, KeepsPromise, Promise!Spec

----------------------------------------------------------------------------
(* The last message of a conversation, with one instance of the service    *)
(* and members that stay.                                                  *)

MembersStay == changes = 0 => members = Conversations \X Users

\* What is stored is an envelope that parsed.
StoredSound ==
    \A m \in stored : m[2] =< Len(log[m[1]]) /\ Sender(m) # Garbled

\* Nothing later than the envelope in hand, that its partition's owner has
\* behind it, is stored; and once the envelope is noted as the last message it
\* stays that.
HandIsLast ==
    \A w \in Workers : hand[w] # None =>
       /\ \A o \in hand[w].off + 1 .. pos[hand[w].conv] :
             <<hand[w].conv, o>> \notin stored
       /\ hand[w].stage \in {"fetch", "unread", "status", "publish"} =>
             lastAt[hand[w].conv] = hand[w].off

\* The last message known is as late as any that was taken and done.
LastKnown ==
    changes = 0 =>
       \A c \in Conversations : \A o \in 1 .. pos[c] :
          <<c, o>> \in stored \ interrupted =>
             InHand(<<c, o>>) \/ o =< lastAt[c]

\* Before the first commit nothing is replayed: what is stored or in hand
\* lies behind the owner.
FirstRun ==
    \A c \in Conversations : committed[c] = 0 =>
       /\ \A o \in Offsets : <<c, o>> \in stored => o =< pos[c]
       /\ \A w \in Workers : hand[w] # None /\ hand[w].conv = c =>
             hand[w].off =< pos[c]

LastInv == MembersStay /\ StoredSound /\ HandIsLast /\ LastKnown /\ FirstRun

LEMMA LastInit == Init => LastInv
BY DEF Init, LastInv, MembersStay, StoredSound, HandIsLast, LastKnown,
       FirstRun

LEMMA MembersStep ==
    ASSUME TypeOK, MembersStay, [Next]_vars
    PROVE  MembersStay' /\ (changes' = 0 => changes = 0)
<1>1. CASE UNCHANGED <<members, changes>>
  BY <1>1 DEF MembersStay
<1>2. ASSUME NEW c \in Conversations, NEW u \in Users, ChangeMember(c, u)
      PROVE  changes' # 0
  BY <1>2, ProcessorAssumption DEF ChangeMember, TypeOK
<1>3. \/ UNCHANGED <<members, changes>>
      \/ \E c \in Conversations, u \in Users : ChangeMember(c, u)
  <2>1. ASSUME NEW w \in Workers, Step(w)
        PROVE  UNCHANGED <<members, changes>>
    BY <2>1, StepHasShape DEF StepShape
  <2>2. ASSUME ~\E w \in Workers : Step(w),
               ~\E c \in Conversations, u \in Users : ChangeMember(c, u)
        PROVE  UNCHANGED <<members, changes>>
    BY <2>2 DEF Next, Post, Assign, Take, Revoke, AutoCommit, Resend, Error,
                Crash, Stop, Restart, pgVars, vars
  <2> QED  BY <2>1, <2>2
<1> QED  BY <1>1, <1>2, <1>3 DEF MembersStay

LEMMA StoredStep ==
    ASSUME TypeOK, TypeOK', OrderInv, StoredSound, [Next]_vars
    PROVE  StoredSound'
<1>1. ASSUME NEW m \in Messages, m[2] =< Len(log[m[1]]), Sender(m) # Garbled
      PROVE  m[2] =< Len(log'[m[1]]) /\ Sender(m)' # Garbled
  <2>1. m[1] \in Conversations /\ m[2] \in Nat \ {0}
    BY DEF Messages, Offsets
  <2>2. Len(log[m[1]]) \in Nat /\ m[2] \in 1 .. Len(log[m[1]])
    BY <1>1, <2>1, TypeNumbers DEF Numbers
  <2>3. Len(log[m[1]]) =< Len(log'[m[1]])
        /\ log'[m[1]][m[2]] = log[m[1]][m[2]]
    BY <2>1, <2>2, LogGrows
  <2>4. Len(log'[m[1]]) \in Nat
    BY <2>1 DEF TypeOK
  <2> QED  BY <1>1, <2>1, <2>2, <2>3, <2>4 DEF Sender
<1>2. ASSUME NEW w \in Workers, Insert(w)
      PROVE  /\ stored' = stored \cup {Held(w)}
             /\ Held(w) \in Messages
             /\ Held(w)[2] =< Len(log[Held(w)[1]])
             /\ Sender(Held(w)) # Garbled
  <2>1. hand[w] # None /\ stored' = stored \cup {Held(w)}
    BY <1>2 DEF Insert, At
  <2>2. Held(w) \in Messages /\ HandFits(w)
    BY <2>1, HeldSent DEF OrderInv, HandsFit
  <2> QED  BY <2>1, <2>2 DEF HandFits, Held
<1>3. ASSUME NEW w \in Workers, TrackDelivery(w)
      PROVE  stored' = stored
  BY <1>3 DEF TrackDelivery
<1>4. stored \subseteq Messages
  BY DEF TypeOK
<1>5. ASSUME NEW m \in stored'
      PROVE  m \in Messages /\ m[2] =< Len(log[m[1]]) /\ Sender(m) # Garbled
  <2>1. CASE m \in stored
    BY <1>4, <2>1 DEF StoredSound
  <2>2. CASE m \notin stored
    <3>1. PICK w \in Workers : Insert(w) \/ TrackDelivery(w)
      BY <1>5, <2>2, RowsGrow
    <3> QED  BY <1>2, <1>3, <1>5, <2>2, <3>1
  <2> QED  BY <2>1, <2>2
<1> QED  BY <1>1, <1>5 DEF StoredSound

\* A step of process_message and the last message.
LEMMA StepLast ==
    ASSUME TypeOK, NEW w \in Workers, Step(w)
    PROVE  /\ lastAt' = IF Touch(w)
                 THEN [lastAt EXCEPT ![hand[w].conv] = hand[w].off]
                 ELSE lastAt
           /\ Touch(w) => hand'[w].stage = "fetch" /\ Keeps(w)
           /\ Keeps(w) => \/ Touch(w)
                          \/ hand'[w].stage \in {"insert", "touch"}
                          \/ hand[w].stage \in {"fetch", "unread", "status"}
<1>0. {} \in SUBSET Users
  OBVIOUS
<1>1. CASE Touch(w)
  <2>1. At(w, "touch") /\ Proceed(w, {})
    BY <1>1 DEF Touch
  <2>2. "touch" \in Stages \ {"publish"}
    BY DEF Stages
  <2>3. hand'[w].stage = "fetch" /\ Keeps(w)
    BY <1>0, <2>1, <2>2, Proceeds, StagesFollow
  <2> QED  BY <1>1, <2>3 DEF Touch
<1>2. CASE Check(w)
  <2>1. At(w, "check") /\ lastAt' = lastAt /\ ~Touch(w)
    BY <1>2 DEF Check, pgVars, Touch, At
  <2>2. "check" \in Stages \ {"publish"}
    BY DEF Stages
  <2>3. Keeps(w) => Proceed(w, {})
    BY <1>2, Finishes, HandAssumption DEF Check, Keeps
  <2>4. Keeps(w) => hand'[w].stage = "insert"
    BY <1>0, <2>1, <2>2, <2>3, Proceeds, StagesFollow
  <2> QED  BY <2>1, <2>4
<1>3. CASE Insert(w)
  <2>1. At(w, "insert") /\ Proceed(w, {}) /\ lastAt' = lastAt /\ ~Touch(w)
    BY <1>3 DEF Insert, pgVars, Touch, At
  <2>2. "insert" \in Stages \ {"publish"}
    BY DEF Stages
  <2>3. hand'[w].stage = "touch"
    BY <1>0, <2>1, <2>2, Proceeds, StagesFollow
  <2> QED  BY <2>1, <2>3
<1>4. CASE Fetch(w) \/ BumpUnread(w) \/ TrackDelivery(w)
  BY <1>4 DEF Fetch, BumpUnread, TrackDelivery, pgVars, Touch, At
<1>5. CASE Publish(w)
  BY <1>5, Finishes, HandAssumption DEF Publish, pgVars, Touch, At, Keeps
<1> QED  BY <1>1, <1>2, <1>3, <1>4, <1>5 DEF Step

\* What a step stores is the envelope in hand.
LEMMA StoresHeld ==
    ASSUME TypeOK, [Next]_vars, NEW m \in stored' \ stored
    PROVE  \E w \in Workers :
              /\ Step(w) /\ Insert(w) /\ hand[w] # None /\ m = Held(w)
              /\ Keeps(w) /\ pos' = pos
<1>1. PICK w \in Workers : Insert(w)
  BY RowsGrow DEF TrackDelivery
<1>2. /\ Step(w) /\ hand[w] # None /\ m = Held(w) /\ pos' = pos
  BY <1>1 DEF Insert, At, Step, groupVars
<1>3. At(w, "insert") /\ Proceed(w, {}) /\ {} \in SUBSET Users
  BY <1>1 DEF Insert
<1>4. "insert" \in Stages \ {"publish"}
  BY DEF Stages
<1>5. Keeps(w)
  BY <1>3, <1>4, Proceeds
<1> QED  BY <1>1, <1>2, <1>5

\* Whatever was committed stays committed.
LEMMA FirstCommit ==
    ASSUME TypeOK, OrderInv, [Next]_vars, NEW c \in Conversations,
           committed'[c] = 0
    PROVE  committed[c] = 0
<1>1. pos[c] \in Nat /\ committed[c] \in Nat /\ committed[c] =< pos[c]
  BY TypeNumbers DEF Numbers, OrderInv, TakenInOrder
<1>2. committed'[c] \in {committed[c], pos[c]}
  <2>1. ASSUME NEW w \in Workers, Error(w) \/ Crash(w)
        PROVE  committed'[c] \in {committed[c], pos[c]}
    BY <2>1, EndHasShape DEF EndShape
  <2>2. ASSUME NEW d \in Conversations, Revoke(d) \/ AutoCommit(d)
        PROVE  committed'[c] \in {committed[c], pos[c]}
    BY <2>2, CommitPoints DEF Revoke, AutoCommit, TypeOK
  <2>3. ASSUME ~\E w \in Workers : Error(w) \/ Crash(w),
               ~\E d \in Conversations : Revoke(d) \/ AutoCommit(d)
        PROVE  committed' = committed
    BY <2>3 DEF Next, Post, ChangeMember, Assign, Take, Step, Check, Insert,
                Touch, Fetch, BumpUnread, TrackDelivery, Publish, Resend,
                Restart, groupVars, vars
  <2> QED  BY <2>1, <2>2, <2>3
<1> QED  BY <1>1, <1>2

LEMMA FirstRunStep ==
    ASSUME TypeOK, TypeOK', OwnedAssigned, OrderInv, FirstRun, [Next]_vars
    PROVE  FirstRun'
<1>1. SUFFICES ASSUME NEW c \in Conversations, committed'[c] = 0
               PROVE  /\ \A o \in Offsets :
                            <<c, o>> \in stored' => o =< pos'[c]
                      /\ \A w \in Workers :
                            hand'[w] # None /\ hand'[w].conv = c =>
                               hand'[w].off =< pos'[c]
  BY DEF FirstRun
<1>2. /\ committed[c] = 0 /\ pos[c] \in Nat /\ pos'[c] \in Nat
      /\ pos[c] =< Len(log[c]) /\ Len(log[c]) \in Nat
  <2>1. committed[c] = 0
    BY <1>1, FirstCommit
  <2>2. pos'[c] \in Nat
    BY DEF TypeOK
  <2> QED  BY <2>1, <2>2, TypeNumbers DEF Numbers, OrderInv, TakenInOrder
<1>3. pos[c] =< pos'[c]
  <2>1. ASSUME NEW d \in Conversations, NEW w \in Workers, Assign(d, w)
        PROVE  pos[c] =< pos'[c]
    <3>1. pos'[c] = IF c = d THEN Beginning(d) ELSE pos[c]
      BY <2>1 DEF Assign, TypeOK
    <3>2. Beginning(c) = Len(log[c])
      BY <1>2, Beginnings
    <3> QED  BY <1>2, <3>1, <3>2
  <2>2. ASSUME NEW d \in Conversations, NEW w \in Workers, Take(w, d)
        PROVE  pos[c] =< pos'[c]
    <3>1. pos' = [pos EXCEPT ![d] = pos[d] + 1]
      BY <2>2 DEF Take
    <3>2. pos'[c] = IF c = d THEN pos[c] + 1 ELSE pos[c]
      BY <3>1 DEF TypeOK
    <3> QED  BY <1>2, <3>2
  <2>3. ASSUME ~\E d \in Conversations, w \in Workers :
                   Assign(d, w) \/ Take(w, d)
        PROVE  pos' = pos
    BY <2>3 DEF Next, Post, ChangeMember, Revoke, AutoCommit, Step, Check,
                Insert, Touch, Fetch, BumpUnread, TrackDelivery, Publish,
                Resend, Error, Crash, Stop, Restart, groupVars, vars
  <2> QED  BY <1>2, <2>1, <2>2, <2>3
<1>4. ASSUME NEW w \in Workers, hand[w] # None, hand[w].conv = c
      PROVE  hand[w].off =< pos'[c] /\ hand[w].off \in Nat
  BY <1>2, <1>3, <1>4, TypeNumbers DEF FirstRun, Numbers
<1>5. ASSUME NEW o \in Offsets, <<c, o>> \in stored'
      PROVE  o =< pos'[c]
  <2>1. o \in Nat
    BY DEF Offsets
  <2>2. CASE <<c, o>> \in stored
    BY <1>2, <1>3, <2>1, <2>2 DEF FirstRun
  <2>3. CASE <<c, o>> \notin stored
    <3>1. PICK w \in Workers : hand[w] # None /\ <<c, o>> = Held(w)
      BY <1>5, <2>3, StoresHeld
    <3> QED  BY <1>4, <3>1 DEF Held
  <2> QED  BY <2>2, <2>3
<1>6. ASSUME NEW w \in Workers, hand'[w] # None, hand'[w].conv = c
      PROVE  hand'[w].off =< pos'[c]
  <2>1. CASE /\ hand[w] # None /\ hand'[w].conv = hand[w].conv
             /\ hand'[w].off = hand[w].off
    BY <1>4, <1>6, <2>1
  <2>2. ASSUME NEW d \in Conversations, NEW v \in Workers, Take(v, d)
        PROVE  hand'[w].off =< pos'[c]
    <3>1. TakeShape(v, d)
      BY <2>2, TakeHasShape
    <3>2. CASE hand'[w] = hand[w]
      BY <1>6, <2>1, <3>2
    <3>3. CASE w = v /\ hand'[w] = Taken(d)
      <4>1. d = c /\ hand'[w].off = pos[c] + 1
        BY <1>6, <3>3 DEF Taken
      <4>2. pos'[c] = pos[c] + 1
        BY <3>1, <4>1 DEF TakeShape, TypeOK
      <4> QED  BY <1>2, <4>1, <4>2
    <3> QED  BY <3>1, <3>2, <3>3 DEF TakeShape, Others
  <2>3. ASSUME ~\E d \in Conversations, v \in Workers : Take(v, d)
        PROVE  /\ hand[w] # None /\ hand'[w].conv = hand[w].conv
               /\ hand'[w].off = hand[w].off
    <3>1. ASSUME NEW v \in Workers, Step(v)
          PROVE  /\ hand[w] # None /\ hand'[w].conv = hand[w].conv
                 /\ hand'[w].off = hand[w].off
      BY <1>6, <3>1, StepHasShape, HandAssumption
         DEF StepShape, Others, Keeps
    <3>2. ASSUME NEW v \in Workers, Error(v) \/ Crash(v)
          PROVE  hand'[w] = hand[w]
      BY <1>6, <3>2, EndHasShape DEF EndShape, Others
    <3>3. ASSUME ~\E v \in Workers : Step(v) \/ Error(v) \/ Crash(v)
          PROVE  hand' = hand
      BY <2>3, <3>3 DEF Next, Post, ChangeMember, Assign, Revoke, AutoCommit,
                        Resend, Restart, vars
    <3> QED  BY <1>6, <3>1, <3>2, <3>3
  <2> QED  BY <2>1, <2>2, <2>3
<1> QED  BY <1>5, <1>6

LEMMA HandLastStep ==
    ASSUME TypeOK, TypeOK', OwnedAssigned, OrderInv, HandIsLast, FirstRun,
           [Next]_vars, NEW w \in Workers, Workers = {w}
    PROVE  HandIsLast'
<1> DEFINE Clear == \A o \in hand[w].off + 1 .. pos[hand[w].conv] :
                       <<hand[w].conv, o>> \notin stored
<1>1. SUFFICES ASSUME hand'[w] # None
               PROVE  /\ Clear'
                      /\ hand'[w].stage \in
                            {"fetch", "unread", "status", "publish"} =>
                            lastAt'[hand'[w].conv] = hand'[w].off
  BY DEF HandIsLast
<1>2. hand[w] # None =>
         /\ hand[w].conv \in Conversations /\ hand[w].off \in Nat
         /\ Clear
         /\ hand[w].stage \in {"fetch", "unread", "status", "publish"} =>
               lastAt[hand[w].conv] = hand[w].off
  BY TypeNumbers DEF Numbers, HandIsLast
<1>0. ASSUME NEW c \in Conversations, NEW o \in Nat, <<c, o>> \in stored',
             \/ hand[w] = None
             \/ <<c, o>> # Held(w)
      PROVE  <<c, o>> \in stored
  BY <1>0, StoresHeld
<1>3. CASE Step(w)
  <2>1. StepShape(w)
    BY <1>3, StepHasShape
  <2>2. Keeps(w) /\ pos' = pos /\ hand[w] # None
    BY <1>1, <2>1, HandAssumption DEF StepShape, Published
  <2>3. Clear'
    <3>1. \A o \in hand[w].off + 1 .. pos[hand[w].conv] :
             o \in Nat /\ <<hand[w].conv, o>> # Held(w)
      BY <1>2, <2>2, TypeNumbers DEF Held, Numbers
    <3>2. \A o \in hand[w].off + 1 .. pos[hand[w].conv] :
             <<hand[w].conv, o>> \notin stored'
      BY <1>0, <1>2, <2>2, <3>1
    <3> QED  BY <2>2, <3>2 DEF Keeps
  <2>4. CASE Touch(w)
    <3>1. lastAt' = [lastAt EXCEPT ![hand[w].conv] = hand[w].off]
      BY <1>3, <2>4, StepLast
    <3>2. lastAt'[hand'[w].conv] = hand'[w].off
      BY <1>2, <2>2, <3>1 DEF Keeps, TypeOK
    <3> QED  BY <2>3, <3>2
  <2>5. CASE ~Touch(w)
    <3>1. /\ lastAt' = lastAt
          /\ \/ hand'[w].stage \in {"insert", "touch"}
             \/ hand[w].stage \in {"fetch", "unread", "status"}
      BY <1>3, <2>2, <2>5, StepLast
    <3> QED  BY <1>2, <2>2, <2>3, <3>1 DEF Keeps
  <2> QED  BY <2>4, <2>5
<1>4. ASSUME NEW c \in Conversations, Take(w, c)
      PROVE  Clear' /\ hand'[w].stage = "check"
  <2>1. TakeShape(w, c)
    BY <1>4, TakeHasShape
  <2>2. hand'[w] = Taken(c)
    BY <1>1, <2>1 DEF TakeShape
  <2>3. /\ hand'[w].conv = c /\ hand'[w].off = pos[c] + 1
        /\ hand'[w].stage = "check"
    BY <2>2 DEF Taken
  <2>4. pos'[c] = pos[c] + 1 /\ pos[c] \in Nat
    BY <2>1 DEF TakeShape, TypeOK
  <2>5. hand'[w].off + 1 .. pos'[hand'[w].conv] = {}
    BY <2>3, <2>4
  <2> QED  BY <2>3, <2>5
<1>5. ASSUME NEW c \in Conversations, Assign(c, w)
      PROVE  HandIsLast'
  <2>1. UNCHANGED <<hand, lastAt, stored>> /\ hand[w] # None
    BY <1>1, <1>5 DEF Assign, pgVars, dbVars
  <2>2. /\ pos[c] \in Nat /\ committed[c] \in Nat
        /\ committed[c] =< pos[c] /\ Beginning(c) \in Nat
        /\ \A d \in Conversations :
              pos'[d] = IF d = c THEN Beginning(c) ELSE pos[d]
    BY <1>5, TypeNumbers, Beginnings
       DEF Assign, TypeOK, Numbers, OrderInv, TakenInOrder
  <2>3. ASSUME hand[w].conv = c, NEW o \in hand[w].off + 1 .. Beginning(c),
               <<c, o>> \in stored
        PROVE  FALSE
    <3>1. o \in Offsets /\ o \in Nat /\ hand[w].off \in Nat
      BY <1>2, <2>1, <2>3 DEF TypeOK, Messages, Offsets
    <3>2. o =< pos[c]
      <4>1. CASE committed[c] = 0
        BY <2>3, <3>1, <4>1 DEF FirstRun
      <4>2. CASE committed[c] # 0
        BY <2>2, <2>3, <3>1, <4>2, Beginnings
      <4> QED  BY <4>1, <4>2
    <3>3. o \in hand[w].off + 1 .. pos[c]
      BY <2>2, <2>3, <3>1, <3>2
    <3> QED  BY <1>2, <2>1, <2>3, <3>3
  <2>4. Clear'
    BY <1>2, <2>1, <2>2, <2>3
  <2> QED  BY <1>2, <2>1, <2>4 DEF HandIsLast
<1>6. CASE Error(w) \/ Crash(w)
  BY <1>1, <1>6, EndHasShape DEF EndShape
<1>7. CASE UNCHANGED <<hand, pos, lastAt, stored>>
  BY <1>1, <1>2, <1>7
<1>8. ASSUME ~(Step(w) \/ Error(w) \/ Crash(w)),
             ~\E c \in Conversations : Assign(c, w) \/ Take(w, c)
      PROVE  UNCHANGED <<hand, pos, lastAt, stored>>
  BY <1>8 DEF Next, Post, ChangeMember, Revoke, AutoCommit, Resend, Restart,
              pgVars, dbVars, groupVars, vars
<1> QED  BY <1>1, <1>3, <1>4, <1>5, <1>6, <1>7, <1>8 DEF HandIsLast

LEMMA LastKnownStep ==
    ASSUME TypeOK, OwnedAssigned, OrderInv, LastInv, [Next]_vars,
           NEW w \in Workers, Workers = {w}
    PROVE  LastKnown'
<1>1. SUFFICES ASSUME changes' = 0, NEW c \in Conversations,
                      NEW o \in 1 .. pos'[c],
                      <<c, o>> \in stored', <<c, o>> \notin interrupted'
               PROVE  InHand(<<c, o>>)' \/ o =< lastAt'[c]
  BY DEF LastKnown
<1>2. changes = 0 /\ members = Conversations \X Users
  BY <1>1, MembersStep DEF LastInv, MembersStay
<1>3. /\ pos[c] \in Nat /\ Len(log[c]) \in Nat /\ lastAt[c] \in Nat
      /\ pos[c] =< Len(log[c]) /\ o \in Nat
  BY TypeNumbers DEF TypeOK, Numbers, OrderInv, TakenInOrder
<1>4. <<c, o>> \notin interrupted
  BY <1>1, RecordsGrow
<1>5. /\ InHand(<<c, o>>) <=>
            hand[w] # None /\ hand[w].conv = c /\ hand[w].off = o
      /\ InHand(<<c, o>>)' <=>
            hand'[w] # None /\ hand'[w].conv = c /\ hand'[w].off = o
  BY DEF InHand, Held
<1>6. CASE o \in 1 .. pos[c] /\ <<c, o>> \in stored
  <2>1. InHand(<<c, o>>) \/ o =< lastAt[c]
    BY <1>2, <1>4, <1>6 DEF LastInv, LastKnown
  <2>2. CASE Step(w)
    <3>1. StepShape(w) /\ hand[w] \in Hands /\ hand[w] # None
      BY <2>2, StepHasShape, HandAssumption DEF StepShape
    <3>2. hand[w].off \in Nat /\ hand[w].conv \in Conversations
          /\ (hand[w].conv = c => o =< hand[w].off)
      <4>1. hand[w].off \in Nat /\ hand[w].conv \in Conversations
        BY <3>1, TypeNumbers DEF Numbers
      <4>2. hand[w].conv = c => o \notin hand[w].off + 1 .. pos[c]
        BY <1>6, <3>1 DEF LastInv, HandIsLast
      <4> QED  BY <1>3, <1>6, <4>1, <4>2
    <3>3. o =< lastAt[c] => o =< lastAt'[c]
      <4>1. CASE Touch(w)
        <5>1. lastAt' = [lastAt EXCEPT ![hand[w].conv] = hand[w].off]
          BY <2>2, <4>1, StepLast
        <5>2. \/ lastAt'[c] = lastAt[c]
              \/ c = hand[w].conv /\ lastAt'[c] = hand[w].off
          BY <5>1 DEF TypeOK
        <5> QED  BY <1>3, <1>6, <3>2, <5>2
      <4> QED  BY <2>2, <4>1, StepLast
    <3>4. ASSUME hand[w].conv = c, hand[w].off = o
          PROVE  InHand(<<c, o>>)' \/ o =< lastAt'[c]
      <4>1. CASE Keeps(w)
        BY <1>5, <3>4, <4>1, HandAssumption DEF Keeps
      <4>2. CASE /\ hand[w].stage = "check"
                 /\ Sender(Held(w)) \notin Participants(hand[w].conv)
        <5>1. HandFits(w)
          BY <3>1 DEF OrderInv, HandsFit
        <5>2. /\ o \in 1 .. Len(log[c]) /\ log[c][o] # Garbled
              /\ log[c] \in Seq(Users \cup {Garbled})
          BY <1>3, <1>6, <3>4, <5>1 DEF HandFits, Sender, Held, TypeOK
        <5>3. log[c][o] \in Users
          BY <5>2
        <5>4. Sender(Held(w)) = log[c][o]
          BY <3>4 DEF Sender, Held
        <5> QED  BY <1>2, <3>4, <4>2, <5>3, <5>4 DEF Participants
      <4>3. CASE Published(w)
        <5>1. lastAt[c] = o
          BY <3>1, <3>4, <4>3 DEF Published, LastInv, HandIsLast
        <5> QED  BY <1>3, <3>3, <5>1
      <4> QED  BY <3>1, <4>1, <4>2, <4>3 DEF StepShape
    <3> QED  BY <1>5, <2>1, <3>3, <3>4
  <2>3. CASE Error(w) \/ Crash(w)
    <3>1. EndShape(w)
      BY <2>3, EndHasShape
    <3>2. ~InHand(<<c, o>>)
      BY <1>1, <1>5, <3>1 DEF EndShape, Held
    <3> QED  BY <2>1, <3>1, <3>2 DEF EndShape
  <2>4. ASSUME NEW d \in Conversations, Take(w, d)
        PROVE  InHand(<<c, o>>)' \/ o =< lastAt'[c]
    <3>1. ~InHand(<<c, o>>) /\ lastAt' = lastAt
      BY <1>5, <2>4 DEF Take, pgVars
    <3> QED  BY <2>1, <3>1
  <2>5. CASE UNCHANGED <<hand, lastAt>>
    BY <1>5, <2>1, <2>5
  <2>6. ASSUME ~(Step(w) \/ Error(w) \/ Crash(w)),
               ~\E d \in Conversations : Take(w, d)
        PROVE  UNCHANGED <<hand, lastAt>>
    BY <2>6 DEF Next, Post, ChangeMember, Assign, Revoke, AutoCommit,
                Resend, Restart, pgVars, vars
  <2> QED  BY <2>2, <2>3, <2>4, <2>5, <2>6
<1>7. CASE <<c, o>> \notin stored
  <2>1. PICK v \in Workers : Insert(v)
    BY <1>1, <1>7, RowsGrow DEF TrackDelivery
  <2>2. /\ v = w /\ <<c, o>> = Held(w) /\ hand[w] # None
        /\ Step(w)
    BY <1>1, <1>7, <2>1 DEF Insert, At, Step
  <2>3. Keeps(w)
    <3>1. At(w, "insert") /\ Proceed(w, {}) /\ {} \in SUBSET Users
      BY <2>1, <2>2 DEF Insert
    <3>2. "insert" \in Stages \ {"publish"}
      BY DEF Stages
    <3> QED  BY <3>1, <3>2, Proceeds
  <2> QED  BY <1>5, <2>2, <2>3, HandAssumption DEF Keeps, Held
<1>8. CASE o \notin 1 .. pos[c] /\ <<c, o>> \in stored
  <2>0. pos'[c] \in Nat
    <3>1. TypeOK'
      BY TypeNext
    <3> QED  BY <3>1 DEF TypeOK
  <2>1. PICK v \in Workers : TakeShape(v, c) /\ pos'[c] = pos[c] + 1
    <3>1. o \in Offsets
      BY <1>8 DEF TypeOK, Messages
    <3>2. committed[c] # 0
      BY <1>3, <1>8, <3>1 DEF LastInv, FirstRun
    <3> QED  BY <1>3, <1>8, <2>0, <3>2, OffsetMoves
  <2>2. o = pos[c] + 1 /\ v = w
    BY <1>3, <1>8, <2>1
  <2>3. log[c][o] # Garbled
    BY <1>8 DEF LastInv, StoredSound, Sender
  <2>4. hand'[w] = Taken(c) /\ hand'[w] # None
    BY <2>1, <2>2, <2>3, HandAssumption DEF TakeShape
  <2>5. hand'[w].conv = c /\ hand'[w].off = o
    BY <2>2, <2>4 DEF Taken
  <2> QED  BY <1>5, <2>4, <2>5
<1> QED  BY <1>6, <1>7, <1>8

\* With one instance, and members that stay: when nothing of a partition is
\* left to do, the conversation shows its last message, replays of earlier
\* ones after a crash notwithstanding.
THEOREM SingleInstanceSettles ==
    ASSUME NEW w, Workers = {w}
    PROVE  Spec => []LastMessageSettles
<1>1. TypeOK /\ OwnedAssigned /\ OrderInv /\ LastInv /\ [Next]_vars /\ TypeOK'
         => LastInv'
  BY MembersStep, StoredStep, HandLastStep, LastKnownStep, FirstRunStep
     DEF LastInv
<1>2. TypeOK /\ LastInv => LastMessageSettles
  <2> SUFFICES ASSUME TypeOK, LastInv, changes = 0,
                      NEW c \in Conversations, NEW o \in 1 .. Len(log[c]),
                      pos[c] = Len(log[c]),
                      \A q \in Offsets : ~InHand(<<c, q>>),
                      <<c, o>> \in stored \ interrupted
               PROVE  lastAt[c] >= o
    BY DEF LastMessageSettles
  <2>1. o \in Offsets /\ lastAt[c] \in Nat
    BY ProcessorAssumption DEF TypeOK, Offsets
  <2>2. InHand(<<c, o>>) \/ o =< lastAt[c]
    BY DEF LastInv, LastKnown
  <2> QED  BY <2>1, <2>2
<1> QED  BY <1>1, <1>2, LastInit, Order, PTL DEF Spec
=============================================================================

----------------------------- MODULE Processor -----------------------------
(***************************************************************************)
(* The messaging service (messaging/src/main.rs): instances of a           *)
(* MessageProcessor that share the Kafka group "message-processor".  Each  *)
(* takes the envelopes of the partitions it owns one at a time through     *)
(* process_message: a membership check, the ScyllaDB and PostgreSQL writes *)
(* and the publication on "processed-messages".  Any step may fail, and an *)
(* error leaves process_messages and ends the instance.                    *)
(*                                                                         *)
(* A conversation is a partition (the gateway keys envelopes by it), and a *)
(* message is a conversation and an offset in its log.  Offsets are stored *)
(* when a message is handed out and committed in the background            *)
(* (enable.auto.commit), so a commit may cover a message still in hand.    *)
(* The consumer sets no auto.offset.reset, so a partition without a commit *)
(* is read from its end, and the producer is not idempotent, so a retry    *)
(* inside one send may append its record twice.  An envelope that the      *)
(* gateway's producer repeats is one more envelope here.                   *)
(***************************************************************************)
EXTENDS Naturals, Sequences, FiniteSets

CONSTANTS
    Workers, Conversations, Users,
    Garbled,       \* a payload that does not parse
    None,
    MaxLog,        \* envelopes of a conversation
    MaxEpochs,     \* assignments of a partition
    MaxChanges,    \* bans and returns of members
    MaxResends     \* records a producer appends twice

ASSUME ProcessorAssumption ==
    /\ None \notin Workers
    /\ Garbled \notin Users
    /\ MaxLog \in Nat /\ MaxEpochs \in Nat /\ MaxChanges \in Nat
    /\ MaxResends \in Nat

Offsets == 1 .. MaxLog
Messages == Conversations \X Offsets
Stages == {"check", "insert", "touch", "fetch", "unread", "status",
           "publish"}
Hands == [conv : Conversations, off : Offsets, epoch : 1 .. MaxEpochs,
          stage : Stages, parts : SUBSET Users, todo : SUBSET Users]
Sends == Messages \X (1 .. MaxEpochs)
Announcements == [off : Offsets, epoch : 1 .. MaxEpochs,
                  parts : SUBSET Users]

ASSUME HandAssumption == None \notin Hands

VARIABLES
    \* --- Kafka: "messages" and its consumer group ---
    log,          \* envelopes of a conversation: their senders
    owner,        \* the instance a partition is assigned to
    epoch,        \* how often it was assigned
    pos,          \* where its owner has got to
    start,        \* where its owner began
    committed,    \* the committed offset, 0 before the first commit
    \* --- the instances ---
    up,           \* running instances
    hand,         \* the envelope an instance is processing
    \* --- PostgreSQL ---
    members,      \* group_members that are not banned
    changes,      \* bans and returns so far
    lastAt,       \* conversations.last_message_at, as the message it is of
    \* --- ScyllaDB ---
    stored,       \* messages
    unread,       \* rows of user_conversations that were incremented
    tracked,      \* rows of delivery_status
    \* --- Kafka: "processed-messages" ---
    published,
    \* --- history ---
    rejected,     \* messages whose sender was not a member
    interrupted,  \* messages an instance held when it ended
    skipped,      \* messages an owner began behind, with nothing committed
    resent        \* sends whose record the producer repeated

groupVars == <<owner, epoch, pos, start, committed>>
pgVars    == <<members, changes, lastAt>>
dbVars    == <<stored, unread, tracked>>
history   == <<rejected, interrupted, skipped, resent>>
vars == <<log, groupVars, up, hand, pgVars, dbVars, published, history>>

Sender(m) == log[m[1]][m[2]]
Held(w) == <<hand[w].conv, hand[w].off>>
Participants(c) == {u \in Users : <<c, u>> \in members}
At(w, stage) == hand[w] # None /\ hand[w].stage = stage

TypeOK ==
    /\ log \in [Conversations -> Seq(Users \cup {Garbled})]
    /\ \A c \in Conversations : Len(log[c]) =< MaxLog
    /\ owner \in [Conversations -> Workers \cup {None}]
    /\ epoch \in [Conversations -> 0 .. MaxEpochs]
    /\ pos \in [Conversations -> 0 .. MaxLog]
    /\ start \in [Conversations -> 0 .. MaxLog]
    /\ committed \in [Conversations -> 0 .. MaxLog]
    /\ up \in SUBSET Workers
    /\ hand \in [Workers -> Hands \cup {None}]
    /\ members \in SUBSET (Conversations \X Users)
    /\ changes \in 0 .. MaxChanges
    /\ lastAt \in [Conversations -> 0 .. MaxLog]
    /\ stored \in SUBSET Messages
    /\ unread \in SUBSET (Messages \X {"timestamp"})
    /\ tracked \in SUBSET (Messages \X Users)
    /\ published \in [Conversations -> Seq(Announcements)]
    /\ rejected \in SUBSET Messages
    /\ interrupted \in SUBSET Messages
    /\ skipped \in SUBSET Messages
    /\ resent \in SUBSET Sends

Init ==
    /\ log = [c \in Conversations |-> <<>>]
    /\ owner = [c \in Conversations |-> None]
    /\ epoch = [c \in Conversations |-> 0]
    /\ pos = [c \in Conversations |-> 0]
    /\ start = [c \in Conversations |-> 0]
    /\ committed = [c \in Conversations |-> 0]
    /\ up = Workers
    /\ hand = [w \in Workers |-> None]
    /\ members = Conversations \X Users
    /\ changes = 0
    /\ lastAt = [c \in Conversations |-> 0]
    /\ stored = {} /\ unread = {} /\ tracked = {}
    /\ published = [c \in Conversations |-> <<>>]
    /\ rejected = {} /\ interrupted = {} /\ skipped = {} /\ resent = {}

----------------------------------------------------------------------------
(* The environment: the gateways, the owner of group_members, the group    *)
(* coordinator.                                                            *)

Post(c, u) ==
    /\ Len(log[c]) < MaxLog
    /\ log' = [log EXCEPT ![c] = Append(@, u)]
    /\ UNCHANGED <<groupVars, up, hand, pgVars, dbVars, published, history>>

ChangeMember(c, u) ==
    /\ changes < MaxChanges
    /\ changes' = changes + 1
    /\ members' = IF <<c, u>> \in members THEN members \ {<<c, u>>}
                                          ELSE members \cup {<<c, u>>}
    /\ UNCHANGED <<log, groupVars, up, hand, lastAt, dbVars, published,
                   history>>

\* Slips: the end of the partition; the offset after the next one.
BugCommitEnd(c) == Len(log[c])
BugCommitNext(c) == pos[c] + 1

\* The offset stored for a partition: all that was handed out, the envelope
\* still being processed included; nothing new before the first is.
CommitPoint(c) == IF pos[c] = start[c] THEN committed[c] ELSE pos[c]

\* Where a new owner begins: at the committed offset, or at the end of a
\* partition without one (auto.offset.reset is left at its default).
Beginning(c) == IF committed[c] = 0 THEN Len(log[c]) ELSE committed[c]

\* A partition goes to an instance.
Assign(c, w) ==
    /\ owner[c] = None
    /\ w \in up
    /\ epoch[c] < MaxEpochs
    /\ owner' = [owner EXCEPT ![c] = w]
    /\ epoch' = [epoch EXCEPT ![c] = @ + 1]
    /\ pos' = [pos EXCEPT ![c] = Beginning(c)]
    /\ start' = [start EXCEPT ![c] = Beginning(c)]
    /\ skipped' = skipped \cup ({c} \X (pos[c] + 1 .. Beginning(c)))
    /\ UNCHANGED <<log, committed, up, hand, pgVars, dbVars, published,
                   rejected, interrupted, resent>>

\* The partition is taken away, by a rebalance or because its owner was too
\* long without a poll; the owner may still be at work on a message of it.
Revoke(c) ==
    /\ owner[c] # None
    /\ owner' = [owner EXCEPT ![c] = None]
    /\ \/ committed' = [committed EXCEPT ![c] = CommitPoint(c)]
       \/ UNCHANGED committed
    /\ UNCHANGED <<log, epoch, pos, start, up, hand, pgVars, dbVars,
                   published, history>>

AutoCommit(c) ==
    /\ owner[c] # None
    /\ committed[c] # CommitPoint(c)
    /\ committed' = [committed EXCEPT ![c] = CommitPoint(c)]
    /\ UNCHANGED <<log, owner, epoch, pos, start, up, hand, pgVars, dbVars,
                   published, history>>

----------------------------------------------------------------------------
(* process_messages.                                                       *)

\* recv hands out the next envelope; one that does not parse is passed over.
Take(w, c) ==
    /\ w \in up /\ hand[w] = None
    /\ owner[c] = w
    /\ pos[c] < Len(log[c])
    /\ pos' = [pos EXCEPT ![c] = @ + 1]
    /\ IF log[c][pos[c] + 1] = Garbled
         THEN UNCHANGED hand
         ELSE hand' = [hand EXCEPT ![w] =
                [conv |-> c, off |-> pos[c] + 1, epoch |-> epoch[c],
                 stage |-> "check", parts |-> {}, todo |-> {}]]
    /\ UNCHANGED <<log, owner, epoch, start, committed, up, pgVars, dbVars,
                   published, history>>

----------------------------------------------------------------------------
(* process_message, one database or Kafka call at a time.                  *)

\* Slip: the message is published before its delivery records are made.
BugPublishEarly(stage) ==
    [check |-> "insert", insert |-> "touch", touch |-> "fetch",
     fetch |-> "unread", unread |-> "publish", status |-> "publish"][stage]

Follows(stage) ==
    [check |-> "insert", insert |-> "touch", touch |-> "fetch",
     fetch |-> "unread", unread |-> "status", status |-> "publish"][stage]

Proceed(w, todo) ==
    hand' = [hand EXCEPT ![w].stage = Follows(hand[w].stage),
                         ![w].todo = todo]
Finish(w) == hand' = [hand EXCEPT ![w] = None]

\* Slip: a message of a member that is banned is kept for later.
BugCheckWaits(w) ==
    /\ At(w, "check")
    /\ Sender(Held(w)) \in Participants(hand[w].conv)
    /\ Proceed(w, {})
    /\ UNCHANGED <<log, groupVars, up, pgVars, dbVars, published, history>>

Check(w) ==
    /\ At(w, "check")
    /\ IF Sender(Held(w)) \in Participants(hand[w].conv)
         THEN Proceed(w, {}) /\ UNCHANGED rejected
         ELSE Finish(w) /\ rejected' = rejected \cup {Held(w)}
    /\ UNCHANGED <<log, groupVars, up, pgVars, dbVars, published,
                   interrupted, skipped, resent>>

\* An INSERT of CQL replaces the row of a message that is there already.
Insert(w) ==
    /\ At(w, "insert")
    /\ stored' = stored \cup {Held(w)}
    /\ Proceed(w, {})
    /\ UNCHANGED <<log, groupVars, up, pgVars, unread, tracked, published,
                   history>>

\* Slip: only a conversation without a last message gets one.
BugTouchOnce(w) ==
    /\ At(w, "touch")
    /\ IF lastAt[hand[w].conv] = 0
         THEN lastAt' = [lastAt EXCEPT ![hand[w].conv] = hand[w].off]
         ELSE UNCHANGED lastAt
    /\ Proceed(w, {})
    /\ UNCHANGED <<log, groupVars, up, members, changes, dbVars, published,
                   history>>

Touch(w) ==
    /\ At(w, "touch")
    /\ lastAt' = [lastAt EXCEPT ![hand[w].conv] = hand[w].off]
    /\ Proceed(w, {})
    /\ UNCHANGED <<log, groupVars, up, members, changes, dbVars, published,
                   history>>

\* get_conversation_participants, a second look at the members.
Fetch(w) ==
    LET parts == Participants(hand[w].conv)
    IN  /\ At(w, "fetch")
        /\ hand' = [hand EXCEPT ![w].stage = Follows(hand[w].stage),
                                ![w].parts = parts,
                                ![w].todo = parts \ {Sender(Held(w))}]
        /\ UNCHANGED <<log, groupVars, up, pgVars, dbVars, published,
                       history>>

\* The row the statement names.  Its markers are last_message_id,
\* last_message_at, user_id, conversation_id and the values bound to them are
\* the participant, the conversation, the message and the timestamp.  The
\* schema is not in the repository; a schema that refuses the types makes the
\* call an Error.
UnreadRow(m, u) == <<m, "timestamp">>

BumpUnread(w) ==
    /\ At(w, "unread")
    /\ \/ \E u \in hand[w].todo :
             /\ unread' = unread \cup {UnreadRow(Held(w), u)}
             /\ hand' = [hand EXCEPT ![w].todo = @ \ {u}]
       \/ /\ hand[w].todo = {}
          /\ Proceed(w, hand[w].parts)
          /\ UNCHANGED unread
    /\ UNCHANGED <<log, groupVars, up, pgVars, stored, tracked, published,
                   history>>

\* create_delivery_status.
TrackDelivery(w) ==
    /\ At(w, "status")
    /\ \/ \E u \in hand[w].todo :
             /\ tracked' = tracked \cup {<<Held(w), u>>}
             /\ hand' = [hand EXCEPT ![w].todo = @ \ {u}]
       \/ /\ hand[w].todo = {}
          /\ Proceed(w, {})
          /\ UNCHANGED tracked
    /\ UNCHANGED <<log, groupVars, up, pgVars, stored, unread, published,
                   history>>

Publication(w) ==
    published' = [published EXCEPT ![hand[w].conv] =
        Append(@, [off |-> hand[w].off, epoch |-> hand[w].epoch,
                   parts |-> hand[w].parts])]

\* Slip: the service sends what it published once more.
BugPublishAgain(w) ==
    /\ At(w, "publish")
    /\ Publication(w)
    /\ Finish(w) \/ UNCHANGED hand
    /\ UNCHANGED <<log, groupVars, up, pgVars, dbVars, history>>

\* Inside the send of publish_processed_message, before it is acknowledged:
\* the producer retries, and the record of the first try is there as well.
Resend(w) ==
    LET send == <<Held(w), hand[w].epoch>> IN
    /\ At(w, "publish")
    /\ send \notin resent /\ Cardinality(resent) < MaxResends
    /\ Publication(w)
    /\ resent' = resent \cup {send}
    /\ UNCHANGED <<log, groupVars, up, hand, pgVars, dbVars, rejected,
                   interrupted, skipped>>

\* publish_processed_message; its send is acknowledged.
Publish(w) ==
    /\ At(w, "publish")
    /\ Publication(w)
    /\ Finish(w)
    /\ UNCHANGED <<log, groupVars, up, pgVars, dbVars, history>>

----------------------------------------------------------------------------
(* The end of an instance.                                                 *)

Stop(w) ==
    /\ up' = up \ {w}
    /\ hand' = [hand EXCEPT ![w] = None]
    /\ interrupted' = IF hand[w] = None THEN interrupted
                                        ELSE interrupted \cup {Held(w)}
    /\ owner' = [c \in Conversations |-> IF owner[c] = w THEN None
                                                         ELSE owner[c]]
    /\ UNCHANGED <<log, epoch, pos, start, pgVars, dbVars, rejected,
                   skipped, resent>>

\* A call returns an error: process_messages returns, main returns, and the
\* consumer is dropped, which commits the offsets it has stored.  A send that
\* reports a timeout may have reached the broker.
Error(w) ==
    /\ hand[w] # None
    /\ Stop(w)
    /\ committed' = [c \in Conversations |-> IF owner[c] = w
                                                THEN CommitPoint(c)
                                                ELSE committed[c]]
    /\ \/ At(w, "publish") /\ Publication(w)
       \/ UNCHANGED published

\* The instance dies; nothing more is committed.
Crash(w) ==
    /\ w \in up
    /\ Stop(w)
    /\ UNCHANGED <<committed, published>>

\* Whatever runs the service starts it again.
Restart(w) ==
    /\ w \notin up
    /\ up' = up \cup {w}
    /\ UNCHANGED <<log, groupVars, hand, pgVars, dbVars, published, history>>

----------------------------------------------------------------------------
Step(w) ==
    \/ Check(w) \/ Insert(w) \/ Touch(w) \/ Fetch(w)
    \/ BumpUnread(w) \/ TrackDelivery(w) \/ Publish(w)

Next ==
    \/ \E c \in Conversations :
          \/ \E u \in Users \cup {Garbled} : Post(c, u)
          \/ \E u \in Users : ChangeMember(c, u)
          \/ \E w \in Workers : Assign(c, w) \/ Take(w, c)
          \/ Revoke(c)
          \/ AutoCommit(c)
    \/ \E w \in Workers :
          Step(w) \/ Resend(w) \/ Error(w) \/ Crash(w) \/ Restart(w)

Spec == Init /\ [][Next]_vars

\* An instance that runs keeps taking and processing, and the coordinator
\* assigns a free partition.  Nothing promises that a dead one is restarted.
Fairness ==
    /\ \A w \in Workers : WF_vars(Step(w))
    /\ \A w \in Workers, c \in Conversations : WF_vars(Take(w, c))
    /\ \A c \in Conversations : WF_vars(\E w \in Workers : Assign(c, w))

FairSpec == Spec /\ Fairness
=============================================================================

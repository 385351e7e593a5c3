------------------------------ MODULE Gateway ------------------------------
(***************************************************************************)
(* The WebSocket gateway (gateway/src/main.rs): one process that keeps the *)
(* open sockets in a sharded map, DashMap<user, Vec<Connection>>, and runs *)
(* for each socket a handler, a send task and a receive task, beside one   *)
(* sweep task (stale connections) and one Kafka consumer task (fan-out).   *)
(*                                                                         *)
(* A socket is a member of Sockets; it is used for one connection.  Time   *)
(* advances in ticks of 30 seconds, the period of the sweep.  A shard of   *)
(* the map is visited atomically, since an iteration holds the lock of the *)
(* shard it is in; different shards are visited in different steps.        *)
(***************************************************************************)
EXTENDS Naturals, Sequences, FiniteSets

CONSTANTS
    Users, Devices, Sockets,
    UserOf,        \* the user a socket's token names (claims.sub)
    DeviceOf,      \* the device_id of the socket's query string
    NumShards,     \* shards of the DashMap
    ShardOf,       \* the shard a user's entry is hashed to
    Timeout,       \* ticks without a heartbeat before an entry is stale
    PresenceTTL,   \* ticks a presence key lives after it was written
    Statuses,      \* what a Presence frame may carry
    Kinds,         \* the kinds of frames the clients send
    RedisMayFail,  \* whether a presence write may be lost
    None, Consumer,
    MaxTime, MaxTopic, MaxFrames   \* bounds of the exploration

ASSUME ShardAssumption ==
    /\ NumShards \in Nat \ {0}
    /\ ShardOf \in [Users -> 1 .. NumShards]

ASSUME SocketAssumption ==
    /\ UserOf \in [Sockets -> Users]
    /\ DeviceOf \in [Sockets -> Devices]
    /\ Consumer \notin Sockets
    /\ None \notin Sockets

ASSUME BoundAssumption ==
    /\ Timeout \in Nat \ {0}
    /\ PresenceTTL \in Nat \ {0}
    /\ RedisMayFail \in BOOLEAN
    /\ {"online", "offline"} \subseteq Statuses
    /\ MaxTime \in Nat /\ MaxTopic \in Nat /\ MaxFrames \in Nat

Shards == 1 .. NumShards
Broadcasters == Sockets \cup {Consumer}
Items == [kind : {"message", "typing"}, from : Users, seq : Nat]

VARIABLES
    now,         \* the clock, in ticks
    \* --- one socket ---
    pc,          \* the handler, handle_socket
    sender,      \* its send task
    receiver,    \* its receive task
    open,        \* the client is still there
    queue,       \* the unbounded channel to the send task
    out,         \* history: what the client was sent
    joined,      \* history: how many messages had been fanned when it joined
    frames,      \* frames the receive tasks have handled
    late,        \* history: sockets that wrote a presence after departing
    heard,       \* history: when a socket's last heartbeat was handled
    \* --- the connection map ---
    registered,  \* the sockets that have an entry
    beat,        \* last_heartbeat of an entry
    ahead,       \* the entries of its user pushed before it
    lock,        \* a shard's lock, when a handler blocks holding it
    \* --- shared tasks and stores ---
    presence,    \* Redis: the key presence:{user}
    written,     \* when it was last written
    unsaid,      \* history: users whose last presence write was lost
    sweep,       \* the sweep task: next shard (0: idle), its "now", next run
    bcast,       \* broadcasts under way: next shard (0: idle) and the item
    topic,       \* Kafka: processed-messages, the senders in order
    fanned,      \* messages of it the consumer has taken
    forwarded,   \* Kafka: envelopes a socket has put on "messages"
    receipts     \* Kafka: receipts a socket has put on "read-receipts"

taskVars  == <<pc, sender, receiver>>
chanVars  == <<queue, out, joined>>
inVars    == <<frames, late, heard>>
mapVars   == <<registered, beat, ahead, lock>>
kafkaVars == <<topic, fanned, forwarded, receipts>>
redisVars == <<presence, written, unsaid>>
vars == <<now, taskVars, open, chanVars, inVars, mapVars, redisVars, sweep,
          bcast, kafkaVars>>

Idle == [shard |-> 0, item |-> None]

Shard(s) == ShardOf[UserOf[s]]

Free(sh) == lock[sh] = None

\* The Vec<Connection> of a user, and the part of it a device owns.
Entry(u) == {s \in registered : UserOf[s] = u}
\* Slip: the handler keeps its own connection and drops the others.
BugOthersOfDevice(s) ==
    {r \in Entry(UserOf[s]) : DeviceOf[r] = DeviceOf[s] /\ r # s}

SameDevice(s) == {r \in Entry(UserOf[s]) : DeviceOf[r] = DeviceOf[s]}

----------------------------------------------------------------------------
TypeOK ==
    /\ now \in 0 .. MaxTime
    /\ pc \in [Sockets ->
                 {"new", "announce", "serving", "depart", "stuck", "done"}]
    /\ sender \in [Sockets -> {"none", "running", "done"}]
    /\ receiver \in [Sockets -> {"none", "running", "done"}]
    /\ open \in [Sockets -> BOOLEAN]
    /\ queue \in [Sockets -> Seq(Items)]
    /\ out \in [Sockets -> Seq(Items)]
    /\ joined \in [Sockets -> Nat]
    /\ frames \in 0 .. MaxFrames
    /\ late \in SUBSET Sockets
    /\ heard \in [Sockets -> 0 .. MaxTime]
    /\ registered \in SUBSET Sockets
    /\ beat \in [Sockets -> 0 .. MaxTime]
    /\ ahead \in [Sockets -> SUBSET Sockets]
    /\ lock \in [Shards -> Sockets \cup {None}]
    /\ presence \in [Users -> Statuses \cup {None}]
    /\ written \in [Users -> 0 .. MaxTime]
    /\ unsaid \in SUBSET Users
    /\ sweep \in [shard : 0 .. NumShards, at : 0 .. MaxTime, next : Nat]
    /\ bcast \in [Broadcasters ->
                    {Idle} \cup [shard : Shards, item : Items]]
    /\ topic \in Seq(Users)
    /\ fanned \in 0 .. Len(topic)
    /\ forwarded \in [Sockets -> Nat]
    /\ receipts \in [Sockets -> Nat]

Init ==
    /\ now = 0
    /\ pc = [s \in Sockets |-> "new"]
    /\ sender = [s \in Sockets |-> "none"]
    /\ receiver = [s \in Sockets |-> "none"]
    /\ open = [s \in Sockets |-> FALSE]
    /\ queue = [s \in Sockets |-> <<>>]
    /\ out = [s \in Sockets |-> <<>>]
    /\ joined = [s \in Sockets |-> 0]
    /\ frames = 0
    /\ late = {}
    /\ heard = [s \in Sockets |-> 0]
    /\ registered = {}
    /\ beat = [s \in Sockets |-> 0]
    /\ ahead = [s \in Sockets |-> {}]
    /\ lock = [sh \in Shards |-> None]
    /\ presence = [u \in Users |-> None]
    /\ written = [u \in Users |-> 0]
    /\ unsaid = {}
    /\ sweep = [shard |-> 0, at |-> 0, next |-> 0]
    /\ bcast = [b \in Broadcasters |-> Idle]
    /\ topic = <<>>
    /\ fanned = 0
    /\ forwarded = [s \in Sockets |-> 0]
    /\ receipts = [s \in Sockets |-> 0]

----------------------------------------------------------------------------
(* The environment: the clock, the messaging service, the clients, Redis.  *)

Tick ==
    /\ now < MaxTime
    /\ now' = now + 1
    /\ UNCHANGED <<taskVars, open, chanVars, inVars, mapVars, redisVars, sweep,
                   bcast, kafkaVars>>

\* The messaging service publishes a message of u, connected here or not.
Feed(u) ==
    /\ Len(topic) < MaxTopic
    /\ topic' = Append(topic, u)
    /\ UNCHANGED <<now, taskVars, open, chanVars, inVars, mapVars, redisVars,
                   sweep, bcast, fanned, forwarded, receipts>>

\* The client goes away; the gateway has not noticed yet.
ClientClose(s) ==
    /\ open[s]
    /\ open' = [open EXCEPT ![s] = FALSE]
    /\ UNCHANGED <<now, taskVars, chanVars, inVars, mapVars, redisVars, sweep,
                   bcast, kafkaVars>>

\* The lifetime of a presence key runs out.  Every write renews it, and a
\* heartbeat does not, so it may run out under a live connection.
PresenceExpires(u) ==
    /\ presence[u] # None
    /\ written[u] + PresenceTTL =< now
    /\ UNCHANGED <<written, unsaid>>
    /\ presence' = [presence EXCEPT ![u] = None]
    /\ UNCHANGED <<now, taskVars, open, chanVars, inVars, mapVars, sweep,
                   bcast, kafkaVars>>

----------------------------------------------------------------------------
(* handle_socket.                                                          *)

\* update_presence: a failed connection or SET is logged or ignored.
WritePresence(s, status) ==
    \/ /\ presence' = [presence EXCEPT ![UserOf[s]] = status]
       /\ written' = [written EXCEPT ![UserOf[s]] = now]
       /\ unsaid' = unsaid \ {UserOf[s]}
    \/ /\ RedisMayFail
       /\ unsaid' = unsaid \cup {UserOf[s]}
       /\ UNCHANGED <<presence, written>>

\* The upgrade succeeds and the connection is pushed on the user's entry.
Connect(s) ==
    /\ pc[s] = "new"
    /\ Free(Shard(s))
    /\ pc' = [pc EXCEPT ![s] = "announce"]
    /\ open' = [open EXCEPT ![s] = TRUE]
    /\ registered' = registered \cup {s}
    /\ beat' = [beat EXCEPT ![s] = now]
    /\ ahead' = [ahead EXCEPT ![s] = Entry(UserOf[s])]
    /\ joined' = [joined EXCEPT ![s] = fanned]
    /\ UNCHANGED <<now, sender, receiver, queue, out, inVars, lock, redisVars,
                   sweep, bcast, kafkaVars>>

\* The presence write is awaited, then the two tasks are spawned.
Announce(s) ==
    /\ pc[s] = "announce"
    /\ WritePresence(s, "online")
    /\ pc' = [pc EXCEPT ![s] = "serving"]
    /\ sender' = [sender EXCEPT ![s] = "running"]
    /\ receiver' = [receiver EXCEPT ![s] = "running"]
    /\ UNCHANGED <<now, open, chanVars, inVars, mapVars, sweep, bcast,
                   kafkaVars>>

\* Slip: the entry is removed whether or not something is left in it.
BugEmptied(s) == Entry(UserOf[s]) # {}

\* The entry was there and retain left nothing in it.
Emptied(s) ==
    Entry(UserOf[s]) # {} /\ Entry(UserOf[s]) \ SameDevice(s) = {}

\* select! returns when one task has ended and detaches the other.  The
\* handler then drops every connection of its device.  When that empties an
\* entry that was there, it calls remove while its RefMut still holds the
\* shard's lock: it blocks on itself, and the shard is locked from then on.
Disconnect(s) ==
    /\ pc[s] = "serving"
    /\ sender[s] = "done" \/ receiver[s] = "done"
    /\ Free(Shard(s))
    /\ registered' = registered \ SameDevice(s)
    /\ \/ /\ Emptied(s)
          /\ pc' = [pc EXCEPT ![s] = "stuck"]
          /\ lock' = [lock EXCEPT ![Shard(s)] = s]
       \/ /\ ~Emptied(s)
          /\ pc' = [pc EXCEPT ![s] = "depart"]
          /\ UNCHANGED lock
    /\ UNCHANGED <<now, sender, receiver, open, chanVars, inVars, beat, ahead,
                   redisVars, sweep, bcast, kafkaVars>>

\* Slip: nothing to announce when the sweep has already removed the entry.
BugDepartSilently(s) ==
    /\ pc[s] = "depart"
    /\ IF Entry(UserOf[s]) = {} THEN UNCHANGED redisVars
                               ELSE WritePresence(s, "offline")
    /\ pc' = [pc EXCEPT ![s] = "done"]
    /\ UNCHANGED <<now, sender, receiver, open, chanVars, inVars, mapVars,
                   sweep, bcast, kafkaVars>>

Depart(s) ==
    /\ pc[s] = "depart"
    /\ WritePresence(s, "offline")
    /\ pc' = [pc EXCEPT ![s] = "done"]
    /\ UNCHANGED <<now, sender, receiver, open, chanVars, inVars, mapVars,
                   sweep, bcast, kafkaVars>>

----------------------------------------------------------------------------
(* send_messages.                                                          *)

\* A send to a client that is gone is lost, or fails and ends the task; the
\* channel is dropped with the task.
SendNext(s) ==
    /\ sender[s] = "running"
    /\ queue[s] # <<>>
    /\ \/ /\ open[s]
          /\ out' = [out EXCEPT ![s] = Append(@, Head(queue[s]))]
          /\ queue' = [queue EXCEPT ![s] = Tail(@)]
          /\ UNCHANGED sender
       \/ /\ ~open[s]
          /\ queue' = [queue EXCEPT ![s] = Tail(@)]
          /\ UNCHANGED <<out, sender>>
       \/ /\ ~open[s]
          /\ sender' = [sender EXCEPT ![s] = "done"]
          /\ queue' = [queue EXCEPT ![s] = <<>>]
          /\ UNCHANGED out
    /\ UNCHANGED <<now, pc, receiver, open, joined, inVars, mapVars, redisVars,
                   sweep, bcast, kafkaVars>>

\* recv returns None: the channel is drained and its only sender, the one in
\* the connection's entry, was dropped with the entry.
SenderEnds(s) ==
    /\ sender[s] = "running"
    /\ queue[s] = <<>>
    /\ s \notin registered
    /\ sender' = [sender EXCEPT ![s] = "done"]
    /\ UNCHANGED <<now, pc, receiver, open, chanVars, inVars, mapVars,
                   redisVars, sweep, bcast, kafkaVars>>

----------------------------------------------------------------------------
(* receive_messages: one frame at a time.  The task does not look at its   *)
(* handler, so it goes on when the handler has already finished.           *)

Receiving(s, kind) ==
    /\ kind \in Kinds
    /\ receiver[s] = "running"
    /\ bcast[s] = Idle
    /\ frames < MaxFrames
    /\ frames' = frames + 1
    /\ UNCHANGED <<now, taskVars, open, chanVars, sweep, topic, fanned>>

\* Slip: the search goes from the end of the Vec.
BugFound(s) ==
    {r \in SameDevice(s) : SameDevice(s) \subseteq ahead[r] \cup {r}}

\* What the search in the Vec finds: the oldest connection of the device.
Found(s) == {r \in SameDevice(s) : ahead[r] \cap SameDevice(s) = {}}

\* The first entry of the device is refreshed, whichever socket it is of.
RecvHeartbeat(s) ==
    /\ Receiving(s, "heartbeat")
    /\ Free(Shard(s))
    /\ heard' = [heard EXCEPT ![s] = now]
    /\ \/ SameDevice(s) = {} /\ UNCHANGED beat
       \/ \E r \in Found(s) : beat' = [beat EXCEPT ![r] = now]
    /\ UNCHANGED <<late, registered, ahead, lock, redisVars, bcast,
                   forwarded, receipts>>

\* forward_to_kafka; a send that fails is logged and the frame is gone.
RecvMessage(s) ==
    /\ Receiving(s, "message")
    /\ \/ forwarded' = [forwarded EXCEPT ![s] = @ + 1]
       \/ UNCHANGED forwarded
    /\ UNCHANGED <<late, heard, mapVars, redisVars, bcast, receipts>>

RecvReceipt(s) ==
    /\ Receiving(s, "receipt")
    /\ \/ receipts' = [receipts EXCEPT ![s] = @ + 1]
       \/ UNCHANGED receipts
    /\ UNCHANGED <<late, heard, mapVars, redisVars, bcast, forwarded>>

RecvPresence(s) ==
    /\ Receiving(s, "presence")
    /\ \E status \in Statuses : WritePresence(s, status)
    /\ late' = IF pc[s] = "done" THEN late \cup {s} ELSE late
    /\ UNCHANGED <<heard, mapVars, bcast, forwarded, receipts>>

RecvTyping(s) ==
    /\ Receiving(s, "typing")
    /\ bcast' = [bcast EXCEPT ![s] =
          [shard |-> 1,
           item |-> [kind |-> "typing", from |-> UserOf[s], seq |-> 0]]]
    /\ UNCHANGED <<late, heard, mapVars, redisVars, forwarded, receipts>>

\* A Close frame, an error or the end of the stream.
RecvClose(s) ==
    /\ receiver[s] = "running"
    /\ bcast[s] = Idle
    /\ ~open[s]
    /\ receiver' = [receiver EXCEPT ![s] = "done"]
    /\ UNCHANGED <<now, pc, sender, open, chanVars, inVars, mapVars, redisVars,
                   sweep, bcast, kafkaVars>>

----------------------------------------------------------------------------
(* start_kafka_consumer, broadcast_message, broadcast_typing.              *)

FanStart ==
    /\ bcast[Consumer] = Idle
    /\ fanned < Len(topic)
    /\ fanned' = fanned + 1
    /\ bcast' = [bcast EXCEPT ![Consumer] =
          [shard |-> 1,
           item |-> [kind |-> "message", from |-> topic[fanned + 1],
                     seq |-> fanned + 1]]]
    /\ UNCHANGED <<now, taskVars, open, chanVars, inVars, mapVars, redisVars,
                   sweep, topic, forwarded, receipts>>

\* Slips: the sender's own devices too; only sockets whose tasks are spawned.
BugEchoes(sh, u) == {s \in registered : Shard(s) = sh /\ sender[s] # "done"}
BugServedOnly(sh, u) ==
    {s \in registered : /\ Shard(s) = sh /\ UserOf[s] # u
                        /\ sender[s] = "running"}

\* The entries of shard sh that a broadcast from u reaches; the send to a
\* channel whose task has ended is an error nobody looks at.
Reached(sh, u) ==
    {s \in registered : Shard(s) = sh /\ UserOf[s] # u /\ sender[s] # "done"}

\* Slips: one shard too many; the iteration starts over.
BugNoLastShard(sh) == IF sh > NumShards THEN 0 ELSE sh + 1
BugShardAgain(sh) == IF sh = NumShards THEN 1 ELSE sh + 1

\* What follows a shard in the order of the iteration.
NextShard(sh) == IF sh = NumShards THEN 0 ELSE sh + 1

\* Slips: a locked shard is walked through; a shard is kept until all its
\* clients have been sent to, so that one that does not read holds it.
BugVisitsLocked(sh) == sh \in Shards
BugWaitsForClients(sh) ==
    lock[sh] = None /\ \A s \in registered : Shard(s) = sh => open[s]

\* iter takes the lock of the shard it comes to, and the loop body does not
\* wait: the channels are unbounded.
Visitable(sh) == Free(sh)

Visit(b) ==
    LET sh == bcast[b].shard
        it == bcast[b].item
    IN  /\ bcast[b] # Idle
        /\ Visitable(sh)
        /\ queue' = [s \in Sockets |-> IF s \in Reached(sh, it.from)
                                         THEN Append(queue[s], it)
                                         ELSE queue[s]]
        /\ bcast' = [bcast EXCEPT ![b] =
              IF NextShard(sh) = 0 THEN Idle
                                   ELSE [shard |-> NextShard(sh), item |-> it]]
        /\ UNCHANGED <<now, taskVars, open, out, joined, inVars, mapVars,
                       redisVars, sweep, kafkaVars>>

----------------------------------------------------------------------------
(* cleanup_stale_connections, every tick.                                  *)

SweepStart ==
    /\ sweep.shard = 0
    /\ sweep.next =< now
    /\ sweep' = [shard |-> 1, at |-> now, next |-> now + 1]
    /\ UNCHANGED <<now, taskVars, open, chanVars, inVars, mapVars, redisVars,
                   bcast, kafkaVars>>

\* Slips: off by one, either way.
BugStaleEarly(s, at) == beat[s] + Timeout =< at + 1
BugStaleLate(s, at) == beat[s] + Timeout < at

\* duration_since saturates: an entry refreshed after the sweep read the
\* clock has age zero.
Stale(s, at) == beat[s] + Timeout =< at

SweepShard ==
    /\ sweep.shard # 0
    /\ Free(sweep.shard)
    /\ registered' = {s \in registered :
                        Shard(s) = sweep.shard => ~Stale(s, sweep.at)}
    /\ sweep' = [shard |-> NextShard(sweep.shard), at |-> sweep.at,
                  next |-> sweep.next]
    /\ UNCHANGED <<now, taskVars, open, chanVars, inVars, beat, ahead,
                   lock, redisVars, bcast, kafkaVars>>

----------------------------------------------------------------------------
Handler(s) == Connect(s) \/ Announce(s) \/ Disconnect(s) \/ Depart(s)
SendTask(s) == SendNext(s) \/ SenderEnds(s)
ReceiveTask(s) ==
    \/ RecvHeartbeat(s) \/ RecvMessage(s) \/ RecvReceipt(s)
    \/ RecvPresence(s) \/ RecvTyping(s) \/ RecvClose(s)

Next ==
    \/ Tick
    \/ \E u \in Users : Feed(u) \/ PresenceExpires(u)
    \/ \E s \in Sockets :
          ClientClose(s) \/ Handler(s) \/ SendTask(s) \/ ReceiveTask(s)
    \/ FanStart
    \/ \E b \in Broadcasters : Visit(b)
    \/ SweepStart
    \/ SweepShard

Spec == Init /\ [][Next]_vars

Wedged == \E sh \in Shards : lock[sh] # None

\* What the runtime keeps running, until a shard is wedged: the locks of the
\* map block threads, so each task that comes to that shard takes a worker
\* thread along, and in the end no task need run.  Clients owe nothing, and a
\* peer that vanished without closing need not ever be noticed by the receive
\* task.
Fairness ==
    /\ \A s \in Sockets :
          /\ WF_vars(~Wedged /\ Announce(s))
          /\ WF_vars(~Wedged /\ Disconnect(s))
          /\ WF_vars(~Wedged /\ Depart(s))
          /\ WF_vars(~Wedged /\ SendTask(s))
    /\ WF_vars(~Wedged /\ FanStart)
    /\ \A b \in Broadcasters : WF_vars(~Wedged /\ Visit(b))
    /\ WF_vars(~Wedged /\ SweepStart) /\ WF_vars(~Wedged /\ SweepShard)

FairSpec == Spec /\ Fairness
=============================================================================

--------------------------- MODULE GatewayProofs ---------------------------
(* Theorems about the gateway, for any users, devices, sockets and shards. *)
EXTENDS GatewayProperties, TLAPS

\* The state of a socket, of the map and of the shared parts after each kind
\* of step is of the declared type.
LEMMA TypeInit == Init => TypeOK
BY ShardAssumption, SocketAssumption, BoundAssumption
   DEF Init, TypeOK, Shards, Broadcasters, Idle

\* A presence write leaves the variables of Redis typed.
LEMMA WriteTyped ==
  ASSUME TypeOK, NEW s \in Sockets, NEW status \in Statuses,
         WritePresence(s, status)
  PROVE  /\ presence' \in [Users -> Statuses \cup {None}]
         /\ written' \in [Users -> 0 .. MaxTime]
         /\ unsaid' \in SUBSET Users
<1>0. UserOf[s] \in Users
  BY SocketAssumption
<1>1. CASE /\ presence' = [presence EXCEPT ![UserOf[s]] = status]
           /\ written' = [written EXCEPT ![UserOf[s]] = now]
           /\ unsaid' = unsaid \ {UserOf[s]}
  BY <1>1 DEF TypeOK
<1>2. CASE /\ unsaid' = unsaid \cup {UserOf[s]}
           /\ UNCHANGED <<presence, written>>
  BY <1>0, <1>2 DEF TypeOK
<1>3. QED BY <1>1, <1>2, Zenon DEF WritePresence

\* A function of the sockets that is updated at one of them.
LEMMA Updated ==
  ASSUME NEW T, NEW f \in [Sockets -> T], NEW s \in Sockets, NEW v \in T
  PROVE  [f EXCEPT ![s] = v] \in [Sockets -> T]
OBVIOUS

LEMMA TypeNext == TypeOK /\ [Next]_vars => TypeOK'
<1> USE ShardAssumption, SocketAssumption, BoundAssumption
<1> SUFFICES ASSUME TypeOK, [Next]_vars PROVE TypeOK'
  OBVIOUS
<1> USE DEF TypeOK
<1>1. CASE Tick
  <2>1. now' \in 0 .. MaxTime
    BY <1>1 DEF Tick
  <2>2. UNCHANGED <<pc, sender, receiver, open, queue, out, joined, frames,
                    late, heard, registered, beat, ahead, lock>>
    BY <1>1 DEF Tick, taskVars, chanVars, inVars, mapVars
  <2>3. UNCHANGED <<presence, written, unsaid, sweep, bcast, topic, fanned,
                    forwarded, receipts>>
    BY <1>1 DEF Tick, redisVars, kafkaVars
  <2>4. QED BY <2>1, <2>2, <2>3
<1>2. ASSUME NEW u \in Users, Feed(u) PROVE TypeOK'
  BY SMTT(30), <1>2 DEF Feed, taskVars, chanVars, inVars, mapVars, redisVars
<1>3. ASSUME NEW u \in Users, PresenceExpires(u) PROVE TypeOK'
  BY <1>3 DEF PresenceExpires, taskVars, chanVars, inVars, mapVars, kafkaVars
<1>4. ASSUME NEW s \in Sockets, ClientClose(s) PROVE TypeOK'
  BY <1>4 DEF ClientClose, taskVars, chanVars, inVars, mapVars, redisVars,
              kafkaVars
<1>5. ASSUME NEW s \in Sockets, Handler(s) PROVE TypeOK'
  <2>0. "online" \in Statuses /\ "offline" \in Statuses
    OBVIOUS
  <2>1. CASE Connect(s)
    <3>1. Entry(UserOf[s]) \in SUBSET Sockets
      BY DEF Entry
    <3>2. ahead' \in [Sockets -> SUBSET Sockets]
      BY <2>1, <3>1 DEF Connect
    <3>3. registered' \in SUBSET Sockets
      BY <2>1 DEF Connect
    <3>4. beat' \in [Sockets -> 0 .. MaxTime] /\ joined' \in [Sockets -> Nat]
      BY <2>1 DEF Connect
    <3>5. /\ pc' = [pc EXCEPT ![s] = "announce"]
          /\ open' = [open EXCEPT ![s] = TRUE]
          /\ UNCHANGED <<now, sender, receiver, queue, out, inVars, lock,
                         redisVars, sweep, bcast, kafkaVars>>
      BY <2>1 DEF Connect
    <3>6. /\ pc' \in [Sockets ->
                         {"new", "announce", "serving", "depart", "stuck",
                          "done"}]
          /\ open' \in [Sockets -> BOOLEAN]
      BY <3>5
    <3>7. QED
      BY <3>2, <3>3, <3>4, <3>5, <3>6 DEF kafkaVars, redisVars, inVars
  <2>2. CASE Announce(s)
    <3>1. WritePresence(s, "online")
      BY <2>2 DEF Announce
    <3>2. /\ presence' \in [Users -> Statuses \cup {None}]
          /\ written' \in [Users -> 0 .. MaxTime]
          /\ unsaid' \in SUBSET Users
      BY <2>0, <3>1, WriteTyped
    <3>3. /\ pc' = [pc EXCEPT ![s] = "serving"]
          /\ sender' = [sender EXCEPT ![s] = "running"]
          /\ receiver' = [receiver EXCEPT ![s] = "running"]
          /\ UNCHANGED <<now, open, chanVars, inVars, mapVars, sweep, bcast,
                         kafkaVars>>
      BY <2>2 DEF Announce
    <3>4. QED
      BY <3>2, <3>3 DEF chanVars, inVars, mapVars, kafkaVars
  <2>3. CASE Disconnect(s)
    <3>1. Shard(s) \in Shards
      BY DEF Shard, Shards
    <3>2. /\ registered' = registered \ SameDevice(s)
          /\ \/ /\ pc' = [pc EXCEPT ![s] = "stuck"]
                /\ lock' = [lock EXCEPT ![Shard(s)] = s]
             \/ /\ pc' = [pc EXCEPT ![s] = "depart"]
                /\ lock' = lock
      BY <2>3, Zenon DEF Disconnect
    <3>3. UNCHANGED <<now, sender, receiver, open, chanVars, inVars, beat,
                      ahead, redisVars, sweep, bcast, kafkaVars>>
      BY <2>3 DEF Disconnect
    <3>4. /\ lock' \in [Shards -> Sockets \cup {None}]
          /\ registered' \in SUBSET Sockets
          /\ pc' \in [Sockets -> {"new", "announce", "serving", "depart",
                                  "stuck", "done"}]
      <4>1. CASE /\ pc' = [pc EXCEPT ![s] = "stuck"]
                 /\ lock' = [lock EXCEPT ![Shard(s)] = s]
        BY <3>1, <3>2, <4>1
      <4>2. CASE /\ pc' = [pc EXCEPT ![s] = "depart"]
                 /\ lock' = lock
        BY <3>2, <4>2
      <4>3. QED BY <3>2, <4>1, <4>2, Zenon
    <3>5. QED BY <3>3, <3>4 DEF chanVars, inVars, redisVars, kafkaVars
  <2>4. CASE Depart(s)
    <3>1. WritePresence(s, "offline")
      BY <2>4 DEF Depart
    <3>2. /\ presence' \in [Users -> Statuses \cup {None}]
          /\ written' \in [Users -> 0 .. MaxTime]
          /\ unsaid' \in SUBSET Users
      BY <2>0, <3>1, WriteTyped
    <3>3. QED BY <2>4, <3>2 DEF Depart, chanVars, inVars, mapVars, kafkaVars
  <2>5. QED BY <1>5, <2>1, <2>2, <2>3, <2>4 DEF Handler
<1>6. ASSUME NEW s \in Sockets, SendTask(s) PROVE TypeOK'
  <2>1. CASE SendNext(s)
    <3>1. queue[s] \in Seq(Items) /\ queue[s] # <<>>
      BY <2>1 DEF SendNext
    <3>2. Head(queue[s]) \in Items /\ Tail(queue[s]) \in Seq(Items)
      BY <3>1
    <3>3. Append(out[s], Head(queue[s])) \in Seq(Items)
      BY <3>2
    <3>4. QED
      <4>1. /\ queue' = [queue EXCEPT ![s] = Tail(queue[s])]
               \/ queue' = [queue EXCEPT ![s] = <<>>]
            /\ out' = [out EXCEPT ![s] = Append(out[s], Head(queue[s]))]
               \/ out' = out
            /\ sender' = [sender EXCEPT ![s] = "done"] \/ sender' = sender
        BY <2>1, Zenon DEF SendNext
      <4>2. UNCHANGED <<now, pc, receiver, open, joined, inVars, mapVars,
                        redisVars, sweep, bcast, kafkaVars>>
        BY <2>1 DEF SendNext
      <4>3. /\ queue' \in [Sockets -> Seq(Items)]
            /\ out' \in [Sockets -> Seq(Items)]
            /\ sender' \in [Sockets -> {"none", "running", "done"}]
        <5>1. /\ [queue EXCEPT ![s] = Tail(queue[s])]
                    \in [Sockets -> Seq(Items)]
              /\ [queue EXCEPT ![s] = <<>>] \in [Sockets -> Seq(Items)]
          <6>1. <<>> \in Seq(Items)
            OBVIOUS
          <6>2. QED BY <3>2, <6>1, Updated, Zenon
        <5>2. /\ [out EXCEPT ![s] = Append(out[s], Head(queue[s]))]
                    \in [Sockets -> Seq(Items)]
              /\ [sender EXCEPT ![s] = "done"]
                    \in [Sockets -> {"none", "running", "done"}]
          BY <3>3, Updated, Zenon
        <5>3. QED BY <4>1, <5>1, <5>2, Zenon
      <4>4. QED
        BY <4>2, <4>3 DEF inVars, mapVars, redisVars, kafkaVars
  <2>2. CASE SenderEnds(s)
    BY <2>2 DEF SenderEnds, chanVars, inVars, mapVars, redisVars, kafkaVars
  <2>3. QED BY <1>6, <2>1, <2>2 DEF SendTask
<1>7. ASSUME NEW s \in Sockets, ReceiveTask(s) PROVE TypeOK'
  <2>0. ASSUME NEW kind, Receiving(s, kind)
        PROVE  /\ UNCHANGED <<now, pc, sender, receiver, open, queue, out,
                              joined, sweep, topic, fanned>>
               /\ frames' \in 0 .. MaxFrames
    BY <2>0 DEF Receiving, taskVars, chanVars
  <2>1. CASE RecvHeartbeat(s)
    <3>1. Receiving(s, "heartbeat")
      BY <2>1 DEF RecvHeartbeat
    <3>2. \/ beat' = beat
          \/ \E r \in Found(s) : beat' = [beat EXCEPT ![r] = now]
      BY <2>1, Zenon DEF RecvHeartbeat
    <3>3. UNCHANGED <<late, registered, ahead, lock, redisVars, bcast,
                      forwarded, receipts>>
      BY <2>1 DEF RecvHeartbeat
    <3>4. Found(s) \subseteq Sockets
      BY DEF Found, SameDevice, Entry
    <3>5. beat' \in [Sockets -> 0 .. MaxTime]
      BY <3>2, <3>4
    <3>6. heard' \in [Sockets -> 0 .. MaxTime]
      BY <2>1 DEF RecvHeartbeat
    <3>7. QED BY <2>0, <3>1, <3>3, <3>5, <3>6 DEF redisVars
  <2>2. CASE RecvMessage(s)
    <3>1. Receiving(s, "message")
      BY <2>2 DEF RecvMessage
    <3>2. \/ forwarded' = [forwarded EXCEPT ![s] = forwarded[s] + 1]
          \/ forwarded' = forwarded
      BY <2>2, Zenon DEF RecvMessage
    <3>3. UNCHANGED <<late, heard, mapVars, redisVars, bcast, receipts>>
      BY <2>2 DEF RecvMessage
    <3>4. forwarded' \in [Sockets -> Nat]
      <4>1. [forwarded EXCEPT ![s] = forwarded[s] + 1] \in [Sockets -> Nat]
        OBVIOUS
      <4>2. QED BY <3>2, <4>1, Zenon
    <3>5. QED BY <2>0, <3>1, <3>3, <3>4 DEF mapVars, redisVars
  <2>3. CASE RecvReceipt(s)
    <3>1. Receiving(s, "receipt")
      BY <2>3 DEF RecvReceipt
    <3>2. \/ receipts' = [receipts EXCEPT ![s] = receipts[s] + 1]
          \/ receipts' = receipts
      BY <2>3, Zenon DEF RecvReceipt
    <3>3. UNCHANGED <<late, heard, mapVars, redisVars, bcast, forwarded>>
      BY <2>3 DEF RecvReceipt
    <3>4. receipts' \in [Sockets -> Nat]
      <4>1. [receipts EXCEPT ![s] = receipts[s] + 1] \in [Sockets -> Nat]
        OBVIOUS
      <4>2. QED BY <3>2, <4>1, Zenon
    <3>5. QED BY <2>0, <3>1, <3>3, <3>4 DEF mapVars, redisVars
  <2>4. CASE RecvPresence(s)
    <3>1. Receiving(s, "presence")
      BY <2>4 DEF RecvPresence
    <3>2. PICK status \in Statuses : WritePresence(s, status)
      BY <2>4 DEF RecvPresence
    <3>3. /\ presence' \in [Users -> Statuses \cup {None}]
          /\ written' \in [Users -> 0 .. MaxTime]
          /\ unsaid' \in SUBSET Users
      BY <3>2, WriteTyped
    <3>4. late' \in SUBSET Sockets
      BY <2>4 DEF RecvPresence
    <3>5. UNCHANGED <<heard, mapVars, bcast, forwarded, receipts>>
      BY <2>4 DEF RecvPresence
    <3>6. QED BY <2>0, <3>1, <3>3, <3>4, <3>5 DEF mapVars
  <2>5. CASE RecvTyping(s)
    <3>1. [shard |-> 1,
           item |-> [kind |-> "typing", from |-> UserOf[s], seq |-> 0]]
             \in [shard : Shards, item : Items]
      BY DEF Shards, Items
    <3>2. Receiving(s, "typing")
      BY <2>5 DEF RecvTyping
    <3>3. bcast' \in [Broadcasters ->
                        {Idle} \cup [shard : Shards, item : Items]]
      BY <2>5, <3>1 DEF RecvTyping, Broadcasters
    <3>4. UNCHANGED <<late, heard, mapVars, redisVars, forwarded, receipts>>
      BY <2>5 DEF RecvTyping
    <3>5. QED BY <2>0, <3>2, <3>3, <3>4 DEF mapVars, redisVars
  <2>6. CASE RecvClose(s)
    BY <2>6 DEF RecvClose, chanVars, inVars, mapVars, redisVars, kafkaVars
  <2>7. QED BY <1>7, <2>1, <2>2, <2>3, <2>4, <2>5, <2>6 DEF ReceiveTask
<1>8. CASE FanStart
  <2>1. topic[fanned + 1] \in Users
    BY <1>8 DEF FanStart
  <2>2. [shard |-> 1,
         item |-> [kind |-> "message", from |-> topic[fanned + 1],
                   seq |-> fanned + 1]] \in [shard : Shards, item : Items]
    BY <2>1 DEF Shards, Items
  <2>3. bcast' \in [Broadcasters -> {Idle} \cup [shard : Shards, item : Items]]
    BY <1>8, <2>2 DEF FanStart, Broadcasters
  <2>4. fanned' \in 0 .. Len(topic)
    BY SMTT(30), <1>8 DEF FanStart
  <2>5. QED
    BY <1>8, <2>3, <2>4 DEF FanStart, taskVars, chanVars, inVars, mapVars,
                            redisVars
<1>9. ASSUME NEW b \in Broadcasters, Visit(b) PROVE TypeOK'
  <2>1. bcast[b] \in [shard : Shards, item : Items]
    BY <1>9 DEF Visit
  <2>2. \A s \in Sockets : Append(queue[s], bcast[b].item) \in Seq(Items)
    BY <2>1
  <2>3. NextShard(bcast[b].shard) # 0
          => NextShard(bcast[b].shard) \in Shards
    BY SMTT(30), <2>1 DEF NextShard, Shards
  <2>4. queue' \in [Sockets -> Seq(Items)]
    BY <1>9, <2>2 DEF Visit
  <2>5. bcast' \in [Broadcasters -> {Idle} \cup [shard : Shards, item : Items]]
    BY <1>9, <2>1, <2>3 DEF Visit
  <2>6. QED
    BY <1>9, <2>4, <2>5 DEF Visit, taskVars, inVars, mapVars, redisVars,
                            kafkaVars
<1>10. CASE SweepStart
  BY SMTT(30), <1>10
     DEF SweepStart, taskVars, chanVars, inVars, mapVars, redisVars, kafkaVars
<1>11. CASE SweepShard
  <2>1. registered' \in SUBSET Sockets
    BY <1>11 DEF SweepShard
  <2>2. NextShard(sweep.shard) \in 0 .. NumShards
    BY SMTT(30) DEF NextShard
  <2>3. sweep' \in [shard : 0 .. NumShards, at : 0 .. MaxTime, next : Nat]
    BY <1>11, <2>2 DEF SweepShard
  <2>4. QED
    BY <1>11, <2>1, <2>3 DEF SweepShard, taskVars, chanVars, inVars,
                             redisVars, kafkaVars
<1>12. CASE UNCHANGED vars
  BY <1>12 DEF vars, taskVars, chanVars, inVars, mapVars, redisVars, kafkaVars
<1>13. QED
  BY <1>1, <1>2, <1>3, <1>4, <1>5, <1>6, <1>7, <1>8, <1>9, <1>10, <1>11,
     <1>12 DEF Next

\* Every variable keeps its type, whatever the instance.
THEOREM TypeCorrect == Spec => []TypeOK
BY TypeInit, TypeNext, PTL DEF Spec

----------------------------------------------------------------------------
(* The registry: it is inductive together with the type invariant.         *)

\* The only steps that move a handler or the map.
LEMMA RegistryInit == Init => RegistryMatchesHandlers
BY DEF Init, RegistryMatchesHandlers

LEMMA RegistryNext ==
  TypeOK /\ RegistryMatchesHandlers /\ [Next]_vars => RegistryMatchesHandlers'
<1> SUFFICES ASSUME TypeOK, RegistryMatchesHandlers, [Next]_vars
             PROVE  RegistryMatchesHandlers'
  OBVIOUS
<1> USE DEF RegistryMatchesHandlers
<1>0. /\ pc \in [Sockets -> {"new", "announce", "serving", "depart", "stuck",
                              "done"}]
      /\ registered \subseteq Sockets
  BY DEF TypeOK
<1>a. ASSUME UNCHANGED <<pc, registered>> PROVE RegistryMatchesHandlers'
  BY <1>a
<1>1. ASSUME NEW s \in Sockets, Connect(s) PROVE RegistryMatchesHandlers'
  BY <1>0, <1>1 DEF Connect
<1>2. ASSUME NEW s \in Sockets, Announce(s) PROVE RegistryMatchesHandlers'
  BY <1>0, <1>2 DEF Announce, mapVars
\* The leaving handler's own connection is one of its device's.
<1>3. ASSUME NEW s \in Sockets, Disconnect(s) PROVE RegistryMatchesHandlers'
  <2>1. registered' = registered \ SameDevice(s)
    BY <1>3 DEF Disconnect
  <2>2. \A r \in Sockets : r # s => pc'[r] = pc[r]
    BY <1>0, <1>3 DEF Disconnect
  <2>3. s \notin registered'
    BY <2>1 DEF SameDevice, Entry
  <2>4. QED BY <1>0, <2>1, <2>2, <2>3
<1>4. ASSUME NEW s \in Sockets, Depart(s) PROVE RegistryMatchesHandlers'
  BY <1>0, <1>4 DEF Depart, mapVars
<1>5. CASE SweepShard
  BY <1>5 DEF SweepShard, taskVars
<1>6. ASSUME NEW s \in Sockets, SendTask(s) PROVE RegistryMatchesHandlers'
  BY <1>6, <1>a DEF SendTask, SendNext, SenderEnds, mapVars
<1>7. ASSUME NEW s \in Sockets, ReceiveTask(s) PROVE RegistryMatchesHandlers'
  BY <1>7, <1>a DEF ReceiveTask, RecvHeartbeat, RecvMessage, RecvReceipt,
     RecvPresence, RecvTyping, RecvClose, Receiving, mapVars, taskVars
<1>8. ASSUME \/ Tick \/ FanStart \/ SweepStart
             \/ \E u \in Users : Feed(u) \/ PresenceExpires(u)
             \/ \E s \in Sockets : ClientClose(s)
             \/ \E b \in Broadcasters : Visit(b)
             \/ UNCHANGED vars
      PROVE  RegistryMatchesHandlers'
  BY <1>8, <1>a DEF Tick, Feed, PresenceExpires, ClientClose, FanStart, Visit,
     SweepStart, vars, mapVars, taskVars
<1>9. QED
  BY <1>1, <1>2, <1>3, <1>4, <1>5, <1>6, <1>7, <1>8 DEF Next, Handler

\* No handler ever leaves its own connection behind.
THEOREM RegistryCorrect == Spec => []RegistryMatchesHandlers
BY TypeInit, TypeNext, RegistryInit, RegistryNext, PTL DEF Spec

----------------------------------------------------------------------------
(* The wedge: who holds the lock of a shard, and what is in it.            *)

LEMMA WedgeInit == Init => WedgeShape
BY SocketAssumption
   DEF Init, WedgeShape, LockHolderIsStuck, StuckEntryIsEmpty, Entry

LEMMA WedgeNext == TypeOK /\ WedgeShape /\ [Next]_vars => WedgeShape'
<1> SUFFICES ASSUME TypeOK, WedgeShape, [Next]_vars PROVE WedgeShape'
  OBVIOUS
<1> USE SocketAssumption, ShardAssumption
<1> USE DEF WedgeShape, LockHolderIsStuck, StuckEntryIsEmpty, Entry, Shard
<1>0. /\ pc \in [Sockets -> {"new", "announce", "serving", "depart", "stuck",
                              "done"}]
      /\ registered \subseteq Sockets
      /\ lock \in [Shards -> Sockets \cup {None}]
  BY DEF TypeOK
<1>00. \A s \in Sockets : Shard(s) \in Shards
  BY DEF Shards
\* Steps that leave the handlers and the lock alone only ever empty entries.
<1>a. ASSUME UNCHANGED <<pc, lock>>, registered' \subseteq registered
      PROVE  WedgeShape'
  BY <1>a
\* A stuck handler's shard is locked, so nobody is let into its entry.
<1>1. ASSUME NEW s \in Sockets, Connect(s) PROVE WedgeShape'
  <2>1. /\ pc[s] = "new" /\ lock[Shard(s)] = None
        /\ pc' = [pc EXCEPT ![s] = "announce"]
        /\ registered' = registered \cup {s}
        /\ lock' = lock
    BY <1>1 DEF Connect, Free
  <2>2. \A r \in Sockets : pc'[r] = "stuck" <=> pc[r] = "stuck"
    BY <1>0, <2>1
  <2>3. \A r \in Sockets : pc[r] = "stuck" => UserOf[r] # UserOf[s]
    BY <1>00, <2>1
  <2>4. QED BY <2>1, <2>2, <2>3
<1>2. ASSUME NEW s \in Sockets, Announce(s) \/ Depart(s) PROVE WedgeShape'
  <2>1. /\ \A r \in Sockets : pc'[r] = "stuck" <=> pc[r] = "stuck"
        /\ UNCHANGED <<lock, registered>>
    BY <1>0, <1>2 DEF Announce, Depart, mapVars
  <2>2. QED BY <2>1
<1>3. ASSUME NEW s \in Sockets, Disconnect(s) PROVE WedgeShape'
  <2>1. /\ pc[s] = "serving" /\ lock[Shard(s)] = None
        /\ registered' = registered \ SameDevice(s)
    BY <1>3 DEF Disconnect, Free
  <2>2. CASE /\ Entry(UserOf[s]) \ SameDevice(s) = {}
             /\ pc' = [pc EXCEPT ![s] = "stuck"]
             /\ lock' = [lock EXCEPT ![Shard(s)] = s]
    <3>1. StuckEntryIsEmpty'
      <4>1. {r \in registered' : UserOf[r] = UserOf[s]} = {}
        BY <2>1, <2>2
      <4>2. ASSUME NEW r \in Sockets, r # s, pc'[r] = "stuck"
            PROVE  {q \in registered' : UserOf[q] = UserOf[r]} = {}
        BY <1>0, <2>1, <2>2, <4>2
      <4>3. QED BY <4>1, <4>2
    <3>2. ASSUME NEW sh \in Shards, NEW r \in Sockets
          PROVE  lock'[sh] = r <=> (pc'[r] = "stuck" /\ Shard(r) = sh)
      <4>1. lock[sh] = r <=> (pc[r] = "stuck" /\ Shard(r) = sh)
        OBVIOUS
      <4>2. pc'[r] = IF r = s THEN "stuck" ELSE pc[r]
        BY <1>0, <2>2
      <4>3. lock'[sh] = IF sh = Shard(s) THEN s ELSE lock[sh]
        BY <1>0, <2>2
      <4>4. lock[Shard(s)] # r
        BY <2>1
      <4>5. QED BY <2>1, <4>1, <4>2, <4>3, <4>4
    <3>3. QED BY <3>1, <3>2
  <2>3. CASE pc' = [pc EXCEPT ![s] = "depart"] /\ lock' = lock
    <3>1. \A r \in Sockets : pc'[r] = "stuck" <=> pc[r] = "stuck"
      BY <1>0, <2>1, <2>3
    <3>2. QED BY <2>1, <2>3, <3>1
  <2>4. QED BY <1>3, <2>2, <2>3, Zenon DEF Disconnect, Emptied
<1>4. CASE SweepShard
  BY <1>4, <1>a DEF SweepShard, taskVars
<1>5. ASSUME NEW s \in Sockets, SendTask(s) PROVE WedgeShape'
  BY <1>5, <1>a DEF SendTask, SendNext, SenderEnds, mapVars
<1>6. ASSUME NEW s \in Sockets, ReceiveTask(s) PROVE WedgeShape'
  BY <1>6, <1>a DEF ReceiveTask, RecvHeartbeat, RecvMessage, RecvReceipt,
     RecvPresence, RecvTyping, RecvClose, Receiving, mapVars, taskVars
<1>7. ASSUME \/ Tick \/ FanStart \/ SweepStart
             \/ \E u \in Users : Feed(u) \/ PresenceExpires(u)
             \/ \E s \in Sockets : ClientClose(s)
             \/ \E b \in Broadcasters : Visit(b)
             \/ UNCHANGED vars
      PROVE  WedgeShape'
  BY <1>7, <1>a DEF Tick, Feed, PresenceExpires, ClientClose, FanStart, Visit,
     SweepStart, vars, mapVars, taskVars
<1>8. QED
  BY <1>1, <1>2, <1>3, <1>4, <1>5, <1>6, <1>7 DEF Next, Handler

\* A shard is locked exactly by the stuck handler whose user it holds, and
\* the entry that handler emptied stays empty.
THEOREM WedgeCorrect == Spec => []WedgeShape
BY TypeInit, TypeNext, WedgeInit, WedgeNext, PTL DEF Spec

----------------------------------------------------------------------------
(* What a locked shard is kept from.                                       *)

\* Facts about sequences.
LEMMA ConcatAppend ==
  ASSUME NEW S, NEW q \in Seq(S), NEW r \in Seq(S), NEW e \in S
  PROVE  q \o Append(r, e) = Append(q \o r, e)
OBVIOUS

LEMMA HeadMoves ==
  ASSUME NEW S, NEW q \in Seq(S), NEW r \in Seq(S), r # <<>>
  PROVE  Append(q, Head(r)) \o Tail(r) = q \o r
OBVIOUS

LEMMA ConcatLength ==
  ASSUME NEW S, NEW q \in Seq(S), NEW r \in Seq(S)
  PROVE  /\ q \o r \in Seq(S)
         /\ Len(q \o r) = Len(q) + Len(r)
         /\ Len(q) \in Nat /\ Len(r) \in Nat
OBVIOUS

LEMMA TailLength ==
  ASSUME NEW S, NEW q \in Seq(S), q # <<>>
  PROVE  Tail(q) \in Seq(S) /\ Len(Tail(q)) = Len(q) - 1 /\ Len(q) \in Nat
OBVIOUS

\* The channel to a client is a sequence, and its length that of its parts.
LEMMA ChannelTyped ==
  ASSUME TypeOK, NEW s \in Sockets
  PROVE  /\ out[s] \in Seq(Items) /\ queue[s] \in Seq(Items)
         /\ Channel(s) \in Seq(Items)
         /\ Len(Channel(s)) = Len(out[s]) + Len(queue[s])
<1>1. out[s] \in Seq(Items) /\ queue[s] \in Seq(Items)
  BY DEF TypeOK
<1>2. QED BY <1>1 DEF Channel

\* What a step does to the channel of a socket.
ChannelSame(s) == Channel(s)' = Channel(s)

\* The client is gone: the next item of the queue, or all of it, is lost.
ChannelCut(s) ==
  /\ ~open[s] /\ sender[s] = "running" /\ queue[s] # <<>>
  /\ out' = out
  /\ queue'[s] = Tail(queue[s]) \/ queue'[s] = <<>>

ChannelSent(s) ==
  \E b \in Broadcasters :
     /\ Visit(b) /\ s \in Reached(bcast[b].shard, bcast[b].item.from)
     /\ Channel(s)' = Append(Channel(s), bcast[b].item)

\* One visit of a broadcast appends its item to the channels it reaches.
LEMMA VisitSends ==
  ASSUME TypeOK, NEW b \in Broadcasters, Visit(b), NEW s \in Sockets
  PROVE  /\ bcast[b] \in [shard : Shards, item : Items]
         /\ IF s \in Reached(bcast[b].shard, bcast[b].item.from)
              THEN Channel(s)' = Append(Channel(s), bcast[b].item)
              ELSE ChannelSame(s)
<1>1. bcast[b] \in [shard : Shards, item : Items]
  BY DEF Visit, TypeOK
<1>2. PICK it \in Items : it = bcast[b].item
  BY <1>1
<1>3. /\ queue'[s] = IF s \in Reached(bcast[b].shard, it.from)
                       THEN Append(queue[s], it) ELSE queue[s]
      /\ out' = out
  BY <1>2 DEF Visit
<1>4. out[s] \o Append(queue[s], it) = Append(out[s] \o queue[s], it)
  <2>1. out[s] \in Seq(Items) /\ queue[s] \in Seq(Items)
    BY ChannelTyped
  <2>2. \A q, r \in Seq(Items), e \in Items :
           q \o Append(r, e) = Append(q \o r, e)
    BY ConcatAppend
  <2>3. it \in Items
    BY <1>2
  <2>4. QED BY <2>1, <2>2, <2>3, Zenon
<1>5. IF s \in Reached(bcast[b].shard, it.from)
        THEN Channel(s)' = Append(Channel(s), it)
        ELSE ChannelSame(s)
  BY <1>3, <1>4 DEF Channel, ChannelSame
<1>6. QED BY <1>1, <1>2, <1>5

LEMMA SendMoves ==
  ASSUME TypeOK, NEW r \in Sockets, SendNext(r), NEW s \in Sockets
  PROVE  ChannelSame(s) \/ (s = r /\ ChannelCut(s))
<1>1. queue[r] # <<>> /\ sender[r] = "running"
  BY DEF SendNext
<1>2. CASE s # r
  BY <1>2 DEF SendNext, TypeOK, ChannelSame, Channel
<1>3. CASE s = r /\ open[r]
  <2>1. /\ out'[s] = Append(out[s], Head(queue[s]))
        /\ queue'[s] = Tail(queue[s])
    BY <1>3 DEF SendNext, TypeOK
  <2>2. Append(out[s], Head(queue[s])) \o Tail(queue[s]) = out[s] \o queue[s]
    <3>1. out[s] \in Seq(Items) /\ queue[s] \in Seq(Items)
      BY ChannelTyped
    <3>2. QED BY <1>1, <1>3, <3>1, HeadMoves
  <2>3. QED BY <2>1, <2>2 DEF ChannelSame, Channel
<1>4. CASE s = r /\ ~open[r]
  BY <1>1, <1>4 DEF SendNext, TypeOK, ChannelCut
<1>5. QED BY <1>2, <1>3, <1>4

\* The channel of a socket moves in no other way.
LEMMA ChannelMoves ==
  ASSUME TypeOK, [Next]_vars, NEW s \in Sockets
  PROVE  ChannelSame(s) \/ ChannelCut(s) \/ ChannelSent(s)
<1>1. ASSUME NEW b \in Broadcasters, Visit(b)
      PROVE  ChannelSame(s) \/ ChannelSent(s)
  BY <1>1, VisitSends DEF ChannelSent
<1>2. ASSUME NEW r \in Sockets, SendNext(r)
      PROVE  ChannelSame(s) \/ ChannelCut(s)
  BY <1>2, SendMoves
<1>3. CASE UNCHANGED <<out, queue>>
  BY <1>3 DEF ChannelSame, Channel
<1>4. ASSUME ~\E b \in Broadcasters : Visit(b),
             ~\E r \in Sockets : SendNext(r)
      PROVE  UNCHANGED <<out, queue>>
  BY <1>4 DEF Next, Tick, Feed, PresenceExpires, ClientClose, Handler,
     Connect, Announce, Disconnect, Depart, SendTask, SenderEnds,
     ReceiveTask, RecvHeartbeat, RecvMessage, RecvReceipt, RecvPresence,
     RecvTyping, RecvClose, Receiving, FanStart, SweepStart, SweepShard,
     chanVars, vars
<1>5. QED BY <1>1, <1>2, <1>3, <1>4

LEMMA FrozenStep ==
  ASSUME TypeOK, [Next]_vars, NEW sh \in Shards, lock[sh] # None,
         NEW s \in Sockets, Shard(s) = sh
  PROVE  /\ s \in registered' <=> s \in registered
         /\ beat'[s] = beat[s]
         /\ Len(Channel(s)') =< Len(Channel(s))
<1>1. Len(Channel(s)') =< Len(Channel(s))
  <2>1. CASE ChannelSame(s)
    BY <2>1, ChannelTyped DEF ChannelSame
  <2>2. CASE ChannelCut(s)
    <3>0. /\ queue[s] # <<>> /\ out' = out
          /\ queue'[s] = Tail(queue[s]) \/ queue'[s] = <<>>
      BY <2>2 DEF ChannelCut
    <3>1. out[s] \in Seq(Items) /\ queue[s] \in Seq(Items)
      BY ChannelTyped
    <3>2. PICK q \in Seq(Items) : q = queue'[s] /\ Len(q) =< Len(queue[s])
      <4>1. /\ Tail(queue[s]) \in Seq(Items)
            /\ Len(Tail(queue[s])) =< Len(queue[s])
            /\ <<>> \in Seq(Items) /\ Len(<<>>) =< Len(queue[s])
        BY <3>0, <3>1, TailLength
      <4>2. QED BY <3>0, <4>1, Zenon
    <3>3. Channel(s) = out[s] \o queue[s] /\ Channel(s)' = out[s] \o q
      BY <3>0, <3>2 DEF Channel
    <3>4. /\ Len(out[s] \o queue[s]) = Len(out[s]) + Len(queue[s])
          /\ Len(out[s] \o q) = Len(out[s]) + Len(q)
          /\ Len(out[s]) \in Nat /\ Len(queue[s]) \in Nat /\ Len(q) \in Nat
      BY <3>1, ConcatLength
    <3>5. QED BY <3>2, <3>3, <3>4
  <2>3. CASE ChannelSent(s)
    BY <2>3 DEF ChannelSent, Visit, Visitable, Free, Reached
  <2>4. QED BY <2>1, <2>2, <2>3, ChannelMoves
<1>2. ASSUME NEW r \in Sockets, Connect(r) \/ Disconnect(r) \/ RecvHeartbeat(r)
      PROVE  /\ s \in registered' <=> s \in registered
             /\ beat'[s] = beat[s]
  <2>1. Shard(r) # sh
    BY <1>2 DEF Connect, Disconnect, RecvHeartbeat, Free
  <2>2. /\ r # s /\ UserOf[r] # UserOf[s]
        /\ s \notin SameDevice(r) /\ SameDevice(r) \subseteq Sockets
    BY <2>1 DEF Shard, SameDevice, Entry, TypeOK
  <2>3. CASE Connect(r) \/ Disconnect(r)
    BY <2>2, <2>3 DEF Connect, Disconnect, TypeOK
  <2>4. CASE RecvHeartbeat(r)
    BY <2>2, <2>4 DEF RecvHeartbeat, Found, TypeOK
  <2>5. QED BY <1>2, <2>3, <2>4
<1>3. ASSUME SweepShard
      PROVE  (s \in registered' <=> s \in registered) /\ beat'[s] = beat[s]
  BY <1>3 DEF SweepShard, Free, TypeOK
<1>4. ASSUME ~\E r \in Sockets :
                 Connect(r) \/ Disconnect(r) \/ RecvHeartbeat(r),
             ~SweepShard
      PROVE  UNCHANGED <<registered, beat>>
  BY <1>4 DEF Next, Tick, Feed, PresenceExpires, ClientClose, Handler,
     Announce, Depart, SendTask, SendNext, SenderEnds, ReceiveTask,
     RecvMessage, RecvReceipt, RecvPresence, RecvTyping, RecvClose, FanStart,
     Visit, SweepStart, mapVars, vars
<1>5. (s \in registered' <=> s \in registered) /\ beat'[s] = beat[s]
  BY <1>2, <1>3, <1>4
<1>6. QED BY <1>1, <1>5

\* Once a shard is locked nothing in it moves again: it is never unlocked, no
\* user of it gets in, is refreshed or leaves, and its sockets are sent
\* nothing.
THEOREM LockedStaysFrozen == Spec => LockedShardIsFrozen
<1>1. ASSUME TypeOK, [Next]_vars, NEW sh \in Shards, lock[sh] # None
      PROVE  lock'[sh] = lock[sh]
  <2>1. ASSUME NEW s \in Sockets, Disconnect(s)
        PROVE  lock'[sh] = lock[sh]
    <3>1. Shard(s) # sh
      BY <1>1, <2>1 DEF Disconnect, Free
    <3>2. QED BY <1>1, <2>1, <3>1 DEF Disconnect, TypeOK
  <2>2. ASSUME ~\E s \in Sockets : Disconnect(s)
        PROVE  lock' = lock
    BY <1>1, <2>2 DEF Next, Tick, Feed, PresenceExpires, ClientClose,
       Handler, Connect, Announce, Depart, SendTask, SendNext, SenderEnds,
       ReceiveTask, RecvHeartbeat, RecvMessage, RecvReceipt, RecvPresence,
       RecvTyping, RecvClose, FanStart, Visit, SweepStart, SweepShard,
       mapVars, vars
  <2>3. QED BY <2>1, <2>2
<1>2. TypeOK /\ [Next]_vars =>
         \A sh \in Shards : lock[sh] # None =>
            /\ lock'[sh] = lock[sh]
            /\ \A s \in Sockets : Shard(s) = sh =>
                  /\ s \in registered' <=> s \in registered
                  /\ beat'[s] = beat[s]
                  /\ Len(Channel(s)') =< Len(Channel(s))
  BY <1>1, FrozenStep
<1>3. QED
  BY <1>2, TypeInit, TypeNext, PTL DEF Spec, LockedShardIsFrozen

----------------------------------------------------------------------------
(* How entries go.                                                         *)

\* The sweep compares with a clock it read before.
SweepBehind == sweep.at =< now

LEMMA SweepInit == Init => SweepBehind
BY DEF Init, SweepBehind

LEMMA SweepNext == TypeOK /\ SweepBehind /\ [Next]_vars => SweepBehind'
<1> SUFFICES ASSUME TypeOK, SweepBehind, [Next]_vars PROVE SweepBehind'
  OBVIOUS
<1>0. now \in Nat /\ sweep.at \in Nat
  BY BoundAssumption DEF TypeOK
<1>1. CASE Tick
  BY <1>0, <1>1 DEF Tick, SweepBehind
<1>2. CASE SweepStart
  BY <1>0, <1>2 DEF SweepStart, SweepBehind
<1>3. CASE SweepShard
  BY <1>3 DEF SweepShard, SweepBehind
<1>4. ASSUME ~Tick, ~SweepStart, ~SweepShard PROVE UNCHANGED <<now, sweep>>
  BY <1>4 DEF Next, Feed, PresenceExpires, ClientClose, Handler, Connect,
     Announce, Disconnect, Depart, SendTask, SendNext, SenderEnds,
     ReceiveTask, RecvHeartbeat, RecvMessage, RecvReceipt, RecvPresence,
     RecvTyping, RecvClose, Receiving, FanStart, Visit, vars
<1>5. QED BY <1>1, <1>2, <1>3, <1>4 DEF SweepBehind

LEMMA RemovalStep ==
  ASSUME TypeOK, SweepBehind, [Next]_vars, NEW s \in registered,
         s \notin registered'
  PROVE  \/ sweep'.shard # sweep.shard /\ beat[s] + Timeout =< now
         \/ \E r \in Sockets :
               /\ pc[r] = "serving" /\ pc'[r] # "serving"
               /\ UserOf[r] = UserOf[s] /\ DeviceOf[r] = DeviceOf[s]
<1>0. s \in Sockets
  BY DEF TypeOK
<1>1. CASE SweepShard
  <2>1. /\ Stale(s, sweep.at) /\ sweep.shard # 0
        /\ sweep'.shard = NextShard(sweep.shard)
    BY <1>0, <1>1 DEF SweepShard
  <2>2. sweep.shard \in Nat /\ sweep.at \in Nat /\ now \in Nat
        /\ beat[s] \in Nat /\ Timeout \in Nat /\ NumShards \in Nat
    BY <1>0, BoundAssumption, ShardAssumption DEF TypeOK
  <2>3. sweep'.shard # sweep.shard
    BY <2>1, <2>2 DEF NextShard
  <2>4. QED BY <2>1, <2>2, <2>3 DEF Stale, SweepBehind
<1>2. ASSUME NEW r \in Sockets, Disconnect(r)
      PROVE  /\ pc[r] = "serving" /\ pc'[r] # "serving"
             /\ UserOf[r] = UserOf[s] /\ DeviceOf[r] = DeviceOf[s]
  <2>1. s \in SameDevice(r)
    BY <1>2 DEF Disconnect
  <2>2. pc[r] = "serving" /\ pc'[r] # "serving"
    BY <1>2 DEF Disconnect, TypeOK
  <2>3. QED BY <2>1, <2>2 DEF SameDevice, Entry
<1>3. ASSUME ~SweepShard, ~\E r \in Sockets : Disconnect(r)
      PROVE  registered \subseteq registered'
  BY <1>3 DEF Next, Tick, Feed, PresenceExpires, ClientClose, Handler,
     Connect, Announce, Depart, SendTask, SendNext, SenderEnds, ReceiveTask,
     RecvHeartbeat, RecvMessage, RecvReceipt, RecvPresence, RecvTyping,
     RecvClose, FanStart, Visit, SweepStart, mapVars, vars
<1>4. QED BY <1>1, <1>2, <1>3

\* An entry goes only because it was stale when the sweep came by, or because
\* a handler of the same user and device is leaving.
THEOREM RemovalOnlyJustified == Spec => RemovalJustified
<1>1. TypeOK /\ SweepBehind /\ [Next]_vars =>
         \A s \in registered \ registered' :
            \/ sweep'.shard # sweep.shard /\ beat[s] + Timeout =< now
            \/ \E r \in Sockets :
                  /\ pc[r] = "serving" /\ pc'[r] # "serving"
                  /\ UserOf[r] = UserOf[s] /\ DeviceOf[r] = DeviceOf[s]
  BY RemovalStep
<1>2. QED
  BY <1>1, TypeInit, TypeNext, SweepInit, SweepNext, PTL
     DEF Spec, RemovalJustified

----------------------------------------------------------------------------
(* What a user leaves behind.                                              *)

\* A socket has its tasks once its handler has announced it.
TasksFollow ==
  \A s \in Sockets : pc[s] \in {"new", "announce"} =>
     sender[s] = "none" /\ receiver[s] = "none"

LEMMA TasksInit == Init => TasksFollow
BY DEF Init, TasksFollow

LEMMA TasksNext == TypeOK /\ TasksFollow /\ [Next]_vars => TasksFollow'
<1> SUFFICES ASSUME TypeOK, TasksFollow, [Next]_vars, NEW s \in Sockets,
                    pc'[s] \in {"new", "announce"}
             PROVE  sender'[s] = "none" /\ receiver'[s] = "none"
  BY DEF TasksFollow
<1>1. ASSUME NEW r \in Sockets, Handler(r)
      PROVE  /\ pc[s] \in {"new", "announce"}
             /\ sender'[s] = sender[s] /\ receiver'[s] = receiver[s]
  <2>1. /\ pc \in [Sockets -> {"new", "announce", "serving", "depart", "stuck",
                             "done"}]
        /\ sender \in [Sockets -> {"none", "running", "done"}]
        /\ receiver \in [Sockets -> {"none", "running", "done"}]
    BY DEF TypeOK
  <2>2. CASE Connect(r)
    BY <2>1, <2>2 DEF Connect
  <2>3. CASE Announce(r)
    BY <2>1, <2>3 DEF Announce
  <2>4. CASE Disconnect(r)
    BY <2>1, <2>4 DEF Disconnect
  <2>5. CASE Depart(r)
    BY <2>1, <2>5 DEF Depart
  <2>6. QED BY <1>1, <2>2, <2>3, <2>4, <2>5 DEF Handler
<1>2. ASSUME NEW r \in Sockets, SendTask(r)
      PROVE  /\ pc' = pc /\ receiver' = receiver
             /\ sender'[s] # sender[s] => sender[s] = "running"
  BY <1>2 DEF SendTask, SendNext, SenderEnds, TypeOK
<1>3. ASSUME NEW r \in Sockets, ReceiveTask(r)
      PROVE  /\ pc' = pc /\ sender' = sender
             /\ receiver'[s] # receiver[s] => receiver[s] = "running"
  BY <1>3 DEF ReceiveTask, RecvHeartbeat, RecvMessage, RecvReceipt,
     RecvPresence, RecvTyping, RecvClose, Receiving, taskVars, TypeOK
<1>4. ASSUME ~\E r \in Sockets : Handler(r) \/ SendTask(r) \/ ReceiveTask(r)
      PROVE  UNCHANGED <<pc, sender, receiver>>
  BY <1>4 DEF Next, Tick, Feed, PresenceExpires, ClientClose, FanStart,
     Visit, SweepStart, SweepShard, taskVars, vars
<1>5. QED BY <1>1, <1>2, <1>3, <1>4 DEF TasksFollow

LEMMA DepartureStep ==
  ASSUME TypeOK, TasksFollow, OnlyLateFramesUndoDeparture, [Next]_vars,
         NEW u \in Users, Departed(u)', u \notin unsaid',
         presence'[u] # None, presence'[u] # "offline"
  PROVE  \E s \in late' : UserOf[s] = u
<1>0. late \subseteq late'
  BY DEF Next, Tick, Feed, PresenceExpires, ClientClose, Handler, Connect,
     Announce, Disconnect, Depart, SendTask, SendNext, SenderEnds,
     ReceiveTask, RecvHeartbeat, RecvMessage, RecvReceipt, RecvPresence,
     RecvTyping, RecvClose, FanStart, Visit, SweepStart, SweepShard, inVars,
     vars
<1>1. ASSUME NEW s \in Sockets, Depart(s), UserOf[s] = u
      PROVE  FALSE
  BY <1>1, SocketAssumption DEF Depart, WritePresence, TypeOK
<1>2. ASSUME NEW s \in Sockets, RecvPresence(s), UserOf[s] = u
      PROVE  s \in late'
  <2>1. receiver[s] = "running" /\ pc' = pc
    BY <1>2 DEF RecvPresence, Receiving, taskVars
  <2>2. pc[s] = "done"
    BY <1>2, <2>1 DEF Departed, TasksFollow
  <2>3. QED BY <1>2, <2>2 DEF RecvPresence
<1>3. ASSUME NEW s \in Sockets, Announce(s), UserOf[s] = u
      PROVE  FALSE
  BY <1>3 DEF Announce, Departed, TypeOK
\* The other steps leave this user's presence, and let nobody of it finish.
<1>4. ASSUME ~\E s \in Sockets : /\ UserOf[s] = u
                                 /\ Depart(s) \/ RecvPresence(s) \/ Announce(s)
      PROVE  /\ presence'[u] = presence[u]
             /\ u \in unsaid' <=> u \in unsaid
             /\ \A s \in Sockets : UserOf[s] = u =>
                   /\ pc'[s] = "done" => pc[s] = "done"
                   /\ pc'[s] = "new" => pc[s] = "new"
  <2>1. ASSUME NEW v \in Users, PresenceExpires(v)
        PROVE  presence'[u] = presence[u] /\ unsaid' = unsaid /\ pc' = pc
    BY <2>1 DEF PresenceExpires, TypeOK, taskVars
  <2>2. ASSUME NEW r \in Sockets, Connect(r) \/ Disconnect(r)
        PROVE  /\ presence' = presence /\ unsaid' = unsaid
               /\ \A s \in Sockets :
                     /\ pc'[s] = "done" => pc[s] = "done"
                     /\ pc'[s] = "new" => pc[s] = "new"
    <3>1. UNCHANGED redisVars
      BY <2>2 DEF Connect, Disconnect
    <3>2. \/ pc' = [pc EXCEPT ![r] = "announce"]
          \/ \E v \in {"stuck", "depart"} : pc' = [pc EXCEPT ![r] = v]
      BY <2>2 DEF Connect, Disconnect
    <3>3. pc \in [Sockets -> {"new", "announce", "serving", "depart", "stuck",
                             "done"}]
      BY DEF TypeOK
    <3>4. QED BY <3>1, <3>2, <3>3 DEF redisVars
  <2>3. ASSUME NEW r \in Sockets, Announce(r) \/ Depart(r) \/ RecvPresence(r)
        PROVE  /\ presence'[u] = presence[u]
               /\ u \in unsaid' <=> u \in unsaid
               /\ \A s \in Sockets : UserOf[s] = u => pc'[s] = pc[s]
    <3>1. UserOf[r] # u
      BY <1>4, <2>3
    <3>2. PICK status : WritePresence(r, status)
      BY <2>3 DEF Announce, Depart, RecvPresence
    <3>3. presence'[u] = presence[u]
      BY <3>1, <3>2 DEF WritePresence, TypeOK
    <3>4. u \in unsaid' <=> u \in unsaid
      BY <3>1, <3>2 DEF WritePresence
    <3>5. QED
      BY <2>3, <3>1, <3>3, <3>4 DEF Announce, Depart, RecvPresence, Receiving,
                              taskVars, TypeOK
  <2>4. ASSUME ~\E v \in Users : PresenceExpires(v),
               ~\E r \in Sockets :
                   \/ Connect(r) \/ Disconnect(r) \/ Announce(r)
                   \/ Depart(r) \/ RecvPresence(r)
        PROVE  UNCHANGED <<presence, unsaid, pc>>
    BY <2>4 DEF Next, Tick, Feed, ClientClose, Handler, SendTask, SendNext,
       SenderEnds, ReceiveTask, RecvHeartbeat, RecvMessage, RecvReceipt,
       RecvTyping, RecvClose, Receiving, FanStart, Visit, SweepStart,
       SweepShard, taskVars, redisVars, vars
  <2>5. QED BY <2>1, <2>2, <2>3, <2>4
<1>5. QED
  BY <1>0, <1>1, <1>2, <1>3, <1>4 DEF Departed, OnlyLateFramesUndoDeparture

\* The presence a user leaves behind is the last handler's "offline", however
\* the devices of the user, which share one key, came and went, and whichever
\* writes were lost before; only a receive task that outlived its handler can
\* have put something else there, unless the last write is lost.
THEOREM DepartureLasts == Spec => []OnlyLateFramesUndoDeparture
<1>1. Init => OnlyLateFramesUndoDeparture
  BY DEF Init, OnlyLateFramesUndoDeparture
<1>2. TypeOK /\ TasksFollow /\ OnlyLateFramesUndoDeparture /\ [Next]_vars
         => OnlyLateFramesUndoDeparture'
  BY DepartureStep DEF OnlyLateFramesUndoDeparture
<1>3. QED
  BY <1>1, <1>2, TypeInit, TypeNext, TasksInit, TasksNext, PTL DEF Spec

----------------------------------------------------------------------------
(* The fan-out.                                                            *)

\* Without its next item, or the queue, a channel is what is left of it.
Thinned(new, old) ==
  \E f \in [1 .. Len(new) -> 1 .. Len(old)] :
     /\ \A i \in 1 .. Len(new) : new[i] = old[f[i]]
     /\ \A i, j \in 1 .. Len(new) : i < j => f[i] < f[j]

LEMMA ConcatItems ==
  ASSUME NEW S, NEW q \in Seq(S), NEW r \in Seq(S)
  PROVE  /\ \A i \in 1 .. Len(q) : (q \o r)[i] = q[i]
         /\ \A i \in 1 .. Len(r) : (q \o r)[Len(q) + i] = r[i]
OBVIOUS

LEMMA CutThins ==
  ASSUME NEW S, NEW q \in Seq(S), NEW r \in Seq(S), r # <<>>
  PROVE  Thinned(q \o Tail(r), q \o r) /\ Thinned(q \o <<>>, q \o r)
<1>1. /\ Len(q) \in Nat /\ Len(r) \in Nat /\ Tail(r) \in Seq(S)
      /\ Len(q \o r) = Len(q) + Len(r)
      /\ Len(Tail(r)) = Len(r) - 1 /\ Len(r) >= 1
      /\ Len(q \o Tail(r)) = Len(q) + Len(r) - 1
  <2>1. /\ Tail(r) \in Seq(S) /\ Len(Tail(r)) = Len(r) - 1
        /\ Len(r) \in Nat /\ Len(Tail(r)) \in Nat
    OBVIOUS
  <2>2. Len(q \o Tail(r)) = Len(q) + Len(Tail(r))
    BY <2>1, ConcatLength
  <2>3. QED BY <2>1, <2>2, ConcatLength
<1>2. Thinned(q \o Tail(r), q \o r)
  <2> DEFINE n == Len(q) + Len(r) - 1
             f == [i \in 1 .. n |-> IF i =< Len(q) THEN i ELSE i + 1]
  <2>1. f \in [1 .. n -> 1 .. Len(q) + Len(r)]
    BY <1>1
  <2>2. ASSUME NEW i \in 1 .. n
        PROVE  (q \o Tail(r))[i] = (q \o r)[f[i]]
    <3>1. CASE i =< Len(q)
      BY <1>1, <2>2, <3>1, ConcatItems
    <3>2. CASE ~(i =< Len(q))
      <4>1. PICK j \in 1 .. Len(r) - 1 : i = Len(q) + j
        <5>1. i - Len(q) \in 1 .. Len(r) - 1 /\ i = Len(q) + (i - Len(q))
          BY <1>1, <3>2
        <5>2. QED BY <5>1
      <4>2. (q \o Tail(r))[Len(q) + j] = Tail(r)[j]
        BY <1>1, <4>1, ConcatItems
      <4>3. Tail(r)[j] = r[j + 1]
        BY <1>1, <4>1
      <4>4. j + 1 \in 1 .. Len(r)
        BY <1>1, <4>1
      <4>5. (q \o r)[Len(q) + (j + 1)] = r[j + 1]
        BY <4>4, ConcatItems
      <4>6. f[i] = Len(q) + (j + 1)
        BY <1>1, <3>2, <4>1
      <4>7. QED BY <4>1, <4>2, <4>3, <4>5, <4>6
    <3>3. QED BY <3>1, <3>2
  <2>3. \A i, j \in 1 .. n : i < j => f[i] < f[j]
    BY <1>1
  <2> HIDE DEF f
  <2>4. QED BY <1>1, <2>1, <2>2, <2>3 DEF Thinned
<1>3. Thinned(q \o <<>>, q \o r)
  <2>1. q \o <<>> = q
    OBVIOUS
  <2>2. Thinned(q, q \o r)
    <3> DEFINE f == [i \in 1 .. Len(q) |-> i]
    <3>1. f \in [1 .. Len(q) -> 1 .. Len(q) + Len(r)]
      BY <1>1
    <3>2. \A i \in 1 .. Len(q) : q[i] = (q \o r)[f[i]]
      BY ConcatItems
    <3>3. \A i, j \in 1 .. Len(q) : i < j => f[i] < f[j]
      OBVIOUS
    <3> HIDE DEF f
    <3>4. QED BY <1>1, <3>1, <3>2, <3>3 DEF Thinned
  <2>3. QED BY <2>1, <2>2
<1>4. QED BY <1>2, <1>3

\* What a step leaves in a channel: the same items, fewer, or one more.
LEMMA ChannelEvolves ==
  ASSUME TypeOK, [Next]_vars, NEW s \in Sockets
  PROVE  \/ ChannelSame(s)
         \/ ~open[s] /\ Thinned(Channel(s)', Channel(s))
         \/ ChannelSent(s)
<1>1. ASSUME ChannelCut(s)
      PROVE  ~open[s] /\ Thinned(Channel(s)', Channel(s))
  <2>1. out[s] \in Seq(Items) /\ queue[s] \in Seq(Items) /\ queue[s] # <<>>
    BY <1>1, ChannelTyped DEF ChannelCut
  <2>2. /\ Thinned(out[s] \o Tail(queue[s]), out[s] \o queue[s])
        /\ Thinned(out[s] \o <<>>, out[s] \o queue[s])
    BY <2>1, CutThins
  <2>3. /\ Channel(s) = out[s] \o queue[s]
        /\ \/ Channel(s)' = out[s] \o Tail(queue[s])
           \/ Channel(s)' = out[s] \o <<>>
    BY <1>1 DEF ChannelCut, Channel
  <2>4. ~open[s]
    BY <1>1 DEF ChannelCut
  <2>5. QED BY <2>2, <2>3, <2>4
<1>2. QED BY <1>1, ChannelMoves

\* What is under way: typing of the sockets, and the message the consumer has
\* taken last.
InFlight ==
  /\ \A s \in Sockets : bcast[s] # Idle => bcast[s].item.kind = "typing"
  /\ bcast[Consumer] # Idle =>
        /\ bcast[Consumer].item.kind = "message"
        /\ bcast[Consumer].item.seq = fanned
        /\ fanned \in 1 .. Len(topic)
        /\ bcast[Consumer].item.from = topic[fanned]

\* The steps of the consumer, and all the others.
ConsumerRests ==
  /\ fanned' = fanned /\ bcast'[Consumer] = bcast[Consumer]
  /\ \A n \in 1 .. Len(topic) : n \in 1 .. Len(topic') /\ topic'[n] = topic[n]

LEMMA IdleFact == ASSUME NEW sh \in Shards, NEW it PROVE
  [shard |-> sh, item |-> it] # Idle
BY ShardAssumption DEF Shards, Idle

LEMMA ConsumerSteps ==
  ASSUME TypeOK, [Next]_vars
  PROVE  FanStart \/ Visit(Consumer) \/ ConsumerRests
<1>1. ASSUME NEW u \in Users, Feed(u) PROVE ConsumerRests
  <2>1. topic \in Seq(Users) /\ topic' = Append(topic, u)
        /\ UNCHANGED <<fanned, bcast>>
    BY <1>1 DEF Feed, TypeOK
  <2>2. \A n \in 1 .. Len(topic) :
           n \in 1 .. Len(Append(topic, u)) /\ Append(topic, u)[n] = topic[n]
    BY <2>1
  <2>3. QED BY <2>1, <2>2 DEF ConsumerRests
<1>2. ASSUME NEW s \in Sockets, RecvTyping(s) \/ Visit(s)
      PROVE  ConsumerRests
  <2>1. s # Consumer /\ Consumer \in Broadcasters
    BY SocketAssumption DEF Broadcasters
  <2>2. UNCHANGED <<fanned, topic>>
    BY <1>2 DEF RecvTyping, Receiving, Visit, kafkaVars
  <2>3. bcast'[Consumer] = bcast[Consumer]
    BY <1>2, <2>1 DEF RecvTyping, Visit, TypeOK
  <2>4. QED BY <2>2, <2>3 DEF ConsumerRests
<1>3. ASSUME ~\E u \in Users : Feed(u), ~FanStart,
             ~\E b \in Broadcasters : Visit(b),
             ~\E s \in Sockets : RecvTyping(s)
      PROVE  UNCHANGED <<fanned, topic, bcast>>
  BY <1>3 DEF Next, Tick, PresenceExpires, ClientClose, Handler, Connect,
     Announce, Disconnect, Depart, SendTask, SendNext, SenderEnds,
     ReceiveTask, RecvHeartbeat, RecvMessage, RecvReceipt, RecvPresence,
     RecvClose, Receiving, SweepStart, SweepShard, kafkaVars, vars
<1>4. CASE UNCHANGED <<fanned, topic, bcast>>
  BY <1>4 DEF ConsumerRests
<1>5. QED BY <1>1, <1>2, <1>3, <1>4 DEF Broadcasters

\* The broadcast the consumer starts.
LEMMA FanStarts ==
  ASSUME TypeOK, FanStart
  PROVE  /\ bcast[Consumer] = Idle /\ bcast'[Consumer] # Idle
         /\ bcast'[Consumer].shard = 1
         /\ bcast'[Consumer].item.kind = "message"
         /\ bcast'[Consumer].item.seq = fanned'
         /\ fanned' = fanned + 1 /\ fanned' \in 1 .. Len(topic')
         /\ bcast'[Consumer].item.from = topic'[fanned']
         /\ UNCHANGED <<topic, out, queue, open, sender, registered, joined>>
         /\ \A s \in Sockets : bcast'[s] = bcast[s]
<1> DEFINE it == [kind |-> "message", from |-> topic[fanned + 1],
                  seq |-> fanned + 1]
<1>1. /\ bcast' = [bcast EXCEPT ![Consumer] = [shard |-> 1, item |-> it]]
      /\ UNCHANGED <<topic, out, queue, open, sender, registered, joined>>
      /\ fanned' = fanned + 1 /\ fanned < Len(topic)
      /\ bcast[Consumer] = Idle
  BY DEF FanStart, taskVars, chanVars, mapVars
<1>2. bcast'[Consumer] = [shard |-> 1, item |-> it]
      /\ \A s \in Sockets : bcast'[s] = bcast[s]
  <2> HIDE DEF it
  <2>1. QED BY <1>1, SocketAssumption DEF TypeOK, Broadcasters
<1>3. [shard |-> 1, item |-> it] # Idle
  <2>1. 1 \in Shards
    BY ShardAssumption DEF Shards
  <2> HIDE DEF it
  <2>2. QED BY <2>1, IdleFact
<1>4. fanned \in Nat /\ Len(topic) \in Nat
  BY DEF TypeOK
<1>5. /\ it.kind = "message" /\ it.seq = fanned + 1
      /\ it.from = topic[fanned + 1]
  OBVIOUS
<1>6. bcast'[Consumer].shard = 1 /\ bcast'[Consumer].item = it
  BY <1>2
<1> HIDE DEF it
<1>7. QED BY <1>1, <1>2, <1>3, <1>4, <1>5, <1>6

\* A visit leaves the broadcast with its item and the next shard, or none.
LEMMA VisitMoves ==
  ASSUME TypeOK, NEW b \in Broadcasters, Visit(b)
  PROVE  /\ bcast[b] # Idle /\ bcast[b].shard \in Shards
         /\ bcast[b].item \in Items
         /\ UNCHANGED <<topic, fanned, registered, open, sender, joined>>
         /\ \A a \in Broadcasters \ {b} : bcast'[a] = bcast[a]
         /\ bcast'[b] # Idle =>
               /\ bcast'[b].item = bcast[b].item
               /\ bcast'[b].shard = bcast[b].shard + 1
         /\ bcast'[b] = Idle => bcast[b].shard = NumShards
<1>1. bcast[b] # Idle /\ bcast[b].shard \in Shards /\ bcast[b].item \in Items
  BY DEF Visit, TypeOK
<1> DEFINE next == NextShard(bcast[b].shard)
           moved == IF next = 0 THEN Idle
                    ELSE [shard |-> next, item |-> bcast[b].item]
<1>2. /\ bcast' = [bcast EXCEPT ![b] = moved]
      /\ UNCHANGED <<topic, fanned, registered, open, sender, joined>>
  BY DEF Visit, kafkaVars, mapVars, taskVars
<1>3. bcast'[b] = moved /\ \A a \in Broadcasters \ {b} : bcast'[a] = bcast[a]
  <2> HIDE DEF moved
  <2>1. QED BY <1>2 DEF TypeOK
<1>4. moved # Idle => /\ moved.item = bcast[b].item
                      /\ moved.shard = bcast[b].shard + 1
  <2>1. CASE next = 0
    BY <2>1
  <2>2. CASE next # 0
    <3>1. moved = [shard |-> next, item |-> bcast[b].item]
          /\ next = bcast[b].shard + 1
      BY <2>2 DEF NextShard
    <3>2. moved.shard = next /\ moved.item = bcast[b].item
      BY <3>1
    <3>3. QED BY <3>1, <3>2
  <2>3. QED BY <2>1, <2>2
<1>5. moved = Idle => bcast[b].shard = NumShards
  <2>1. CASE next = 0
    BY <1>1, <2>1, ShardAssumption DEF NextShard, Shards
  <2>2. CASE next # 0
    <3>1. next \in Shards
      BY <1>1, <2>2, ShardAssumption DEF NextShard, Shards
    <3>2. moved = [shard |-> next, item |-> bcast[b].item]
      BY <2>2
    <3> HIDE DEF next, moved
    <3>3. QED BY <3>1, <3>2, IdleFact
  <2>3. QED BY <2>1, <2>2
<1>6. QED
  <2> HIDE DEF moved
  <2>1. QED BY <1>1, <1>2, <1>3, <1>4, <1>5

LEMMA InFlightInit == Init => InFlight
BY DEF Init, InFlight, Broadcasters

LEMMA InFlightNext == TypeOK /\ InFlight /\ [Next]_vars => InFlight'
<1> SUFFICES ASSUME TypeOK, InFlight, [Next]_vars PROVE InFlight'
  OBVIOUS
<1>0. \A s \in Sockets : s \in Broadcasters /\ s # Consumer
      /\ Consumer \in Broadcasters
  BY SocketAssumption DEF Broadcasters
<1>1. ASSUME NEW s \in Sockets, bcast'[s] # Idle
      PROVE  bcast'[s].item.kind = "typing"
  <2>1. ASSUME NEW b \in Broadcasters, Visit(b)
        PROVE  bcast'[s].item.kind = "typing"
    BY <1>0, <1>1, <2>1, VisitMoves DEF InFlight
  <2>2. CASE FanStart
    BY <1>1, <2>2, FanStarts DEF InFlight
  <2>3. ASSUME NEW r \in Sockets, RecvTyping(r)
        PROVE  bcast'[s].item.kind = "typing"
    <3> DEFINE new == [shard |-> 1, item |-> [kind |-> "typing",
                                   from |-> UserOf[r], seq |-> 0]]
    <3>1. bcast' = [bcast EXCEPT ![r] = new] /\ new.item.kind = "typing"
      BY <2>3 DEF RecvTyping
    <3> HIDE DEF new
    <3>2. QED BY <1>0, <1>1, <3>1 DEF InFlight, TypeOK
  <2>4. ASSUME ~\E b \in Broadcasters : Visit(b), ~FanStart,
               ~\E r \in Sockets : RecvTyping(r)
        PROVE  bcast' = bcast
    BY <2>4 DEF Next, Tick, Feed, PresenceExpires, ClientClose, Handler,
       Connect, Announce, Disconnect, Depart, SendTask, SendNext, SenderEnds,
       ReceiveTask, RecvHeartbeat, RecvMessage, RecvReceipt, RecvPresence,
       RecvClose, SweepStart, SweepShard, vars
  <2>5. QED BY <1>1, <2>1, <2>2, <2>3, <2>4 DEF InFlight
<1>2. ASSUME bcast'[Consumer] # Idle
      PROVE  /\ bcast'[Consumer].item.kind = "message"
             /\ bcast'[Consumer].item.seq = fanned'
             /\ fanned' \in 1 .. Len(topic')
             /\ bcast'[Consumer].item.from = topic'[fanned']
  <2>1. CASE FanStart
    BY <2>1, FanStarts
  <2>2. CASE Visit(Consumer)
    BY <1>0, <1>2, <2>2, VisitMoves DEF InFlight, Broadcasters
  <2>3. CASE ConsumerRests
    BY <1>2, <2>3 DEF ConsumerRests, InFlight
  <2>4. QED BY <2>1, <2>2, <2>3, ConsumerSteps
<1>3. QED BY <1>1, <1>2 DEF InFlight

\* What a channel holds is a message the consumer has taken, and an earlier
\* one than that under way where the broadcast has yet to come by.
TakenBefore ==
  \A s \in Sockets : \A i \in Messages(s) :
     /\ Channel(s)[i].seq =< fanned
     /\ (bcast[Consumer] # Idle /\ bcast[Consumer].shard =< Shard(s))
           => Channel(s)[i].seq < fanned

FanInv == InFlight /\ TakenBefore /\ DeliveredInOrder

\* A message that is new in a channel is the one under way, at the end.
Newcomer(s) ==
  /\ Visit(Consumer) /\ Shard(s) = bcast[Consumer].shard
  /\ Channel(s)' = Append(Channel(s), bcast[Consumer].item)

LEMMA MessagesEvolve ==
  ASSUME TypeOK, InFlight, [Next]_vars, NEW s \in Sockets
  PROVE  \/ Thinned(Channel(s)', Channel(s))
         \/ Newcomer(s)
         \/ \E it \in Items : /\ it.kind = "typing"
                              /\ Channel(s)' = Append(Channel(s), it)
<1>1. CASE ChannelSame(s)
  <2> DEFINE f == [i \in 1 .. Len(Channel(s)) |-> i]
  <2>1. Len(Channel(s)) \in Nat
    BY ChannelTyped
  <2>2. /\ f \in [1 .. Len(Channel(s)) -> 1 .. Len(Channel(s))]
        /\ \A i \in 1 .. Len(Channel(s)) : f[i] = i
    OBVIOUS
  <2> HIDE DEF f
  <2>3. Thinned(Channel(s), Channel(s))
    BY <2>1, <2>2 DEF Thinned
  <2>4. QED BY <1>1, <2>3 DEF ChannelSame
<1>2. CASE ChannelSent(s)
  <2>1. PICK b \in Broadcasters :
           /\ Visit(b) /\ s \in Reached(bcast[b].shard, bcast[b].item.from)
           /\ Channel(s)' = Append(Channel(s), bcast[b].item)
    BY <1>2 DEF ChannelSent
  <2>2. bcast[b] # Idle /\ bcast[b].item \in Items
    BY <2>1, VisitMoves
  <2>3. CASE b = Consumer
    BY <2>1, <2>3 DEF Newcomer, Reached
  <2>4. CASE b \in Sockets
    BY <2>1, <2>2, <2>4 DEF InFlight
  <2>5. QED BY <2>3, <2>4 DEF Broadcasters
<1>3. QED BY <1>1, <1>2, ChannelEvolves

\* Indices of what was appended.
LEMMA AppendItems ==
  ASSUME NEW S, NEW q \in Seq(S), NEW e \in S
  PROVE  /\ Len(q) \in Nat /\ Len(Append(q, e)) = Len(q) + 1
         /\ \A i \in 1 .. Len(q) : Append(q, e)[i] = q[i]
         /\ Append(q, e)[Len(q) + 1] = e
OBVIOUS

LEMMA AppendedChannel ==
  ASSUME TypeOK, NEW s \in Sockets, NEW it \in Items,
         Channel(s)' = Append(Channel(s), it)
  PROVE  /\ Len(Channel(s)) \in Nat
         /\ Len(Channel(s)') = Len(Channel(s)) + 1
         /\ \A i \in 1 .. Len(Channel(s)) : Channel(s)'[i] = Channel(s)[i]
         /\ Channel(s)'[Len(Channel(s)) + 1] = it
<1>1. PICK q \in Seq(Items) : q = Channel(s)
  BY ChannelTyped
<1>2. Channel(s)' = Append(q, it)
  BY <1>1
<1>3. /\ Len(q) \in Nat /\ Len(Append(q, it)) = Len(q) + 1
      /\ \A i \in 1 .. Len(q) : Append(q, it)[i] = q[i]
      /\ Append(q, it)[Len(q) + 1] = it
  BY <1>1, AppendItems
<1>4. QED BY <1>1, <1>2, <1>3

\* The numbers of the fan-out.
LEMMA FanNumbers ==
  ASSUME TypeOK
  PROVE  /\ fanned \in Nat
         /\ \A s \in Sockets : /\ Shard(s) \in Nat
                               /\ Shard(s) \in 1 .. NumShards
                               /\ Len(Channel(s)) \in Nat
         /\ \A s \in Sockets : \A i \in 1 .. Len(Channel(s)) :
               Channel(s)[i] \in Items /\ Channel(s)[i].seq \in Nat
         /\ \A b \in Broadcasters : bcast[b] # Idle => bcast[b].shard \in Nat
<1>1. fanned \in Nat
  BY DEF TypeOK
<1>2. \A s \in Sockets : Shard(s) \in 1 .. NumShards /\ Shard(s) \in Nat
  BY ShardAssumption, SocketAssumption DEF Shard
<1>3. ASSUME NEW s \in Sockets
      PROVE  /\ Len(Channel(s)) \in Nat
             /\ \A i \in 1 .. Len(Channel(s)) : Channel(s)[i] \in Items
  <2>1. PICK q \in Seq(Items) : q = Channel(s)
    BY ChannelTyped
  <2>2. Len(q) \in Nat /\ \A i \in 1 .. Len(q) : q[i] \in Items
    BY <2>1
  <2>3. QED BY <2>1, <2>2
<1>4. \A it \in Items : it.seq \in Nat
  BY DEF Items
<1>5. \A b \in Broadcasters : bcast[b] # Idle => bcast[b].shard \in Nat
  BY ShardAssumption DEF TypeOK, Shards
<1>6. QED BY <1>1, <1>2, <1>3, <1>4, <1>5

\* What the consumer's shard and place do to what a channel may hold.
LEMMA BoundMoves ==
  ASSUME TypeOK, InFlight, TakenBefore, [Next]_vars, NEW s \in Sockets,
         NEW i \in Messages(s)
  PROVE  /\ Channel(s)[i].seq =< fanned'
         /\ (bcast'[Consumer] # Idle /\ bcast'[Consumer].shard =< Shard(s))
               => Channel(s)[i].seq < fanned'
<1>1. /\ Channel(s)[i].seq \in Nat /\ fanned \in Nat /\ Shard(s) \in Nat
      /\ Channel(s)[i].seq =< fanned
      /\ (bcast[Consumer] # Idle /\ bcast[Consumer].shard =< Shard(s))
            => Channel(s)[i].seq < fanned
      /\ bcast[Consumer] # Idle => bcast[Consumer].shard \in Nat
  BY FanNumbers DEF TakenBefore, Messages, Broadcasters
<1>2. CASE FanStart
  BY <1>1, <1>2, FanStarts
<1>3. CASE Visit(Consumer)
  BY <1>1, <1>3, VisitMoves DEF Broadcasters
<1>4. CASE ConsumerRests
  BY <1>1, <1>4 DEF ConsumerRests
<1>5. QED BY <1>2, <1>3, <1>4, ConsumerSteps

LEMMA FanStep ==
  ASSUME TypeOK, FanInv, [Next]_vars, NEW s \in Sockets
  PROVE  /\ \A i \in Messages(s)' :
               /\ Channel(s)'[i].seq =< fanned'
               /\ (bcast'[Consumer] # Idle
                     /\ bcast'[Consumer].shard =< Shard(s))
                     => Channel(s)'[i].seq < fanned'
         /\ \A i, j \in Messages(s)' :
               i < j => Channel(s)'[i].seq < Channel(s)'[j].seq
<1> DEFINE new == Channel(s)'
           old == Channel(s)
<1>0. /\ Messages(s) = {i \in 1 .. Len(old) : old[i].kind = "message"}
      /\ Messages(s)' = {i \in 1 .. Len(new) : new[i].kind = "message"}
      /\ \A i, j \in Messages(s) : i < j => old[i].seq < old[j].seq
  BY DEF Messages, FanInv, DeliveredInOrder
<1>1. \A i \in Messages(s) :
         /\ old[i].seq =< fanned'
         /\ (bcast'[Consumer] # Idle /\ bcast'[Consumer].shard =< Shard(s))
               => old[i].seq < fanned'
  BY BoundMoves DEF FanInv
<1>2. CASE Thinned(new, old)
  <2>1. PICK f \in [1 .. Len(new) -> 1 .. Len(old)] :
           /\ \A i \in 1 .. Len(new) : new[i] = old[f[i]]
           /\ \A i, j \in 1 .. Len(new) : i < j => f[i] < f[j]
    BY <1>2 DEF Thinned
  <2>2. \A i \in Messages(s)' :
           /\ i \in 1 .. Len(new) /\ f[i] \in Messages(s)
           /\ new[i] = old[f[i]]
    BY <1>0, <2>1
  <2> HIDE DEF new, old
  <2>3. QED BY <1>0, <1>1, <2>1, <2>2 DEF new, old
<1>3. ASSUME NEW it \in Items, it.kind = "typing", new = Append(old, it)
      PROVE  /\ Messages(s)' = Messages(s)
             /\ \A i \in Messages(s) : new[i] = old[i]
  <2>1. /\ Len(old) \in Nat /\ Len(new) = Len(old) + 1
        /\ \A i \in 1 .. Len(old) : new[i] = old[i]
        /\ new[Len(old) + 1] = it
    BY <1>3, AppendedChannel
  <2>2. \A i \in 1 .. Len(new) : i \in 1 .. Len(old) \/ i = Len(old) + 1
    BY <2>1
  <2> HIDE DEF new, old
  <2>3. QED BY <1>0, <1>3, <2>1, <2>2
<1>4. CASE Newcomer(s)
  <2> DEFINE it == bcast[Consumer].item
  <2>1. Consumer \in Broadcasters /\ Visit(Consumer)
    BY <1>4 DEF Broadcasters, Newcomer
  <2>2. /\ it \in Items /\ it.seq = fanned /\ fanned' = fanned
        /\ bcast[Consumer] # Idle /\ bcast[Consumer].shard = Shard(s)
        /\ bcast[Consumer].shard \in Nat
        /\ bcast'[Consumer] # Idle =>
              bcast'[Consumer].shard = bcast[Consumer].shard + 1
    BY <1>4, <2>1, VisitMoves, FanNumbers DEF FanInv, InFlight, Newcomer
  <2>3. /\ Len(old) \in Nat /\ Len(new) = Len(old) + 1
        /\ \A i \in 1 .. Len(old) : new[i] = old[i]
        /\ new[Len(old) + 1] = it
    BY <1>4, <2>2, AppendedChannel DEF Newcomer
  <2>4. \A i \in Messages(s)' :
           \/ i \in Messages(s) /\ new[i] = old[i] /\ i =< Len(old)
           \/ i = Len(old) + 1 /\ new[i].seq = fanned
    BY <1>0, <2>2, <2>3
  <2>5. \A i \in Messages(s) : old[i].seq < fanned
    BY <2>2, FanNumbers DEF FanInv, TakenBefore
  <2>6. ASSUME NEW i \in Messages(s)'
        PROVE  /\ new[i].seq =< fanned'
               /\ (bcast'[Consumer] # Idle
                     /\ bcast'[Consumer].shard =< Shard(s))
                     => new[i].seq < fanned'
    <3>1. fanned \in Nat /\ Shard(s) \in Nat
      BY FanNumbers
    <3>2. CASE i \in Messages(s) /\ new[i] = old[i]
      BY <1>1, <3>2
    <3>3. CASE new[i].seq = fanned
      BY <2>2, <3>1, <3>3
    <3>4. QED BY <2>4, <3>2, <3>3
  <2>7. ASSUME NEW i \in Messages(s)', NEW j \in Messages(s)', i < j
        PROVE  new[i].seq < new[j].seq
    <3>1. i \in Messages(s) /\ new[i] = old[i]
      <4>1. i \in Nat /\ j \in Nat /\ j =< Len(old) + 1
        BY <1>0, <2>3, <2>4
      <4>2. QED BY <2>3, <2>4, <2>7, <4>1
    <3>2. CASE j \in Messages(s) /\ new[j] = old[j]
      BY <1>0, <2>7, <3>1, <3>2
    <3>3. CASE new[j].seq = fanned
      BY <2>5, <3>1, <3>3
    <3>4. QED BY <2>4, <3>2, <3>3
  <2>8. QED BY <2>6, <2>7
<1>5. ASSUME NEW it \in Items, it.kind = "typing", new = Append(old, it)
      PROVE  /\ \A i \in Messages(s)' :
                   /\ new[i].seq =< fanned'
                   /\ (bcast'[Consumer] # Idle
                         /\ bcast'[Consumer].shard =< Shard(s))
                         => new[i].seq < fanned'
             /\ \A i, j \in Messages(s)' : i < j => new[i].seq < new[j].seq
  <2>1. /\ Messages(s)' = Messages(s)
        /\ \A i \in Messages(s) : new[i] = old[i]
    BY <1>3, <1>5
  <2> HIDE DEF new, old
  <2>2. QED BY <1>0, <1>1, <2>1
<1>6. QED BY <1>2, <1>4, <1>5, MessagesEvolve DEF FanInv

LEMMA FanNext == TypeOK /\ FanInv /\ [Next]_vars => FanInv'
<1>1. TypeOK /\ FanInv /\ [Next]_vars => TakenBefore' /\ DeliveredInOrder'
  BY FanStep DEF TakenBefore, DeliveredInOrder, Shard
<1>2. QED BY <1>1, InFlightNext DEF FanInv

LEMMA FanInit == Init => FanInv
<1>1. Init => \A s \in Sockets : Channel(s) = <<>>
  BY DEF Init, Channel
<1>2. Init => \A s \in Sockets : Messages(s) = {}
  BY <1>1 DEF Messages
<1>3. QED
  BY <1>2, InFlightInit DEF FanInv, TakenBefore, DeliveredInOrder

\* Messages reach a socket in the order of the topic and none twice, although
\* typing broadcasts of other tasks are pushed on the same channel meanwhile.
THEOREM DeliveryOrdered == Spec => []DeliveredInOrder
<1>1. FanInv => DeliveredInOrder
  BY DEF FanInv
<1>2. QED BY <1>1, TypeInit, TypeNext, FanInit, FanNext, PTL DEF Spec

----------------------------------------------------------------------------
(* No gap.                                                                 *)

InChannel(s, n) == \E i \in Messages(s) : Channel(s)[i].seq = n

\* The broadcast under way, if it is of message n, has been past the shard.
PassedBy(s, n) ==
  n = fanned /\ bcast[Consumer] # Idle => Shard(s) < bcast[Consumer].shard

NoGapYet ==
  \A s \in registered : open[s] =>
     /\ sender[s] # "done"
     /\ \A n \in joined[s] + 1 .. fanned :
           topic[n] # UserOf[s] /\ PassedBy(s, n) => InChannel(s, n)

LEMMA NoGapInit == Init => NoGapYet
BY DEF Init, NoGapYet

\* A channel with its client there loses nothing.
LEMMA InChannelStays ==
  ASSUME TypeOK, [Next]_vars, NEW s \in Sockets, open[s], NEW n,
         InChannel(s, n)
  PROVE  InChannel(s, n)'
<1>1. PICK i \in 1 .. Len(Channel(s)) :
         Channel(s)[i].kind = "message" /\ Channel(s)[i].seq = n
  BY DEF InChannel, Messages
<1>2. ChannelSame(s) \/ ChannelSent(s)
  BY ChannelEvolves
<1>3. i \in 1 .. Len(Channel(s)') /\ Channel(s)'[i] = Channel(s)[i]
  <2>1. CASE ChannelSame(s)
    BY <1>1, <2>1 DEF ChannelSame
  <2>2. CASE ChannelSent(s)
    <3>1. PICK it \in Items : Channel(s)' = Append(Channel(s), it)
      BY <2>2, VisitMoves DEF ChannelSent
    <3>2. /\ Len(Channel(s)) \in Nat
          /\ Len(Channel(s)') = Len(Channel(s)) + 1
          /\ \A k \in 1 .. Len(Channel(s)) :
                Channel(s)'[k] = Channel(s)[k]
      BY <3>1, AppendedChannel
    <3>3. QED BY <1>1, <3>2
  <2>3. QED BY <1>2, <2>1, <2>2
<1>4. QED BY <1>1, <1>3 DEF InChannel, Messages

\* Who is registered with its client there was so before, or has just joined.
LEMMA StaysOrJoins ==
  ASSUME TypeOK, TasksFollow, NoGapYet, [Next]_vars, NEW s \in Sockets,
         s \in registered', open'[s]
  PROVE  /\ sender'[s] # "done"
         /\ \/ joined'[s] = fanned' /\ fanned' = fanned
            \/ s \in registered /\ open[s] /\ joined'[s] = joined[s]
<1>1. ASSUME NEW r \in Sockets, Connect(r)
      PROVE  /\ sender'[s] # "done"
             /\ \/ joined'[s] = fanned' /\ fanned' = fanned
                \/ s \in registered /\ open[s] /\ joined'[s] = joined[s]
  <2>1. /\ pc[r] = "new" /\ sender' = sender /\ fanned' = fanned
        /\ open' = [open EXCEPT ![r] = TRUE]
        /\ joined' = [joined EXCEPT ![r] = fanned]
        /\ registered' = registered \cup {r}
    BY <1>1 DEF Connect, kafkaVars
  <2>2. CASE s = r
    BY <2>1, <2>2 DEF TasksFollow, TypeOK
  <2>3. CASE s # r
    BY <2>1, <2>3 DEF NoGapYet, TypeOK
  <2>4. QED BY <2>2, <2>3
<1>2. ASSUME ~\E r \in Sockets : Connect(r)
      PROVE  s \in registered /\ open[s] /\ joined'[s] = joined[s]
  <2>1. ASSUME NEW r \in Sockets, ClientClose(r) \/ Disconnect(r)
        PROVE  s \in registered /\ open[s] /\ joined'[s] = joined[s]
    BY <2>1 DEF ClientClose, Disconnect, chanVars, mapVars, TypeOK
  <2>2. CASE SweepShard
    BY <2>2 DEF SweepShard, chanVars
  <2>3. ASSUME ~\E r \in Sockets : ClientClose(r) \/ Disconnect(r),
               ~SweepShard
        PROVE  UNCHANGED <<registered, open, joined>>
    BY <1>2, <2>3 DEF Next, Tick, Feed, PresenceExpires, Handler, Announce,
       Depart, SendTask, SendNext, SenderEnds, ReceiveTask, RecvHeartbeat,
       RecvMessage, RecvReceipt, RecvPresence, RecvTyping, RecvClose,
       Receiving, FanStart, Visit, SweepStart, mapVars, chanVars, vars
  <2>4. QED BY <2>1, <2>2, <2>3
<1>3. ASSUME ~\E r \in Sockets : Connect(r)
      PROVE  sender'[s] # "done"
  <2>1. s \in registered /\ open[s] /\ sender[s] # "done"
    BY <1>2, <1>3 DEF NoGapYet
  <2>2. ASSUME NEW r \in Sockets, SendTask(r) \/ Announce(r)
        PROVE  sender'[s] # "done"
    BY SMTT(30), <2>1, <2>2
       DEF SendTask, SendNext, SenderEnds, Announce, TypeOK
  <2>3. ASSUME ~\E r \in Sockets : SendTask(r) \/ Announce(r)
        PROVE  sender' = sender
    BY <1>3, <2>3 DEF Next, Tick, Feed, PresenceExpires, ClientClose,
       Handler, Disconnect, Depart, ReceiveTask, RecvHeartbeat, RecvMessage,
       RecvReceipt, RecvPresence, RecvTyping, RecvClose, Receiving, FanStart,
       Visit, SweepStart, SweepShard, taskVars, vars
  <2>4. QED BY <2>1, <2>2, <2>3
<1>4. QED BY <1>1, <1>2, <1>3

LEMMA NoGapNext ==
  TypeOK /\ TasksFollow /\ InFlight /\ NoGapYet /\ [Next]_vars => NoGapYet'
<1> SUFFICES ASSUME TypeOK, TasksFollow, InFlight, NoGapYet, [Next]_vars,
                    NEW s \in registered', open'[s]
             PROVE  /\ sender'[s] # "done"
                    /\ \A n \in joined'[s] + 1 .. fanned' :
                          topic'[n] # UserOf[s] /\ PassedBy(s, n)'
                             => InChannel(s, n)'
  BY DEF NoGapYet
<1>0. s \in Sockets
  <2>1. TypeOK'
    BY TypeNext
  <2>2. QED BY <2>1 DEF TypeOK
<1>1. sender'[s] # "done"
  BY <1>0, StaysOrJoins
<1>2. /\ fanned \in Nat /\ Shard(s) \in Nat /\ joined[s] \in Nat
      /\ fanned =< Len(topic) /\ Len(topic) \in Nat
      /\ bcast[Consumer] # Idle => bcast[Consumer].shard \in Nat
  <2>1. /\ joined \in [Sockets -> Nat] /\ fanned \in 0 .. Len(topic)
        /\ topic \in Seq(Users)
    BY DEF TypeOK
  <2>2. bcast[Consumer] # Idle => bcast[Consumer].shard \in Nat
    <3>1. bcast[Consumer] \in {Idle} \cup [shard : Shards, item : Items]
      BY DEF TypeOK, Broadcasters
    <3>2. QED BY <3>1 DEF Shards
  <2>3. QED BY <1>0, <2>1, <2>2, FanNumbers
<1>3. CASE joined'[s] = fanned' /\ fanned' = fanned
  BY <1>1, <1>2, <1>3
<1>4. CASE s \in registered /\ open[s] /\ joined'[s] = joined[s]
  <2>1. SUFFICES ASSUME NEW n \in joined[s] + 1 .. fanned',
                        topic'[n] # UserOf[s], PassedBy(s, n)'
                 PROVE  InChannel(s, n)'
    BY <1>1, <1>4
  <2>2. ASSUME n \in joined[s] + 1 .. fanned, topic[n] # UserOf[s],
               PassedBy(s, n)
        PROVE  InChannel(s, n)'
    BY <1>0, <1>4, <2>2, InChannelStays DEF NoGapYet
  <2>3. CASE FanStart
    <3>1. n \in joined[s] + 1 .. fanned
      <4>1. n # fanned'
        BY <1>0, <1>2, <2>1, <2>3, FanStarts, FanNumbers
           DEF PassedBy, Shard
      <4>2. QED BY <1>2, <2>1, <2>3, <4>1, FanStarts
    <3>2. PassedBy(s, n) /\ topic[n] = topic'[n]
      BY <2>3, FanStarts DEF PassedBy
    <3>3. QED BY <2>1, <2>2, <3>1, <3>2
  <2>4. CASE ConsumerRests
    <3>1. n \in joined[s] + 1 .. fanned
      BY <2>1, <2>4 DEF ConsumerRests
    <3>2. n \in 1 .. Len(topic)
      BY <1>2, <3>1
    <3>3. PassedBy(s, n) /\ topic[n] = topic'[n]
      BY <2>1, <2>4, <3>2 DEF ConsumerRests, PassedBy, Shard
    <3>4. QED BY <2>1, <2>2, <3>1, <3>3
  <2>5. CASE Visit(Consumer)
    <3>1. /\ Consumer \in Broadcasters /\ fanned' = fanned /\ topic' = topic
          /\ bcast[Consumer] # Idle /\ bcast[Consumer].item \in Items
          /\ bcast'[Consumer] # Idle =>
                bcast'[Consumer].shard = bcast[Consumer].shard + 1
          /\ bcast'[Consumer] = Idle => bcast[Consumer].shard = NumShards
      BY <2>5, VisitMoves DEF Broadcasters
    <3>2. CASE n # fanned
      BY <2>1, <2>2, <3>1, <3>2 DEF PassedBy
    <3>3. CASE n = fanned /\ Shard(s) < bcast[Consumer].shard
      BY <2>1, <2>2, <3>1, <3>3 DEF PassedBy
    <3>4. CASE n = fanned /\ ~(Shard(s) < bcast[Consumer].shard)
      <4>1. Shard(s) = bcast[Consumer].shard
        BY <1>0, <1>2, <2>1, <3>1, <3>4, FanNumbers, ShardAssumption
           DEF PassedBy, Shard
      <4>2. s \in Reached(bcast[Consumer].shard, bcast[Consumer].item.from)
        BY <1>4, <2>1, <3>1, <3>4, <4>1 DEF Reached, InFlight, NoGapYet
      <4>3. Channel(s)' = Append(Channel(s), bcast[Consumer].item)
        BY <1>0, <2>5, <3>1, <4>2, VisitSends
      <4>4. /\ Len(Channel(s)) \in Nat
            /\ Len(Channel(s)') = Len(Channel(s)) + 1
            /\ Channel(s)'[Len(Channel(s)) + 1] = bcast[Consumer].item
        BY <1>0, <3>1, <4>3, AppendedChannel
      <4>5. Len(Channel(s)) + 1 \in 1 .. Len(Channel(s)')
        BY <4>4
      <4>6. QED
        BY <3>1, <3>4, <4>4, <4>5 DEF InChannel, Messages, InFlight
    <3>5. QED BY <3>2, <3>3, <3>4
  <2>6. QED BY <2>3, <2>4, <2>5, ConsumerSteps
<1>5. QED BY <1>0, <1>3, <1>4, StaysOrJoins

\* As long as its entry stays and its client is there, a socket misses no
\* message fanned out after it joined, whatever connects, leaves or is swept
\* while the broadcast walks the shards.
THEOREM NoGap == Spec => []NoGapWhileRegistered
<1>1. TypeOK /\ NoGapYet => NoGapWhileRegistered
  <2> SUFFICES ASSUME TypeOK, NoGapYet, NEW s \in registered, open[s],
                      NEW n \in joined[s] + 1 .. Complete,
                      topic[n] # UserOf[s]
               PROVE  InChannel(s, n)
    BY DEF NoGapWhileRegistered, InChannel
  <2>1. fanned \in Nat /\ joined[s] \in Nat
    BY DEF TypeOK
  <2>2. n \in joined[s] + 1 .. fanned /\ PassedBy(s, n)
    BY <2>1 DEF Complete, PassedBy
  <2>3. QED BY <2>2 DEF NoGapYet
<1>2. QED
  BY <1>1, TypeInit, TypeNext, TasksInit, TasksNext, InFlightInit,
     InFlightNext, NoGapInit, NoGapNext, PTL DEF Spec

----------------------------------------------------------------------------
(* Lost heartbeats.                                                        *)

\* The Vec of a user has an order: of two entries one was pushed later.
Pushed ==
  \A r, s \in registered :
     r # s /\ UserOf[r] = UserOf[s] => r \in ahead[s] \/ s \in ahead[r]

HeardBehind == \A s \in Sockets : heard[s] =< now

\* Steps other than these leave the map and the heartbeats alone.
LEMMA MapRests ==
  ASSUME [Next]_vars, ~SweepShard,
         ~\E r \in Sockets : Connect(r) \/ Disconnect(r) \/ RecvHeartbeat(r)
  PROVE  UNCHANGED <<registered, beat, ahead, heard>>
BY DEF Next, Tick, Feed, PresenceExpires, ClientClose, Handler, Announce,
   Depart, SendTask, SendNext, SenderEnds, ReceiveTask, RecvMessage,
   RecvReceipt, RecvPresence, RecvTyping, RecvClose, FanStart, Visit,
   SweepStart, mapVars, inVars, vars

LEMMA PushedInit == Init => Pushed /\ HeardBehind
BY DEF Init, Pushed, HeardBehind

LEMMA PushedNext == TypeOK /\ Pushed /\ [Next]_vars => Pushed'
<1> SUFFICES ASSUME TypeOK, Pushed, [Next]_vars PROVE Pushed'
  OBVIOUS
<1>1. ASSUME NEW q \in Sockets, Connect(q) PROVE Pushed'
  <2>1. /\ registered' = registered \cup {q}
        /\ ahead' = [ahead EXCEPT ![q] = Entry(UserOf[q])]
    BY <1>1 DEF Connect
  <2>2. ahead'[q] = Entry(UserOf[q])
        /\ \A s \in Sockets \ {q} : ahead'[s] = ahead[s]
    BY <2>1 DEF TypeOK
  <2>3. SUFFICES ASSUME NEW r \in registered', NEW s \in registered', r # s,
                        UserOf[r] = UserOf[s]
                 PROVE  r \in ahead'[s] \/ s \in ahead'[r]
    BY DEF Pushed
  <2>4. r \in Sockets /\ s \in Sockets
    BY <2>1 DEF TypeOK
  <2>5. CASE r = q \/ s = q
    BY <2>1, <2>2, <2>3, <2>5 DEF Entry
  <2>6. CASE r # q /\ s # q
    BY <2>1, <2>2, <2>3, <2>4, <2>6 DEF Pushed
  <2>7. QED BY <2>5, <2>6
<1>2. ASSUME registered' \subseteq registered, UNCHANGED ahead PROVE Pushed'
  BY <1>2 DEF Pushed
<1>3. CASE SweepShard
  BY <1>2, <1>3 DEF SweepShard
<1>4. ASSUME NEW q \in Sockets, Disconnect(q) \/ RecvHeartbeat(q)
      PROVE  Pushed'
  BY <1>2, <1>4 DEF Disconnect, RecvHeartbeat
<1>5. QED BY <1>1, <1>2, <1>3, <1>4, MapRests

LEMMA HeardNext == TypeOK /\ HeardBehind /\ [Next]_vars => HeardBehind'
<1> SUFFICES ASSUME TypeOK, HeardBehind, [Next]_vars, NEW s \in Sockets
             PROVE  heard'[s] =< now'
  BY DEF HeardBehind
<1>1. heard[s] =< now /\ heard[s] \in Nat /\ now \in Nat
  BY DEF HeardBehind, TypeOK
<1>2. CASE Tick
  BY <1>1, <1>2 DEF Tick, inVars
<1>3. ASSUME NEW q \in Sockets, RecvHeartbeat(q) PROVE heard'[s] =< now'
  BY <1>1, <1>3 DEF RecvHeartbeat, Receiving, TypeOK
<1>4. ASSUME ~Tick, ~\E q \in Sockets : RecvHeartbeat(q)
      PROVE  UNCHANGED <<heard, now>>
  BY <1>4 DEF Next, Feed, PresenceExpires, ClientClose, Handler, Connect,
     Announce, Disconnect, Depart, SendTask, SendNext, SenderEnds,
     ReceiveTask, RecvMessage, RecvReceipt, RecvPresence, RecvTyping,
     RecvClose, Receiving, FanStart, Visit, SweepStart, SweepShard, inVars,
     vars
<1>5. QED BY <1>1, <1>2, <1>3, <1>4

\* The oldest connection of a device is the one a heartbeat of it refreshes.
LEMMA FoundIsOldest ==
  ASSUME TypeOK, Pushed, NEW s \in registered, NEW r \in Found(s)
  PROVE  /\ r \in registered /\ UserOf[r] = UserOf[s]
         /\ DeviceOf[r] = DeviceOf[s]
         /\ r = s \/ r \in ahead[s]
<1>1. /\ r \in SameDevice(s) /\ ahead[r] \cap SameDevice(s) = {}
      /\ s \in SameDevice(s)
  BY DEF Found, SameDevice, Entry
<1>2. QED BY <1>1 DEF SameDevice, Entry, Pushed

LEMMA LostStep ==
  TypeOK /\ RegistryMatchesHandlers /\ Pushed /\ HeardBehind
     /\ HeartbeatOnlyLostToOlder /\ [Next]_vars
        => HeartbeatOnlyLostToOlder'
<1> SUFFICES ASSUME TypeOK, RegistryMatchesHandlers, Pushed, HeardBehind,
                    HeartbeatOnlyLostToOlder, [Next]_vars,
                    NEW s \in registered', beat'[s] < heard'[s]
             PROVE  \E r \in ahead'[s] :
                       /\ UserOf[r] = UserOf[s] /\ DeviceOf[r] = DeviceOf[s]
                       /\ pc'[r] \in {"announce", "serving"}
  BY DEF HeartbeatOnlyLostToOlder
<1>0. /\ s \in Sockets /\ registered \subseteq Sockets
      /\ pc \in [Sockets -> {"new", "announce", "serving", "depart", "stuck",
                             "done"}]
      /\ ahead \in [Sockets -> SUBSET Sockets]
      /\ beat[s] \in Nat /\ heard[s] \in Nat /\ now \in Nat
      /\ heard[s] =< now
  <2>1. TypeOK'
    BY TypeNext
  <2>2. s \in Sockets
    BY <2>1 DEF TypeOK
  <2>3. QED BY <2>2 DEF TypeOK, HeardBehind
\* An older connection stays one whose handler is there, unless that handler
\* leaves, and then it takes the newer one along.
<1>a. ASSUME s \in registered, ahead'[s] = ahead[s],
             NEW r \in ahead[s], UserOf[r] = UserOf[s],
             DeviceOf[r] = DeviceOf[s], pc[r] \in {"announce", "serving"}
      PROVE  pc'[r] \in {"announce", "serving"}
  <2>0. r \in Sockets
    BY <1>0, <1>a
  <2>1. ASSUME NEW q \in Sockets, Connect(q)
        PROVE  pc'[r] \in {"announce", "serving"}
    BY <1>0, <1>a, <2>0, <2>1 DEF Connect
  <2>2. ASSUME NEW q \in Sockets, Announce(q)
        PROVE  pc'[r] \in {"announce", "serving"}
    BY <1>0, <1>a, <2>0, <2>2 DEF Announce
  <2>3. ASSUME NEW q \in Sockets, Depart(q)
        PROVE  pc'[r] \in {"announce", "serving"}
    BY <1>0, <1>a, <2>0, <2>3 DEF Depart
  <2>4. ASSUME NEW q \in Sockets, Disconnect(q)
        PROVE  pc'[r] \in {"announce", "serving"}
    <3>1. registered' = registered \ SameDevice(q)
          /\ \A p \in Sockets : p # q => pc'[p] = pc[p]
      BY <1>0, <2>4 DEF Disconnect
    <3>2. q # r
      BY <1>a, <3>1 DEF SameDevice, Entry
    <3>3. QED BY <1>a, <2>0, <3>1, <3>2
  <2>5. ASSUME ~\E q \in Sockets : Handler(q) PROVE pc' = pc
    BY <2>5 DEF Next, Tick, Feed, PresenceExpires, ClientClose, SendTask,
       SendNext, SenderEnds, ReceiveTask, RecvHeartbeat, RecvMessage,
       RecvReceipt, RecvPresence, RecvTyping, RecvClose, Receiving, FanStart,
       Visit, SweepStart, SweepShard, taskVars, vars
  <2>6. QED BY <1>a, <2>1, <2>2, <2>3, <2>4, <2>5 DEF Handler
<1>b. ASSUME s \in registered, beat[s] < heard[s], ahead'[s] = ahead[s]
      PROVE  \E r \in ahead'[s] :
                /\ UserOf[r] = UserOf[s] /\ DeviceOf[r] = DeviceOf[s]
                /\ pc'[r] \in {"announce", "serving"}
  <2>1. PICK r \in ahead[s] :
           /\ UserOf[r] = UserOf[s] /\ DeviceOf[r] = DeviceOf[s]
           /\ pc[r] \in {"announce", "serving"}
    BY <1>b DEF HeartbeatOnlyLostToOlder
  <2>2. pc'[r] \in {"announce", "serving"}
    BY <1>a, <1>b, <2>1
  <2>3. QED BY <1>b, <2>1, <2>2
<1>1. ASSUME NEW q \in Sockets, Connect(q)
      PROVE  s \in registered /\ beat[s] < heard[s] /\ ahead'[s] = ahead[s]
  <2>1. /\ registered' = registered \cup {q}
        /\ beat' = [beat EXCEPT ![q] = now]
        /\ ahead' = [ahead EXCEPT ![q] = Entry(UserOf[q])]
        /\ heard' = heard
    BY <1>1 DEF Connect, inVars
  <2>2. s # q
    BY <1>0, <2>1 DEF TypeOK
  <2>3. QED BY <1>0, <2>1, <2>2 DEF TypeOK
<1>2. ASSUME SweepShard \/ \E q \in Sockets : Disconnect(q)
      PROVE  s \in registered /\ beat[s] < heard[s] /\ ahead'[s] = ahead[s]
  BY <1>2 DEF SweepShard, Disconnect, inVars
<1>3. ASSUME NEW q \in Sockets, RecvHeartbeat(q)
      PROVE  \/ s \in registered /\ beat[s] < heard[s] /\ ahead'[s] = ahead[s]
             \/ \E r \in ahead'[s] :
                   /\ UserOf[r] = UserOf[s] /\ DeviceOf[r] = DeviceOf[s]
                   /\ pc'[r] \in {"announce", "serving"}
  <2>1. /\ UNCHANGED <<registered, ahead, pc>>
        /\ heard' = [heard EXCEPT ![q] = now]
        /\ \/ SameDevice(q) = {} /\ beat' = beat
           \/ \E r \in Found(q) : beat' = [beat EXCEPT ![r] = now]
    BY <1>3 DEF RecvHeartbeat, Receiving, taskVars
  <2>2. CASE s # q
    <3>1. heard'[s] = heard[s]
      BY <1>0, <2>1, <2>2 DEF TypeOK
    <3>2. beat'[s] = beat[s] \/ beat'[s] = now
      BY <1>0, <2>1 DEF TypeOK
    <3>3. QED BY <1>0, <2>1, <3>1, <3>2
  <2>3. CASE s = q
    <3>1. s \in SameDevice(s) /\ heard'[s] = now
      BY <1>0, <2>1, <2>3 DEF SameDevice, Entry, TypeOK
    <3>2. PICK r \in Found(s) : beat' = [beat EXCEPT ![r] = now]
      BY <2>1, <2>3, <3>1
    <3>3. /\ r \in registered /\ UserOf[r] = UserOf[s]
          /\ DeviceOf[r] = DeviceOf[s]
          /\ r = s \/ r \in ahead[s]
      BY <2>1, FoundIsOldest
    <3>4. r # s
      BY <1>0, <3>1, <3>2 DEF TypeOK
    <3>5. pc[r] \in {"announce", "serving"}
      BY <3>3 DEF RegistryMatchesHandlers
    <3>6. QED BY <2>1, <3>3, <3>4, <3>5
  <2>4. QED BY <2>2, <2>3
<1>4. ASSUME ~SweepShard,
             ~\E q \in Sockets :
                 Connect(q) \/ Disconnect(q) \/ RecvHeartbeat(q)
      PROVE  s \in registered /\ beat[s] < heard[s] /\ ahead'[s] = ahead[s]
  BY <1>4, MapRests
<1>5. QED BY <1>b, <1>1, <1>2, <1>3, <1>4

\* A heartbeat is lost on its own connection only to an older one of the same
\* device whose handler has not left.
THEOREM HeartbeatsAccountedFor == Spec => []HeartbeatOnlyLostToOlder
<1>1. Init => HeartbeatOnlyLostToOlder
  BY DEF Init, HeartbeatOnlyLostToOlder
<1>2. QED
  BY <1>1, TypeInit, TypeNext, RegistryInit, RegistryNext, PushedInit,
     PushedNext, HeardNext, LostStep, PTL DEF Spec

----------------------------------------------------------------------------
(* The gateway implements FanOut.                                          *)

\* Nobody joined later than the consumer has come.
JoinedBehind == \A s \in Sockets : joined[s] =< fanned

LEMMA JoinedInit == Init => JoinedBehind
BY DEF Init, JoinedBehind

LEMMA JoinedNext == TypeOK /\ JoinedBehind /\ [Next]_vars => JoinedBehind'
<1> SUFFICES ASSUME TypeOK, JoinedBehind, [Next]_vars, NEW s \in Sockets
             PROVE  joined'[s] =< fanned'
  BY DEF JoinedBehind
<1>1. joined[s] =< fanned /\ joined[s] \in Nat /\ fanned \in Nat
  BY DEF JoinedBehind, TypeOK
<1>2. ASSUME NEW r \in Sockets, Connect(r) PROVE joined'[s] =< fanned'
  BY <1>1, <1>2 DEF Connect, kafkaVars, TypeOK
<1>3. CASE FanStart
  BY <1>1, <1>3 DEF FanStart, chanVars
<1>4. ASSUME ~FanStart, ~\E r \in Sockets : Connect(r)
      PROVE  UNCHANGED <<joined, fanned>>
  BY <1>4 DEF Next, Tick, Feed, PresenceExpires, ClientClose, Handler,
     Announce, Disconnect, Depart, SendTask, SendNext, SenderEnds,
     ReceiveTask, RecvHeartbeat, RecvMessage, RecvReceipt, RecvPresence,
     RecvTyping, RecvClose, Receiving, Visit, SweepStart, SweepShard,
     chanVars, kafkaVars, vars
<1>5. QED BY <1>1, <1>2, <1>3, <1>4

\* What a socket was handed is what its channel holds or has passed on.
LEMMA HandedIs ==
  ASSUME NEW s \in Sockets
  PROVE  \A n : /\ n \in Handed[s] <=> InChannel(s, n)
                /\ n \in Handed'[s] <=> InChannel(s, n)'
BY DEF Handed, InChannel

\* An item at the end of a channel is handed on if it is a message.
LEMMA HandedAppend ==
  ASSUME TypeOK, NEW s \in Sockets, NEW it \in Items,
         Channel(s)' = Append(Channel(s), it)
  PROVE  Handed'[s] = IF it.kind = "message" THEN Handed[s] \cup {it.seq}
                                             ELSE Handed[s]
<1>1. /\ Len(Channel(s)) \in Nat
      /\ Len(Channel(s)') = Len(Channel(s)) + 1
      /\ \A i \in 1 .. Len(Channel(s)) : Channel(s)'[i] = Channel(s)[i]
      /\ Channel(s)'[Len(Channel(s)) + 1] = it
  BY AppendedChannel
<1> DEFINE len == Len(Channel(s))
<1>2. \A i \in 1 .. len + 1 : i \in 1 .. len \/ i = len + 1
  BY <1>1
<1>3. ASSUME NEW n
      PROVE  InChannel(s, n)' <=>
                InChannel(s, n) \/ (it.kind = "message" /\ it.seq = n)
  <2>1. ASSUME InChannel(s, n)'
        PROVE  InChannel(s, n) \/ (it.kind = "message" /\ it.seq = n)
    <3>1. PICK i \in 1 .. Len(Channel(s)') :
             Channel(s)'[i].kind = "message" /\ Channel(s)'[i].seq = n
      BY <2>1 DEF InChannel, Messages
    <3>2. i \in 1 .. len \/ i = len + 1
      BY <1>1, <1>2
    <3>3. QED BY <1>1, <3>1, <3>2 DEF InChannel, Messages
  <2>2. ASSUME InChannel(s, n) PROVE InChannel(s, n)'
    <3>1. PICK i \in 1 .. len :
             Channel(s)[i].kind = "message" /\ Channel(s)[i].seq = n
      BY <2>2 DEF InChannel, Messages
    <3>2. i \in 1 .. Len(Channel(s)')
      BY <1>1
    <3>3. QED BY <1>1, <3>1, <3>2 DEF InChannel, Messages
  <2>3. ASSUME it.kind = "message", it.seq = n PROVE InChannel(s, n)'
    <3>1. len + 1 \in 1 .. Len(Channel(s)')
      BY <1>1
    <3>2. QED BY <1>1, <2>3, <3>1 DEF InChannel, Messages
  <2>4. QED BY <2>1, <2>2, <2>3
<1>4. QED BY <1>3, HandedIs

LEMMA HandedSame ==
  ASSUME NEW s \in Sockets, ChannelSame(s)
  PROVE  Handed'[s] = Handed[s]
<1>1. \A n : InChannel(s, n)' <=> InChannel(s, n)
  BY DEF ChannelSame, InChannel, Messages
<1>2. QED BY <1>1, HandedIs

LEMMA HandedThinned ==
  ASSUME NEW s \in Sockets, Thinned(Channel(s)', Channel(s))
  PROVE  Handed'[s] \subseteq Handed[s]
<1>1. ASSUME NEW n, InChannel(s, n)' PROVE InChannel(s, n)
  <2>1. PICK i \in 1 .. Len(Channel(s)') :
           Channel(s)'[i].kind = "message" /\ Channel(s)'[i].seq = n
    BY <1>1 DEF InChannel, Messages
  <2>2. PICK f \in [1 .. Len(Channel(s)') -> 1 .. Len(Channel(s))] :
           \A k \in 1 .. Len(Channel(s)') : Channel(s)'[k] = Channel(s)[f[k]]
    BY DEF Thinned
  <2>3. f[i] \in 1 .. Len(Channel(s)) /\ Channel(s)'[i] = Channel(s)[f[i]]
    BY <2>1, <2>2
  <2>4. QED BY <2>1, <2>3 DEF InChannel, Messages
<1>2. QED BY <1>1, HandedIs

LEMMA HandedDomain ==
  /\ Handed \in [Sockets -> {Handed[s] : s \in Sockets}]
  /\ Handed' \in [Sockets -> {Handed'[s] : s \in Sockets}]
BY DEF Handed

\* Where a socket is.
LEMMA PlaceIs ==
  ASSUME NEW s \in Sockets
  PROVE  /\ Place[s] = "new" <=> pc[s] = "new"
         /\ Place[s] = "in" <=> pc[s] # "new" /\ s \in registered /\ open[s]
         /\ Place'[s] = "new" <=> pc'[s] = "new"
         /\ Place'[s] = "in" <=>
               pc'[s] # "new" /\ s \in registered' /\ open'[s]
         /\ Place[s] \in {"new", "in", "out"}
         /\ Place'[s] \in {"new", "in", "out"}
<1>1. Place[s] = CASE pc[s] = "new" -> "new"
                   [] pc[s] # "new" /\ s \in registered /\ open[s] -> "in"
                   [] OTHER -> "out"
  BY DEF Place
<1>2. Place'[s] = CASE pc'[s] = "new" -> "new"
                    [] pc'[s] # "new" /\ s \in registered' /\ open'[s] -> "in"
                    [] OTHER -> "out"
  BY DEF Place
<1>3. QED BY <1>1, <1>2

LEMMA PlaceDomain ==
  /\ Place = [s \in Sockets |-> Place[s]]
  /\ Place' = [s \in Sockets |-> Place'[s]]
BY DEF Place

\* The steps that move neither the topic nor a channel and let nobody in: the
\* sockets whose client goes, and those dropped from the map, leave.
LEMMA LeaveStep ==
  ASSUME UNCHANGED <<topic, joined, out, queue>>,
         registered' \subseteq registered,
         \A r \in Sockets : open'[r] => open[r],
         \A r \in Sockets : pc'[r] = "new" <=> pc[r] = "new"
  PROVE  \E gone \in SUBSET Sockets : Promise!Leave(gone)
<1> DEFINE gone == {r \in Sockets : Place[r] = "in" /\ Place'[r] # "in"}
<1>1. Handed' = Handed
  <2>1. \A s \in Sockets : ChannelSame(s)
    BY DEF ChannelSame, Channel
  <2>2. QED BY <2>1, HandedSame DEF Handed
<1>2. ASSUME NEW r \in Sockets
      PROVE  Place'[r] = IF r \in gone THEN "out" ELSE Place[r]
  BY PlaceIs
<1>3. Place' = [r \in Sockets |-> IF r \in gone THEN "out" ELSE Place[r]]
  BY <1>2, PlaceDomain
<1>4. QED BY <1>1, <1>3 DEF Promise!Leave

\* A client that connects joins where the consumer has come.
LEMMA JoinStep ==
  ASSUME TypeOK, NEW s \in Sockets, Connect(s)
  PROVE  Promise!Join(s)
<1>1. /\ pc[s] = "new" /\ pc' = [pc EXCEPT ![s] = "announce"]
      /\ open' = [open EXCEPT ![s] = TRUE]
      /\ registered' = registered \cup {s}
      /\ joined' = [joined EXCEPT ![s] = fanned]
      /\ UNCHANGED <<topic, out, queue>>
  BY DEF Connect, kafkaVars
<1>2. Handed' = Handed
  <2>1. \A r \in Sockets : ChannelSame(r)
    BY <1>1 DEF ChannelSame, Channel
  <2>2. QED BY <2>1, HandedSame DEF Handed
<1>3. ASSUME NEW r \in Sockets
      PROVE  Place'[r] = IF r = s THEN "in" ELSE Place[r]
  <2>1. /\ pc'[r] = IF r = s THEN "announce" ELSE pc[r]
        /\ open'[r] = IF r = s THEN TRUE ELSE open[r]
    BY <1>1 DEF TypeOK
  <2>2. CASE r = s
    <3>1. pc'[r] # "new" /\ r \in registered' /\ open'[r]
      <4>1. pc'[r] = "announce" /\ r \in registered'
        BY <1>1, <2>1, <2>2
      <4>2. open'[r] = TRUE
        BY <2>1, <2>2
      <4>3. QED BY <4>1, <4>2, Zenon
    <3>2. Place'[r] = "in"
      BY <3>1, PlaceIs
    <3>3. QED BY <2>2, <3>2
  <2>3. CASE r # s
    <3>1. /\ pc'[r] = pc[r] /\ open'[r] = open[r]
          /\ r \in registered' <=> r \in registered
      BY <1>1, <2>1, <2>3
    <3>2. /\ Place'[r] = "new" <=> Place[r] = "new"
          /\ Place'[r] = "in" <=> Place[r] = "in"
      BY <3>1, PlaceIs
    <3>3. QED BY <2>3, <3>2, PlaceIs
  <2>4. QED BY <2>2, <2>3
<1>4. Place[s] = "new"
  BY <1>1, PlaceIs
<1>5. Place' = [Place EXCEPT ![s] = "in"]
  BY <1>3, PlaceDomain
<1>6. fanned \in 0 .. Len(topic)
  BY DEF TypeOK
<1>7. QED BY <1>1, <1>2, <1>4, <1>5, <1>6 DEF Promise!Join

\* What does not move the handlers, the map or the clients moves no socket.
LEMMA PlaceSame ==
  ASSUME UNCHANGED <<pc, registered, open>> PROVE Place' = Place
BY DEF Place

LEMMA SendStep ==
  ASSUME TypeOK, TasksFollow, NEW s \in Sockets, SendNext(s)
  PROVE  Promise!Lose(s) \/ UNCHANGED <<topic, Place, joined, Handed>>
<1>1. /\ UNCHANGED <<topic, joined, pc, registered, open>>
      /\ sender[s] = "running"
  BY DEF SendNext, kafkaVars, mapVars
<1>2. Place' = Place
  BY <1>1, PlaceSame
<1>3. \A r \in Sockets \ {s} : Handed'[r] = Handed[r]
  BY SendMoves, HandedSame
<1>4. CASE ChannelSame(s)
  <2>1. \A r \in Sockets : Handed'[r] = Handed[r]
    BY <1>3, <1>4, HandedSame
  <2>2. Handed' = Handed
    BY <2>1 DEF Handed
  <2>3. QED BY <1>1, <1>2, <2>2
<1>5. CASE ChannelCut(s)
  <2>1. Place[s] = "out"
    <3>1. ~open[s] /\ pc[s] # "new"
      BY <1>1, <1>5 DEF ChannelCut, TasksFollow
    <3>2. QED BY <3>1, PlaceIs
  <2>2. Handed'[s] \subseteq Handed[s]
    <3>1. out[s] \in Seq(Items) /\ queue[s] \in Seq(Items) /\ queue[s] # <<>>
      BY <1>5, ChannelTyped DEF ChannelCut
    <3>2. /\ Thinned(out[s] \o Tail(queue[s]), out[s] \o queue[s])
          /\ Thinned(out[s] \o <<>>, out[s] \o queue[s])
      BY <3>1, CutThins
    <3>3. Thinned(Channel(s)', Channel(s))
      BY <1>5, <3>2 DEF ChannelCut, Channel
    <3>4. QED BY <3>3, HandedThinned
  <2> DEFINE lost == Handed[s] \ Handed'[s]
  <2>3. Handed[s] \ lost = Handed'[s]
    BY <2>2
  <2>4. Handed' = [Handed EXCEPT ![s] = Handed[s] \ lost]
    BY <1>3, <2>3 DEF Handed
  <2>5. lost \in SUBSET Handed[s]
    OBVIOUS
  <2>6. QED BY <1>1, <1>2, <2>1, <2>4, <2>5 DEF Promise!Lose
<1>6. QED BY <1>4, <1>5, SendMoves

\* The broadcast of a message is handed to whom it reaches in the shard; that
\* of a typing indicator is not a step of the promise.
LEMMA VisitStep ==
  ASSUME TypeOK, RegistryMatchesHandlers, InFlight, TakenBefore, NoGapYet,
         JoinedBehind, NEW b \in Broadcasters, Visit(b)
  PROVE  \/ \E n \in 1 .. Len(topic), to \in SUBSET Sockets :
               Promise!Deliver(n, to)
         \/ UNCHANGED <<topic, Place, joined, Handed>>
<1> DEFINE it == bcast[b].item
           to == Reached(bcast[b].shard, it.from)
<1>1. /\ UNCHANGED <<topic, joined, pc, registered, open>>
      /\ bcast[b] # Idle /\ it \in Items
  <2>1. pc' = pc
    BY DEF Visit, taskVars
  <2>2. QED BY <2>1, VisitMoves
<1>2. Place' = Place
  BY <1>1, PlaceSame
<1>3. ASSUME NEW s \in Sockets
      PROVE  Handed'[s] = IF s \in to /\ it.kind = "message"
                            THEN Handed[s] \cup {it.seq} ELSE Handed[s]
  <2>1. IF s \in to THEN Channel(s)' = Append(Channel(s), it)
                    ELSE ChannelSame(s)
    BY VisitSends
  <2> HIDE DEF to, it
  <2>2. QED BY <1>1, <2>1, HandedAppend, HandedSame
<1>4. CASE b \in Sockets
  <2>1. it.kind = "typing"
    BY <1>1, <1>4 DEF InFlight
  <2> HIDE DEF it, to
  <2>2. \A s \in Sockets : Handed'[s] = Handed[s]
    BY <1>3, <2>1
  <2>3. Handed' = Handed
    BY <2>2 DEF Handed
  <2>4. QED BY <1>1, <1>2, <2>3
<1>5. CASE b = Consumer
  <2>1. /\ it.kind = "message" /\ it.seq = fanned
        /\ fanned \in 1 .. Len(topic) /\ it.from = topic[fanned]
    BY <1>1, <1>5 DEF InFlight
  <2>2. to \in SUBSET Sockets
    BY DEF Reached, TypeOK
  <2>3. Handed' = [s \in Sockets |-> IF s \in to THEN Handed[s] \cup {fanned}
                                                 ELSE Handed[s]]
    <3> HIDE DEF it, to
    <3>1. \A s \in Sockets : Handed'[s] = IF s \in to
                                THEN Handed[s] \cup {fanned} ELSE Handed[s]
      BY <1>3, <2>1
    <3>2. QED BY <3>1 DEF Handed
  <2>4. ASSUME NEW s \in to PROVE Promise!Due(s, fanned)
    <3>1. /\ s \in registered /\ s \in Sockets
          /\ Shard(s) = bcast[Consumer].shard
          /\ UserOf[s] # topic[fanned]
      BY <1>5, <2>1, <2>2 DEF Reached
    <3>2. Place[s] # "new"
      BY <3>1, PlaceIs DEF RegistryMatchesHandlers
    <3>3. joined[s] =< fanned
      BY <3>1 DEF JoinedBehind
    <3>4. ASSUME NEW k \in Handed[s] PROVE k < fanned
      <4>1. PICK i \in Messages(s) : Channel(s)[i].seq = k
        BY <3>1, HandedIs DEF InChannel
      <4>2. bcast[Consumer].shard =< Shard(s)
        BY <3>1, FanNumbers
      <4>3. QED BY <1>1, <1>5, <3>1, <4>1, <4>2 DEF TakenBefore
    <3>5. ASSUME Place[s] = "in", NEW k \in joined[s] + 1 .. fanned - 1,
                 topic[k] # UserOf[s]
          PROVE  k \in Handed[s]
      <4>1. open[s]
        BY <3>1, <3>5, PlaceIs
      <4>2. joined[s] \in Nat /\ fanned \in Nat
        BY <3>1, FanNumbers DEF TypeOK
      <4>3. k \in joined[s] + 1 .. fanned /\ k # fanned
        BY <4>2
      <4>4. InChannel(s, k)
        BY <3>1, <3>5, <4>1, <4>3 DEF NoGapYet, PassedBy
      <4>5. QED BY <3>1, <4>4, HandedIs
    <3>6. QED BY <3>1, <3>2, <3>3, <3>4, <3>5 DEF Promise!Due
  <2>5. Promise!Deliver(fanned, to)
    <3> HIDE DEF to
    <3>1. QED BY <1>1, <1>2, <2>3, <2>4 DEF Promise!Deliver
  <2>6. QED BY <2>1, <2>2, <2>5
<1>6. QED BY <1>4, <1>5 DEF Broadcasters

LEMMA PromiseStep ==
  TypeOK /\ RegistryMatchesHandlers /\ TasksFollow /\ InFlight /\ TakenBefore
     /\ NoGapYet /\ JoinedBehind /\ [Next]_vars
        => [Promise!Next]_(Promise!fanOut)
<1> SUFFICES ASSUME TypeOK, RegistryMatchesHandlers, TasksFollow, InFlight,
                    TakenBefore, NoGapYet, JoinedBehind, [Next]_vars
             PROVE  \/ Promise!Next
                    \/ UNCHANGED <<topic, Place, joined, Handed>>
  BY DEF Promise!fanOut
<1>1. ASSUME NEW u \in Users, Feed(u) PROVE Promise!Post(u)
  <2>1. /\ topic' = Append(topic, u)
        /\ UNCHANGED <<joined, pc, registered, open, out, queue>>
    BY <1>1 DEF Feed, taskVars, chanVars, mapVars
  <2>2. \A s \in Sockets : ChannelSame(s)
    BY <2>1 DEF ChannelSame, Channel
  <2>3. Handed' = Handed
    BY <2>2, HandedSame DEF Handed
  <2>4. QED BY <2>1, <2>3, PlaceSame DEF Promise!Post
<1>2. ASSUME NEW s \in Sockets, Connect(s) PROVE Promise!Join(s)
  BY <1>2, JoinStep
<1>3. ASSUME NEW s \in Sockets, SendNext(s)
      PROVE  Promise!Lose(s) \/ UNCHANGED <<topic, Place, joined, Handed>>
  BY <1>3, SendStep
<1>4. ASSUME NEW b \in Broadcasters, Visit(b)
      PROVE  \/ \E n \in 1 .. Len(topic), to \in SUBSET Sockets :
                   Promise!Deliver(n, to)
             \/ UNCHANGED <<topic, Place, joined, Handed>>
  BY <1>4, VisitStep
<1>5. ASSUME ~\E u \in Users : Feed(u),
             ~\E s \in Sockets : Connect(s) \/ SendNext(s),
             ~\E b \in Broadcasters : Visit(b)
      PROVE  \E gone \in SUBSET Sockets : Promise!Leave(gone)
  <2>1. UNCHANGED <<topic, joined, out, queue>>
    BY <1>5 DEF Next, Tick, PresenceExpires, ClientClose, Handler, Announce,
       Disconnect, Depart, SendTask, SenderEnds, ReceiveTask, RecvHeartbeat,
       RecvMessage, RecvReceipt, RecvPresence, RecvTyping, RecvClose,
       Receiving, FanStart, SweepStart, SweepShard, chanVars, kafkaVars, vars
  <2>2. registered' \subseteq registered
    BY <1>5 DEF Next, Tick, PresenceExpires, ClientClose, Handler, Announce,
       Disconnect, Depart, SendTask, SenderEnds, ReceiveTask, RecvHeartbeat,
       RecvMessage, RecvReceipt, RecvPresence, RecvTyping, RecvClose,
       FanStart, SweepStart, SweepShard, mapVars, vars
  <2>3. ASSUME NEW r \in Sockets PROVE open'[r] => open[r]
    <3>1. ASSUME NEW s \in Sockets, ClientClose(s) PROVE open'[r] => open[r]
      BY <3>1 DEF ClientClose, TypeOK
    <3>2. ASSUME ~\E s \in Sockets : ClientClose(s) PROVE open' = open
      BY <1>5, <3>2 DEF Next, Tick, PresenceExpires, Handler, Announce,
         Disconnect, Depart, SendTask, SenderEnds, ReceiveTask, RecvHeartbeat,
         RecvMessage, RecvReceipt, RecvPresence, RecvTyping, RecvClose,
         Receiving, FanStart, SweepStart, SweepShard, vars
    <3>3. QED BY <3>1, <3>2
  <2>4. ASSUME NEW r \in Sockets PROVE pc'[r] = "new" <=> pc[r] = "new"
    <3>1. ASSUME NEW s \in Sockets, Announce(s) \/ Disconnect(s) \/ Depart(s)
          PROVE  pc'[r] = "new" <=> pc[r] = "new"
      BY <3>1 DEF Announce, Disconnect, Depart, TypeOK
    <3>2. ASSUME ~\E s \in Sockets :
                     Announce(s) \/ Disconnect(s) \/ Depart(s)
          PROVE  pc' = pc
      BY <1>5, <3>2 DEF Next, Tick, PresenceExpires, ClientClose, Handler,
         SendTask, SenderEnds, ReceiveTask, RecvHeartbeat, RecvMessage,
         RecvReceipt, RecvPresence, RecvTyping, RecvClose, Receiving,
         FanStart, SweepStart, SweepShard, taskVars, vars
    <3>3. QED BY <3>1, <3>2
  <2>5. QED BY <2>1, <2>2, <2>3, <2>4, LeaveStep
<1>6. QED BY <1>1, <1>2, <1>3, <1>4, <1>5 DEF Promise!Next

LEMMA PromiseInit == Init => Promise!Init
<1> SUFFICES ASSUME Init PROVE Promise!Init
  OBVIOUS
<1>1. \A s \in Sockets : Messages(s) = {}
  BY DEF Init, Channel, Messages
<1>2. Handed = [s \in Sockets |-> {}]
  BY <1>1 DEF Handed
<1>3. Place = [s \in Sockets |-> "new"]
  BY DEF Init, Place
<1>4. QED BY <1>2, <1>3 DEF Init, Promise!Init

\* The gateway implements FanOut: every step of any instance, whatever else
\* runs between the visits of a broadcast, hands a message in order and without
\* a gap, lets sockets in or out, loses what is no longer wanted, or stutters.
THEOREM FanOutKept == Spec => KeepsFanOut
<1>1. FanInv => InFlight /\ TakenBefore
  BY DEF FanInv
<1>2. QED
  BY <1>1, TypeInit, TypeNext, RegistryInit, RegistryNext, TasksInit,
     TasksNext, FanInit, FanNext, NoGapInit, NoGapNext, JoinedInit,
     JoinedNext, PromiseInit, PromiseStep, PTL
     DEF Spec, KeepsFanOut, Promise!Spec
=============================================================================

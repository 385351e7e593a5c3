------------------------- MODULE GatewayProperties -------------------------
(* What the gateway promises: invariants, action properties, liveness.     *)
EXTENDS Gateway

----------------------------------------------------------------------------
(* Safety.                                                                 *)

\* An entry of the map always belongs to a handler that has not cleaned up:
\* no path out of handle_socket leaves its own connection behind, whoever
\* else (the sweep, a newer socket of the device) removed it first.
RegistryMatchesHandlers ==
    \A s \in registered : pc[s] \in {"announce", "serving"}

\* A shard is locked for good exactly by the handler that emptied an entry
\* of it, and that entry is empty.
LockHolderIsStuck ==
    \A sh \in Shards, s \in Sockets :
       lock[sh] = s <=> (pc[s] = "stuck" /\ Shard(s) = sh)

StuckEntryIsEmpty ==
    \A s \in Sockets : pc[s] = "stuck" => Entry(UserOf[s]) = {}

WedgeShape == LockHolderIsStuck /\ StuckEntryIsEmpty

Channel(s) == out[s] \o queue[s]

\* Messages reach a socket in the order of the topic and none twice, although
\* typing broadcasts of other tasks are pushed on the same channel meanwhile.
Messages(s) == {i \in 1 .. Len(Channel(s)) : Channel(s)[i].kind = "message"}
DeliveredInOrder ==
    \A s \in Sockets : \A i, j \in Messages(s) :
       i < j => Channel(s)[i].seq < Channel(s)[j].seq

\* The messages whose fan-out is complete.
Complete == IF bcast[Consumer] = Idle THEN fanned ELSE fanned - 1

\* As long as its entry stays and its client is there, a socket misses no
\* message fanned out after it joined, whatever connects, leaves or is swept
\* while the broadcast walks the shards.
NoGapWhileRegistered ==
    \A s \in registered : open[s] =>
       \A n \in joined[s] + 1 .. Complete :
          topic[n] # UserOf[s] =>
             \E i \in Messages(s) : Channel(s)[i].seq = n

\* A user's handlers have all finished.
Departed(u) ==
    /\ \E s \in Sockets : UserOf[s] = u /\ pc[s] = "done"
    /\ \A s \in Sockets : UserOf[s] = u => pc[s] \in {"new", "done"}

\* The presence a user leaves behind is the last handler's "offline", however
\* the devices of the user, which share one key, came and went; only a receive
\* task that outlived its handler can have put something else there, unless
\* the last thing Redis was given for the user is lost.
OnlyLateFramesUndoDeparture ==
    \A u \in Users :
       Departed(u) /\ presence[u] # None /\ presence[u] # "offline"
          => u \in unsaid \/ \E s \in late : UserOf[s] = u

\* A heartbeat is lost on its own connection only to an older one of the same
\* device whose handler has not left: when that one leaves it takes the newer
\* connection along, and when there is none the connection itself is refreshed.
HeartbeatOnlyLostToOlder ==
    \A s \in registered : beat[s] < heard[s] =>
       \E r \in ahead[s] :
          /\ UserOf[r] = UserOf[s] /\ DeviceOf[r] = DeviceOf[s]
          /\ pc[r] \in {"announce", "serving"}

----------------------------------------------------------------------------
(* Action properties.                                                      *)

\* An entry goes only because it was stale when the sweep came by, or because
\* a handler of the same user and device is leaving.
RemovalJustified ==
    [][\A s \in registered \ registered' :
          \/ sweep'.shard # sweep.shard /\ beat[s] + Timeout =< now
          \/ \E r \in Sockets :
                /\ pc[r] = "serving" /\ pc'[r] # "serving"
                /\ UserOf[r] = UserOf[s] /\ DeviceOf[r] = DeviceOf[s]]_vars

\* Once a shard is locked nothing in it moves again: it is never unlocked, no
\* user of it gets in, is refreshed or leaves, and its sockets are sent
\* nothing.
LockedShardIsFrozen ==
    [][\A sh \in Shards : lock[sh] # None =>
          /\ lock'[sh] = lock[sh]
          /\ \A s \in Sockets : Shard(s) = sh =>
                /\ s \in registered' <=> s \in registered
                /\ beat'[s] = beat[s]
                /\ Len(Channel(s)') =< Len(Channel(s))]_vars

----------------------------------------------------------------------------
(* What the gateway implements.                                            *)

Place ==
    [s \in Sockets |->
       CASE pc[s] = "new" -> "new"
         [] pc[s] # "new" /\ s \in registered /\ open[s] -> "in"
         [] OTHER -> "out"]

Handed == [s \in Sockets |-> {Channel(s)[i].seq : i \in Messages(s)}]

\* Shards visited one after the other, a lock each, channels, send tasks and
\* typing in between: all of it together is the promise of FanOut, in which a
\* message goes to any number of sockets at a time.
Promise == INSTANCE FanOut WITH
    place <- Place, since <- joined, handed <- Handed
KeepsFanOut == Promise!Spec

----------------------------------------------------------------------------
(* Liveness, under FairSpec.                                               *)

\* A socket whose receive task ended is torn down completely: its handler
\* finishes and its send task drains and ends, unless a shard is locked, its
\* own or another, which takes the threads that tasks need.
SocketTornDown ==
    \A s \in Sockets :
       receiver[s] = "done" ~>
          (pc[s] = "done" /\ sender[s] = "done") \/ Wedged

\* Every message of the topic is offered to all shards, unless one is locked.
FanOutCompletes ==
    \A n \in 1 .. MaxTopic : n =< Len(topic) ~> (n =< Complete \/ Wedged)

\* An entry that has gone stale is swept or refreshed, unless a shard is
\* locked: the sweep walks the shards in order and waits at a locked one.
StaleEntrySwept ==
    \A s \in Sockets :
       (s \in registered /\ beat[s] + Timeout =< now) ~>
          (s \notin registered \/ now < beat[s] + Timeout \/ Wedged)

\* "Cleanup on disconnect ... Update presence to offline": a handler whose
\* receive task has ended finishes.
DisconnectCompletes ==
    \A s \in Sockets : receiver[s] = "done" ~> pc[s] = "done"
=============================================================================

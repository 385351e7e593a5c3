------------------------------- MODULE FanOut -------------------------------
(***************************************************************************)
(* What a gateway promises of the topic it fans out, whatever its shards,  *)
(* locks, channels and tasks do: a connected socket is handed the messages *)
(* of other users in the order of the topic, none twice and none missing   *)
(* from the place in the topic where it joined.  What it was handed may be *)
(* lost only when it is no longer connected.                               *)
(***************************************************************************)
EXTENDS Naturals, Sequences

CONSTANTS Users, Sockets, UserOf

VARIABLES
    topic,     \* the senders of the messages, in order
    place,     \* where a socket is: "new", "in" or "out"
    since,     \* how much of the topic was taken when it joined
    handed     \* the places in the topic of the messages it was handed

fanOut == <<topic, place, since, handed>>

Init ==
    /\ topic = <<>>
    /\ place = [s \in Sockets |-> "new"]
    /\ since = [s \in Sockets |-> 0]
    /\ handed = [s \in Sockets |-> {}]

Post(u) ==
    /\ topic' = Append(topic, u)
    /\ UNCHANGED <<place, since, handed>>

Join(s) ==
    /\ place[s] = "new"
    /\ place' = [place EXCEPT ![s] = "in"]
    /\ \E n \in 0 .. Len(topic) : since' = [since EXCEPT ![s] = n]
    /\ UNCHANGED <<topic, handed>>

\* A client goes, a handler drops the connections of its device, or a sweep
\* the stale ones of a shard.
Leave(gone) ==
    /\ \A s \in gone : place[s] = "in"
    /\ place' = [s \in Sockets |-> IF s \in gone THEN "out" ELSE place[s]]
    /\ UNCHANGED <<topic, since, handed>>

\* Message n may be handed to s: it is another user's, it comes after all that
\* s has, and a connected socket has everything before it.  The message whose
\* fan-out was under way when s joined, at since, may still come by.
Due(s, n) ==
    /\ place[s] # "new"
    /\ topic[n] # UserOf[s]
    /\ since[s] =< n
    /\ \A k \in handed[s] : k < n
    /\ place[s] = "in" =>
          \A k \in since[s] + 1 .. n - 1 :
             topic[k] # UserOf[s] => k \in handed[s]

Deliver(n, to) ==
    /\ \A s \in to : Due(s, n)
    /\ handed' = [s \in Sockets |-> IF s \in to THEN handed[s] \cup {n}
                                               ELSE handed[s]]
    /\ UNCHANGED <<topic, place, since>>

Lose(s) ==
    /\ place[s] = "out"
    /\ \E lost \in SUBSET handed[s] :
          handed' = [handed EXCEPT ![s] = @ \ lost]
    /\ UNCHANGED <<topic, place, since>>

Next ==
    \/ \E u \in Users : Post(u)
    \/ \E s \in Sockets : Join(s) \/ Lose(s)
    \/ \E gone \in SUBSET Sockets : Leave(gone)
    \/ \E n \in 1 .. Len(topic), to \in SUBSET Sockets : Deliver(n, to)

Spec == Init /\ [][Next]_fanOut
=============================================================================

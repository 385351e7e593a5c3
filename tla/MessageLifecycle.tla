-------------------------- MODULE MessageLifecycle --------------------------
(***************************************************************************)
(* What the messaging service promises about a message, whatever fails in  *)
(* between: it is announced to an audience only after it was sent, stored, *)
(* and given a delivery record for every member of that audience; and      *)
(* nothing of that is ever taken back.                                     *)
(***************************************************************************)
CONSTANTS Messages, Users

VARIABLES
    sent,       \* messages the service was given
    stored,     \* messages in the database
    tracked,    \* pairs of a message and a user with a delivery record
    announced   \* pairs of a message and the audience it was announced to

lifecycle == <<sent, stored, tracked, announced>>

Init ==
    /\ sent = {} /\ stored = {} /\ tracked = {} /\ announced = {}

Send(m) ==
    /\ sent' = sent \cup {m}
    /\ UNCHANGED <<stored, tracked, announced>>

Store(m) ==
    /\ m \in sent
    /\ stored' = stored \cup {m}
    /\ UNCHANGED <<sent, tracked, announced>>

Track(m, u) ==
    /\ m \in stored
    /\ tracked' = tracked \cup {<<m, u>>}
    /\ UNCHANGED <<sent, stored, announced>>

Announce(m, audience) ==
    /\ m \in stored
    /\ \A u \in audience : <<m, u>> \in tracked
    /\ announced' = announced \cup {<<m, audience>>}
    /\ UNCHANGED <<sent, stored, tracked>>

Next ==
    \E m \in Messages :
       \/ Send(m)
       \/ Store(m)
       \/ \E u \in Users : Track(m, u)
       \/ \E audience \in SUBSET Users : Announce(m, audience)

Spec == Init /\ [][Next]_lifecycle
=============================================================================

----------------------------- MODULE MCPresence -----------------------------
(* Small instances of the presence service for TLC: one user whose first   *)
(* two calls come from one device and the third from another.              *)
EXTENDS PresenceProperties, TLC

CONSTANTS alice, d1, d2, c1, c2, c3

OneUser == [x \in Calls |-> alice]
TwoDevices == [x \in Calls |-> IF x = c3 THEN d2 ELSE d1]
Busy == [x \in Calls |-> IF x = c1 THEN "away" ELSE "busy"]
ReaderOfUser == [x \in Readers |-> alice]
WatcherOfUser == [x \in Watchers |-> alice]
MCStatuses == {"online", "offline", "away", "busy"}
=============================================================================

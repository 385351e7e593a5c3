----------------------------- MODULE MCServices -----------------------------
(* Small instances of the services for TLC.                                *)
EXTENDS Services, TLC

CONSTANTS mia, max

----------------------------------------------------------------------------
(* Moderation: ann reports bob for spam twice; carl reports a group that   *)
(* does not exist; two moderators look at the first report.                *)

MCFilings == {"a1", "a2", "c1"}
MCReviews == {"v1", "v2"}
MCReporterOf == "a1" :> "ann" @@ "a2" :> "ann" @@ "c1" :> "carl"
MCTargetOf == [f \in MCFilings |-> "bob"]
MCTypeOf == "a1" :> "User" @@ "a2" :> "User" @@ "c1" :> "Group"
MCReasonOf == [f \in MCFilings |-> "Spam"]
MCExisting == {<<"User", "bob">>}
MCReviewerOf == "v1" :> mia @@ "v2" :> max
MCSubjectOf == [v \in MCReviews |-> "a1"]
MCAskedOf == "v1" :> Resolve @@ "v2" :> "Resolved"

----------------------------------------------------------------------------
(* Sessions: two registrations that clash in the email; three logins from  *)
(* one phone, two by name and one by email.                                *)

MCRegistrations == {"r1", "r2"}
MCLogins == {"l1", "l2", "l3"}
MCNameOf == "r1" :> "ann" @@ "r2" :> "anna"
MCEmailOf == [r \in MCRegistrations |-> "a@x"]
MCIdentOf == "l1" :> "ann" @@ "l2" :> "ann" @@ "l3" :> "a@x"
MCDeviceOf == "r1" :> "d1" @@ "r2" :> "d2" @@ [l \in MCLogins |-> "phone"]

----------------------------------------------------------------------------
(* Presence: two updates of one device, a reader and a watcher; every      *)
(* store may fail.                                                         *)

MCStatuses == {"online", "offline", "away", "busy"}
MCCalls == {"c1", "c2"}
MCCallUser == [c \in MCCalls |-> "alice"]
MCCallDevice == [c \in MCCalls |-> "d1"]
MCCallStatus == "c1" :> "away" @@ "c2" :> "busy"
MCReaderUser == [r \in Readers |-> "alice"]
MCWatcherUser == [w \in Watchers |-> "alice"]
=============================================================================

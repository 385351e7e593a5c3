------------------------------ MODULE Services ------------------------------
(* The services that do not meet: each behaviour is one of a single        *)
(* service, chosen at the start, so that one run explores all of them and  *)
(* their state spaces add up.                                              *)
EXTENDS Moderation, Sessions, SessionKeys, Presence

CONSTANT Chosen     \* the services to choose from

VARIABLE service

\* The tables, requests, rows and keys of all of them are well typed.
ServicesTypeOK == ModTypeOK /\ AuthTypeOK /\ KeysTypeOK /\ PresenceTypeOK

ServicesInit ==
    /\ service \in Chosen
    /\ ModInit /\ AuthInit /\ KeysInit /\ PresenceInit
    /\ service # "moderation" => moderators = {}

ServicesNext ==
    /\ \/ /\ service = "moderation"
          /\ ModNext
          /\ UNCHANGED <<authVars, keysVars, presenceVars>>
       \/ /\ service = "auth"
          /\ AuthNext
          /\ UNCHANGED <<modVars, keysVars, presenceVars>>
       \/ /\ service = "keys"
          /\ KeysNext
          /\ UNCHANGED <<modVars, authVars, presenceVars>>
       \/ /\ service = "presence"
          /\ PresenceNext
          /\ UNCHANGED <<modVars, authVars, keysVars>>
    /\ UNCHANGED service

ServicesSpec ==
    /\ ServicesInit
    /\ [][ServicesNext]_<<service, modVars, authVars, keysVars,
                          presenceVars>>
=============================================================================

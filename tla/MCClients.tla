----------------------------- MODULE MCClients -----------------------------
(* The way to the clients, and the clients: each behaviour is one of a     *)
(* single part, chosen at the start.  In its initial state a part has no   *)
(* step that fairness asks for, so the fairness of the parts that were not *)
(* chosen demands nothing.                                                 *)
EXTENDS ChatPage, SdkClient, Platform, TLC

VARIABLE part

page == pageVars
sdk == sdkVars
ways == <<given, kept, receipted, told, feed, reader, turns, begun, reached,
          settled, running, holding, socket, listed, leaving, wedged, stuck,
          fallen, moves, opened, got, fanned, dropped, skipped>>

----------------------------------------------------------------------------
\* Two handlers of messages; the list of the presence handlers is empty.
MCHandledKind == "f" :> "message" @@ "g" :> "message"

\* Ann writes one message for Bob, which may be announced again; Bob connects.
MCAuthorOf == [m \in Mails |-> "ann"]
MCTalkOf == [m \in Mails |-> "talk"]
MCAudiences == {{"bob"}}

----------------------------------------------------------------------------
Init ==
    /\ part \in {"page", "sdk", "platform"}
    /\ PageInit /\ SdkInit /\ PlatformInit
    /\ part # "page" => chat = <<>>

Next ==
    /\ \/ part = "page" /\ PageNext /\ UNCHANGED <<sdk, ways>>
       \/ part = "sdk" /\ SdkNext /\ UNCHANGED <<page, ways>>
       \/ part = "platform" /\ PlatformNext /\ UNCHANGED <<page, sdk>>
    /\ UNCHANGED part

Spec ==
    /\ Init /\ [][Next]_<<part, page, sdk, ways>>
    /\ SdkFairness /\ PlatformFairness

ClientsTypeOK == PageTypeOK /\ SdkTypeOK /\ PlatformTypeOK
=============================================================================

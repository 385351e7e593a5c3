----------------------------- MODULE MCGateway -----------------------------
(* Small instances of the gateway for TLC.                                 *)
EXTENDS GatewayProperties, TLC

CONSTANTS u1, u2, d1, d2, s1, s2, s3

\* Two users in two shards; the first has a socket, a reconnection of it on
\* the same device, or a second device, according to the instance.
MCShardOf == (u1 :> 1) @@ (u2 :> 2)
ReconnectUser == [s \in Sockets |-> IF s = s3 THEN u2 ELSE u1]
ReconnectDevice == [s \in Sockets |-> d1]
DevicesUser == [s \in Sockets |-> u1]
\* The first two sockets differ in name only.
SameSockets == Permutations({s1, s2})
DevicesDevice == [s \in Sockets |-> IF s = s3 THEN d2 ELSE d1]
LastShard == [u \in Users |-> NumShards]
MCStatuses == {"online", "offline"}
AllKinds == {"heartbeat", "message", "receipt", "presence", "typing"}
UpkeepKinds == {"heartbeat", "presence"}
=============================================================================

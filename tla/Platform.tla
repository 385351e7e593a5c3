------------------------------ MODULE Platform ------------------------------
(***************************************************************************)
(* From the messaging service to the clients, through several gateways.    *)
(* The messaging service is taken as what it promises, MessageLifecycle,   *)
(* which Processor implements; it may announce a message again.  The       *)
(* gateways share the group "websocket-gateway" on "processed-messages"    *)
(* (start_kafka_consumer of gateway/src/main.rs): a partition, here a      *)
(* conversation, is read by one of them, and what was handed out is        *)
(* committed in the background; where nothing is committed a reader begins *)
(* at the end, as no auto.offset.reset is set.  A client has its messages  *)
(* by its gateway's entry of it, which a sweep or the cleanup of an older  *)
(* socket may take out.  A broadcast is one step, but on a gateway whose   *)
(* map of connections has locked itself; Gateway shows the map, and what a *)
(* socket gets of a broadcast that is still under way.                     *)
(*                                                                         *)
(* An announcement is a conversation and its place in the log of it.       *)
(***************************************************************************)
EXTENDS Naturals, Sequences

CONSTANTS
    Gateways, Clients, Talks,   \* Talks: the conversations
    Listeners,                  \* the clients that connect
    Mails, AuthorOf, TalkOf,    \* messages, who wrote each and where
    Audiences,                  \* the audiences there can be
    Nobody,
    MaxPlaces, MaxTurns, MaxCrashed, MaxMoves

ASSUME PlatformAssumption ==
    /\ AuthorOf \in [Mails -> Clients]
    /\ TalkOf \in [Mails -> Talks]
    /\ Audiences \subseteq SUBSET Clients /\ Listeners \subseteq Clients
    /\ Nobody \notin Gateways
    /\ MaxPlaces \in Nat /\ MaxTurns \in Nat
    /\ MaxCrashed \in Nat /\ MaxMoves \in Nat

VARIABLES
    \* --- the messaging service ---
    given, kept, receipted, told,
    \* --- Kafka: "processed-messages" and its group ---
    feed,       \* the announcements of a conversation: mail and audience
    reader,     \* the gateway a partition is assigned to
    turns,      \* how often it was assigned
    begun,      \* where its reader began
    reached,    \* what its reader has taken
    settled,    \* the committed offset
    \* --- the gateways and their sockets ---
    running,
    holding,    \* what a gateway has taken and not yet broadcast
    socket,     \* the gateway a client is connected to
    listed,     \* the clients whose socket is in the map of its gateway
    leaving,    \* how many older sockets' handlers have yet to clean up
    wedged,     \* gateways whose map has locked itself
    stuck,      \* those of them whose consumer task has met the lock
    fallen, moves,  \* crashes and connections so far
    \* --- history ---
    got,        \* what each client was sent
    fanned,     \* which gateway broadcast what
    dropped,    \* what a gateway held as it crashed
    skipped,    \* what a reader began behind, nothing being committed
    opened      \* length of the logs as a client connected

lifeVars == <<given, kept, receipted, told>>
partVars == <<reader, turns, begun, reached, settled>>
sockVars == <<socket, listed, leaving, moves, opened>>
lockVars == <<wedged, stuck>>
gateVars == <<running, holding, fallen, sockVars, lockVars>>
doneVars == <<got, fanned, dropped, skipped>>
platformVars == <<lifeVars, feed, partVars, gateVars, doneVars>>

Life == INSTANCE MessageLifecycle WITH
    Messages <- Mails, Users <- Clients, sent <- given, stored <- kept,
    tracked <- receipted, announced <- told

Places == 1 .. MaxPlaces
Spots == Talks \X Places
Hold == [talk : Talks, place : Places, turn : 1 .. MaxTurns]

ASSUME HoldAssumption == Nobody \notin Hold

PlatformTypeOK ==
    /\ given \subseteq Mails /\ kept \subseteq Mails
    /\ receipted \subseteq Mails \X Clients
    /\ told \subseteq Mails \X Audiences
    /\ \A t \in Talks : feed[t] \in Seq(told)
    /\ reader \in [Talks -> Gateways \cup {Nobody}]
    /\ turns \in [Talks -> 0 .. MaxTurns]
    /\ begun \in [Talks -> 0 .. MaxPlaces]
    /\ \A t \in Talks : reached[t] \in 0 .. Len(feed[t])
    /\ settled \in [Talks -> 0 .. MaxPlaces]
    /\ running \subseteq Gateways
    /\ holding \in [Gateways -> Hold \cup {Nobody}]
    /\ socket \in [Clients -> running \cup {Nobody}]
    /\ listed \subseteq {c \in Clients : socket[c] # Nobody}
    /\ leaving \in [Clients \X Gateways -> Nat]
    /\ wedged \subseteq Gateways
    /\ stuck \subseteq {g \in wedged : holding[g] # Nobody}
    /\ fallen \in 0 .. MaxCrashed /\ moves \in 0 .. MaxMoves
    /\ \A c \in Clients : got[c] \in Seq(Hold)
    /\ fanned \subseteq Spots \X Gateways
    /\ dropped \subseteq Spots /\ skipped \subseteq Spots
    /\ opened \in [Clients -> [Talks -> 0 .. MaxPlaces]]

PlatformInit ==
    /\ Life!Init
    /\ feed = [t \in Talks |-> <<>>]
    /\ reader = [t \in Talks |-> Nobody]
    /\ turns = [t \in Talks |-> 0]
    /\ begun = [t \in Talks |-> 0]
    /\ reached = [t \in Talks |-> 0] /\ settled = [t \in Talks |-> 0]
    /\ running = {} /\ holding = [g \in Gateways |-> Nobody]
    /\ socket = [c \in Clients |-> Nobody]
    /\ listed = {} /\ leaving = [x \in Clients \X Gateways |-> 0]
    /\ wedged = {} /\ stuck = {}
    /\ fallen = 0 /\ moves = 0
    /\ got = [c \in Clients |-> <<>>]
    /\ fanned = {} /\ dropped = {} /\ skipped = {}
    /\ opened = [c \in Clients |-> [t \in Talks |-> 0]]

----------------------------------------------------------------------------
(* The messaging service.                                                  *)

Process(m) ==
    /\ \/ Life!Send(m) \/ Life!Store(m)
       \/ \E c \in UNION Audiences : Life!Track(m, c)
    /\ UNCHANGED <<feed, partVars, gateVars, doneVars>>

Announce(m, audience) ==
    /\ Len(feed[TalkOf[m]]) < MaxPlaces
    /\ Life!Announce(m, audience)
    /\ feed' = [feed EXCEPT ![TalkOf[m]] = Append(@, <<m, audience>>)]
    /\ UNCHANGED <<partVars, gateVars, doneVars>>

----------------------------------------------------------------------------
(* The consumer group.                                                     *)

\* Where a reader begins: at what is committed, or else at the end.
Beginning(t) == IF settled[t] = 0 THEN Len(feed[t]) ELSE settled[t]

Assign(t, g) ==
    /\ reader[t] = Nobody /\ g \in running /\ turns[t] < MaxTurns
    /\ reader' = [reader EXCEPT ![t] = g]
    /\ turns' = [turns EXCEPT ![t] = @ + 1]
    /\ begun' = [begun EXCEPT ![t] = Beginning(t)]
    /\ reached' = [reached EXCEPT ![t] = Beginning(t)]
    /\ skipped' = skipped \cup
          {<<t, n>> : n \in reached[t] + 1 .. Beginning(t)}
    /\ UNCHANGED <<lifeVars, feed, settled, gateVars, got, fanned, dropped>>

\* Slip: the place after the next one is committed.
BugToCommit(t) == IF reached[t] < Len(feed[t]) THEN reached[t] + 1
                                               ELSE reached[t]

\* Nothing is committed of an assignment that has given nothing yet.
ToCommit(t) == IF reached[t] = begun[t] THEN settled[t] ELSE reached[t]

CommitTaken(t) ==
    /\ reader[t] # Nobody /\ settled[t] # ToCommit(t)
    /\ settled' = [settled EXCEPT ![t] = ToCommit(t)]
    /\ UNCHANGED <<lifeVars, feed, reader, turns, begun, reached, gateVars,
                   doneVars>>

\* The partition leaves its reader, which may still be broadcasting from it.
Reassign(t) ==
    /\ reader[t] # Nobody
    /\ reader' = [reader EXCEPT ![t] = Nobody]
    /\ \/ settled' = [settled EXCEPT ![t] = ToCommit(t)]
       \/ UNCHANGED settled
    /\ UNCHANGED <<lifeVars, feed, turns, begun, reached, gateVars,
                   doneVars>>

----------------------------------------------------------------------------
(* A gateway.                                                              *)

TakeNext(g, t) ==
    /\ reader[t] = g /\ holding[g] = Nobody /\ reached[t] < Len(feed[t])
    /\ reached' = [reached EXCEPT ![t] = @ + 1]
    /\ holding' = [holding EXCEPT ![g] =
          [talk |-> t, place |-> reached[t] + 1, turn |-> turns[t]]]
    /\ UNCHANGED <<lifeVars, feed, reader, turns, begun, settled, running,
                   fallen, sockVars, lockVars, doneVars>>

\* broadcast_message: the sockets in the map of this gateway, members or
\* not, except those of the sender.
Reached(g) ==
    LET h == holding[g]
        m == feed[h.talk][h.place][1]
    IN  {c \in listed : socket[c] = g /\ c # AuthorOf[m]}

Given(clients, h) == [c \in Clients |->
    IF c \in clients THEN Append(got[c], h) ELSE got[c]]

\* Slip: what reached someone is kept, to be tried for the others again.
BugAfterwards(g) == IF Reached(g) = {} THEN Nobody ELSE holding[g]

\* What the consumer task has in hand once it has broadcast.
Afterwards(g) == Nobody

\* Slip: a message waits for someone to be there.
BugReady(g) == holding[g] # Nobody /\ Reached(g) # {}

Ready(g) == holding[g] # Nobody

Broadcast(g) ==
    /\ Ready(g) /\ g \notin wedged
    /\ got' = Given(Reached(g), holding[g])
    /\ fanned' = fanned \cup
          {<<<<holding[g].talk, holding[g].place>>, g>>}
    /\ holding' = [holding EXCEPT ![g] = Afterwards(g)]
    /\ UNCHANGED <<lifeVars, feed, partVars, running, fallen, sockVars,
                   lockVars, dropped, skipped>>

\* The walk over a map that has locked itself serves some shards and waits
\* at the locked one for good.
Falter(g) ==
    /\ Ready(g) /\ g \in wedged \ stuck
    /\ \E served \in SUBSET Reached(g) : got' = Given(served, holding[g])
    /\ stuck' = stuck \cup {g}
    /\ UNCHANGED <<lifeVars, feed, partVars, running, holding, fallen,
                   sockVars, wedged, fanned, dropped, skipped>>

Start(g) ==
    /\ g \notin running
    /\ running' = running \cup {g}
    /\ UNCHANGED <<lifeVars, feed, partVars, holding, fallen, sockVars,
                   lockVars, doneVars>>

\* The process ends with its sockets; nothing more is committed.
CrashGateway(g) ==
    /\ g \in running /\ fallen < MaxCrashed
    /\ fallen' = fallen + 1
    /\ running' = running \ {g}
    /\ socket' = [c \in Clients |-> IF socket[c] = g THEN Nobody
                                                     ELSE socket[c]]
    /\ listed' = {c \in listed : socket[c] # g}
    /\ leaving' = [x \in Clients \X Gateways |->
          IF x[2] = g THEN 0 ELSE leaving[x]]
    /\ wedged' = wedged \ {g} /\ stuck' = stuck \ {g}
    /\ reader' = [t \in Talks |-> IF reader[t] = g THEN Nobody ELSE reader[t]]
    /\ dropped' = IF holding[g] = Nobody THEN dropped ELSE
          dropped \cup {<<holding[g].talk, holding[g].place>>}
    /\ holding' = [holding EXCEPT ![g] = Nobody]
    /\ UNCHANGED <<lifeVars, feed, turns, begun, reached, settled, moves,
                   opened, got, fanned, skipped>>

\* A client connects to some gateway, which enters it in its map; one whose
\* map has locked itself may wait there instead.
Attach(c, g) ==
    /\ g \in running /\ socket[c] = Nobody /\ moves < MaxMoves
    /\ moves' = moves + 1
    /\ socket' = [socket EXCEPT ![c] = g]
    /\ \/ listed' = listed \cup {c}
       \/ g \in wedged /\ UNCHANGED listed
    /\ opened' = [opened EXCEPT ![c] = [t \in Talks |-> Len(feed[t])]]
    /\ UNCHANGED <<lifeVars, feed, partVars, running, holding, fallen,
                   leaving, lockVars, doneVars>>

\* The connection of a client ends; the handler of it has yet to notice.
Detach(c) ==
    /\ socket[c] # Nobody
    /\ socket' = [socket EXCEPT ![c] = Nobody]
    /\ listed' = listed \ {c}
    /\ leaving' = [leaving EXCEPT ![<<c, socket[c]>>] = @ + 1]
    /\ UNCHANGED <<lifeVars, feed, partVars, running, holding, fallen, moves,
                   opened, lockVars, doneVars>>

\* The handler of an older socket takes every entry of the device out, the
\* present socket's too, and may lock the map on a list it emptied.
Cleanup(c, g) ==
    /\ leaving[<<c, g>>] > 0
    /\ leaving' = [leaving EXCEPT ![<<c, g>>] = @ - 1]
    /\ listed' = {d \in listed : d # c \/ socket[c] # g}
    /\ wedged' \in {wedged, wedged \cup {g}}
    /\ UNCHANGED <<lifeVars, feed, partVars, running, holding, fallen, socket,
                   moves, opened, stuck, doneVars>>

\* cleanup_stale_connections finds an old heartbeat in a client's entry.
Sweep(c) ==
    /\ c \in listed
    /\ listed' = listed \ {c}
    /\ UNCHANGED <<lifeVars, feed, partVars, running, holding, fallen, socket,
                   leaving, moves, opened, lockVars, doneVars>>

----------------------------------------------------------------------------
PlatformNext ==
    \/ \E m \in Mails :
          Process(m) \/ \E audience \in Audiences : Announce(m, audience)
    \/ \E t \in Talks :
          \/ CommitTaken(t) \/ Reassign(t)
          \/ \E g \in Gateways : Assign(t, g) \/ TakeNext(g, t)
    \/ \E g \in Gateways :
          \/ Broadcast(g) \/ Falter(g) \/ Start(g) \/ CrashGateway(g)
    \/ \E c \in Listeners :
          \/ Detach(c) \/ Sweep(c)
          \/ \E g \in Gateways : Attach(c, g) \/ Cleanup(c, g)

\* The consumer task of a gateway goes on while no lock is in its way, and
\* the coordinator assigns a partition.  Nothing promises that a gateway is
\* started again.
Consume(g) ==
    /\ g \notin wedged
    /\ Broadcast(g) \/ \E t \in Talks : TakeNext(g, t)

PlatformFairness ==
    /\ \A g \in Gateways : WF_platformVars(Consume(g))
    /\ \A t \in Talks : WF_platformVars(\E g \in Gateways : Assign(t, g))

PlatformSpec == PlatformInit /\ [][PlatformNext]_platformVars
                             /\ PlatformFairness

----------------------------------------------------------------------------
Held(t, n) == \E g \in Gateways :
    holding[g] # Nobody /\ holding[g].talk = t /\ holding[g].place = n

\* A member of the audience who has been in the map of one gateway since
\* before a message was announced, and did not write it, has it once its
\* place is committed, unless another gateway has it or broadcast it instead,
\* one waits with it at a lock, some gateway crashed with it, or a reader
\* began behind it while nothing was committed.  What anyone has is stored,
\* and has a delivery record for each member of its audience.
MissedOnlyElsewhere ==
    /\ \A c \in listed, t \in Talks :
       \A n \in opened[c][t] + 1 .. settled[t] :
          LET mail == feed[t][n][1] IN
          (c \in feed[t][n][2] /\ c # AuthorOf[mail])
             => \/ \E k \in DOMAIN got[c] :
                      got[c][k].talk = t /\ got[c][k].place = n
                \/ Held(t, n) \/ <<t, n>> \in dropped \cup skipped
                \/ \E g \in Gateways \ {socket[c]} :
                      <<<<t, n>>, g>> \in fanned
    /\ \A c \in Clients : \A k \in DOMAIN got[c] :
          LET said == feed[got[c][k].talk][got[c][k].place] IN
          said[1] \in kept /\ {said[1]} \X said[2] \subseteq receipted

\* A client gets the announcements of one assignment in their order and none
\* of them twice, wherever it moves; a place comes again only out of another
\* assignment.
InOrderPerTurn ==
    \A c \in Clients : \A i, j \in DOMAIN got[c] :
       (/\ i < j /\ got[c][i].talk = got[c][j].talk
        /\ got[c][i].turn = got[c][j].turn)
          => got[c][i].place < got[c][j].place

\* Time and again all that was announced has been broadcast by some gateway,
\* except for what was lost with one, what a reader began behind or waits
\* with at a lock, and for a partition that no gateway is left to read or
\* whose reader's map has locked itself.
Unread(t) ==
    \/ reader[t] = Nobody /\ (running = {} \/ turns[t] = MaxTurns)
    \/ reader[t] \in wedged
BroadcastInTheEnd ==
    []<>(\A t \in Talks : Unread(t) \/ \A n \in 1 .. Len(feed[t]) :
           \/ <<t, n>> \in dropped \cup skipped
           \/ \E g \in wedged : holding[g] # Nobody
                 /\ holding[g].talk = t /\ holding[g].place = n
           \/ \E g \in Gateways : <<<<t, n>>, g>> \in fanned)
=============================================================================

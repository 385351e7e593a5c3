--------------------------- MODULE PlatformProofs ---------------------------
(***************************************************************************)
(* Theorems about the way from the messaging service to the clients, for   *)
(* any gateways, clients, conversations, messages and bounds.              *)
(***************************************************************************)
EXTENDS Platform, TLAPS

LEMMA AppendType ==
    ASSUME NEW S, NEW q \in Seq(S), NEW x \in S
    PROVE  /\ Append(q, x) \in Seq(S)
           /\ Len(Append(q, x)) = Len(q) + 1
           /\ Append(q, x)[Len(q) + 1] = x
           /\ \A k \in 1 .. Len(q) : Append(q, x)[k] = q[k]
OBVIOUS

LEMMA SeqWider ==
    ASSUME NEW S, NEW T, S \subseteq T, NEW q \in Seq(S)
    PROVE  q \in Seq(T)
OBVIOUS

----------------------------------------------------------------------------
(* Types, and the numbers beside them.                                     *)

\* A partition that is read was assigned; what is committed was taken, and
\* what was taken is in the log.
Shapes ==
    /\ feed \in [Talks -> Seq(told)]
    /\ reached \in [Talks -> Nat]
    /\ got \in [Clients -> Seq(Hold)]
    /\ \A t \in Talks :
          /\ Len(feed[t]) =< MaxPlaces
          /\ settled[t] =< reached[t]
          /\ reader[t] # Nobody => turns[t] >= 1

TypeInv == PlatformTypeOK /\ Shapes

\* The numbers of a partition.
Numbers(t) ==
    /\ reached[t] \in Nat /\ settled[t] \in Nat /\ turns[t] \in Nat
    /\ Len(feed[t]) \in Nat /\ reached[t] =< Len(feed[t])
    /\ Len(feed[t]) =< MaxPlaces /\ settled[t] =< reached[t]
    /\ turns[t] =< MaxTurns

LEMMA TypeNumbers == TypeInv => \A t \in Talks : Numbers(t)
<1> SUFFICES ASSUME TypeInv, NEW t \in Talks PROVE Numbers(t)
  OBVIOUS
<1>1. feed[t] \in Seq(told) /\ Len(feed[t]) \in Nat
  BY DEF TypeInv, PlatformTypeOK
<1>2. /\ reached[t] \in 0 .. Len(feed[t]) /\ settled[t] \in 0 .. MaxPlaces
      /\ turns[t] \in 0 .. MaxTurns
      /\ Len(feed[t]) =< MaxPlaces /\ settled[t] =< reached[t]
  BY DEF TypeInv, PlatformTypeOK, Shapes
<1> QED  BY <1>1, <1>2, PlatformAssumption DEF Numbers

LEMMA TypeStart == PlatformInit => TypeInv
BY PlatformAssumption
   DEF PlatformInit, TypeInv, PlatformTypeOK, Shapes, Life!Init, Places, Spots

LEMMA ProcessType ==
    ASSUME TypeInv, NEW m \in Mails, Process(m)
    PROVE  TypeInv'
<1>1. UNCHANGED <<told, feed, partVars, gateVars, doneVars>>
  BY DEF Process, Life!Send, Life!Store, Life!Track
<1>2. /\ given' \subseteq Mails /\ kept' \subseteq Mails
      /\ receipted' \subseteq Mails \X Clients
  <2>1. CASE Life!Send(m)
    BY <2>1 DEF Life!Send, TypeInv, PlatformTypeOK
  <2>2. CASE Life!Store(m)
    BY <2>2 DEF Life!Store, TypeInv, PlatformTypeOK
  <2>3. ASSUME NEW c \in UNION Audiences, Life!Track(m, c)
        PROVE  /\ given' \subseteq Mails /\ kept' \subseteq Mails
               /\ receipted' \subseteq Mails \X Clients
    <3>1. c \in Clients
      BY PlatformAssumption
    <3> QED  BY <2>3, <3>1 DEF Life!Track, TypeInv, PlatformTypeOK
  <2> QED  BY <2>1, <2>2, <2>3 DEF Process
<1> QED
  BY <1>1, <1>2
     DEF TypeInv, PlatformTypeOK, Shapes, partVars, gateVars, sockVars,
         lockVars, doneVars

LEMMA AnnounceType ==
    ASSUME TypeInv, NEW m \in Mails, NEW a \in Audiences, Announce(m, a)
    PROVE  TypeInv'
<1> DEFINE x == TalkOf[m]
<1>1. x \in Talks
  BY PlatformAssumption
<1>2. /\ told' = told \cup {<<m, a>>} /\ told' \subseteq Mails \X Audiences
      /\ UNCHANGED <<given, kept, receipted>>
      /\ UNCHANGED <<partVars, gateVars, doneVars>>
      /\ Len(feed[x]) < MaxPlaces
      /\ feed' = [feed EXCEPT ![x] = Append(feed[x], <<m, a>>)]
  BY DEF TypeInv, PlatformTypeOK, Announce, Life!Announce
<1> HIDE DEF x
<1>3. \A t \in Talks : feed[t] \in Seq(told')
  BY <1>2, SeqWider DEF TypeInv, PlatformTypeOK
<1>4. /\ Append(feed[x], <<m, a>>) \in Seq(told')
      /\ Len(Append(feed[x], <<m, a>>)) = Len(feed[x]) + 1
  BY <1>1, <1>2, <1>3, AppendType
<1>5. feed' \in [Talks -> Seq(told')]
  BY <1>2, <1>3, <1>4 DEF TypeInv, Shapes
<1>6. ASSUME NEW t \in Talks
      PROVE  /\ Len(feed[t]) =< Len(feed'[t]) /\ Len(feed'[t]) \in Nat
             /\ Len(feed'[t]) =< MaxPlaces
  <2>1. Len(feed[t]) \in Nat
    BY DEF TypeInv, PlatformTypeOK
  <2>2. feed'[t] = IF t = x THEN Append(feed[x], <<m, a>>) ELSE feed[t]
    BY <1>2 DEF TypeInv, Shapes
  <2> QED
    BY <1>2, <1>4, <2>1, <2>2, PlatformAssumption DEF TypeInv, Shapes
<1>7. \A t \in Talks : reached'[t] \in 0 .. Len(feed'[t])
  <2>1. \A t \in Talks : Len(feed[t]) \in Nat /\ reached' = reached
                         /\ reached[t] \in 0 .. Len(feed[t])
    BY <1>2 DEF TypeInv, PlatformTypeOK, partVars
  <2> QED  BY <1>6, <2>1
<1> QED
  BY <1>2, <1>5, <1>6, <1>7
     DEF TypeInv, PlatformTypeOK, Shapes, partVars, gateVars, sockVars,
         lockVars, doneVars

\* What a step of the coordinator leaves.
GroupShape ==
    /\ settled' \in [Talks -> 0 .. MaxPlaces]
    /\ turns' \in [Talks -> 0 .. MaxTurns]
    /\ reader' \in [Talks -> Gateways \cup {Nobody}]
    /\ begun' \in [Talks -> 0 .. MaxPlaces]
    /\ reached' \in [Talks -> Nat]
    /\ skipped' \subseteq Spots
    /\ \A u \in Talks :
          /\ settled'[u] =< reached'[u] /\ reached'[u] =< Len(feed[u])
          /\ reader'[u] # Nobody => turns'[u] >= 1

LEMMA BeginsWithin ==
    ASSUME TypeInv, NEW t \in Talks
    PROVE  /\ Beginning(t) \in 0 .. Len(feed[t])
           /\ Beginning(t) \in 0 .. MaxPlaces
           /\ settled[t] =< Beginning(t)
           /\ reached[t] < Beginning(t) => settled[t] = 0
           /\ {<<t, n>> : n \in reached[t] + 1 .. Beginning(t)}
                 \subseteq Spots
<1>1. Numbers(t)
  BY TypeNumbers
<1>2. /\ Beginning(t) \in 0 .. Len(feed[t])
      /\ Beginning(t) \in 0 .. MaxPlaces
      /\ settled[t] =< Beginning(t)
      /\ reached[t] < Beginning(t) => settled[t] = 0
  BY <1>1, PlatformAssumption DEF Numbers, Beginning
<1>3. \A n \in reached[t] + 1 .. Beginning(t) : n \in Places
  BY <1>1, <1>2, PlatformAssumption DEF Numbers, Places
<1> HIDE DEF Beginning
<1> QED  BY <1>2, <1>3 DEF Spots

LEMMA GroupType ==
    ASSUME TypeInv, NEW t \in Talks,
           CommitTaken(t) \/ Reassign(t) \/ \E g \in Gateways : Assign(t, g)
    PROVE  TypeInv'
<1>1. \A u \in Talks : Numbers(u)
  BY TypeNumbers
<1>2. GroupShape
  <2>0. /\ settled \in [Talks -> 0 .. MaxPlaces]
        /\ turns \in [Talks -> 0 .. MaxTurns]
        /\ reader \in [Talks -> Gateways \cup {Nobody}]
        /\ reached \in [Talks -> Nat] /\ skipped \subseteq Spots
        /\ begun \in [Talks -> 0 .. MaxPlaces]
        /\ \A u \in Talks : /\ settled[u] =< reached[u]
                            /\ reader[u] # Nobody => turns[u] >= 1
    BY DEF TypeInv, PlatformTypeOK, Shapes
  <2>1. /\ settled[t] \in 0 .. MaxPlaces /\ reached[t] \in 0 .. MaxPlaces
        /\ turns[t] \in Nat
        /\ turns[t] < MaxTurns => turns[t] + 1 \in 0 .. MaxTurns
    BY <1>1, PlatformAssumption DEF Numbers
  <2>5. \A u \in Talks : /\ settled[u] \in Nat /\ reached[u] \in Nat
                         /\ reached[u] =< Len(feed[u])
    BY <1>1 DEF Numbers
  <2>6. ToCommit(t) \in 0 .. MaxPlaces /\ ToCommit(t) =< reached[t]
    BY <2>0, <2>1, <2>5 DEF ToCommit
  <2> HIDE DEF ToCommit
  <2>2. CASE CommitTaken(t)
    <3>1. /\ settled' = [settled EXCEPT ![t] = ToCommit(t)]
          /\ UNCHANGED <<reader, turns, begun, reached, skipped>>
      BY <2>2 DEF CommitTaken, doneVars
    <3> QED  BY <2>0, <2>5, <2>6, <3>1 DEF GroupShape
  <2>3. CASE Reassign(t)
    <3>1. settled' \in [Talks -> 0 .. MaxPlaces]
          /\ \A u \in Talks : settled'[u] =< reached[u]
      BY <2>0, <2>3, <2>5, <2>6 DEF Reassign
    <3>2. /\ reader' = [reader EXCEPT ![t] = Nobody]
          /\ UNCHANGED <<turns, begun, reached, skipped>>
      BY <2>3 DEF Reassign, doneVars
    <3>3. \A u \in Talks : reader'[u] # Nobody => turns[u] >= 1
      BY <2>0, <3>2
    <3> QED  BY <2>0, <2>5, <3>1, <3>2, <3>3 DEF GroupShape
  <2>4. ASSUME NEW g \in Gateways, Assign(t, g)
        PROVE  GroupShape
    <3>1. PICK b : b = Beginning(t)
      OBVIOUS
    <3>2. /\ b \in 0 .. Len(feed[t]) /\ b \in 0 .. MaxPlaces
          /\ settled[t] =< b
          /\ {<<t, n>> : n \in reached[t] + 1 .. b} \subseteq Spots
      BY <3>1, BeginsWithin
    <3>3. /\ reader' = [reader EXCEPT ![t] = g]
          /\ turns' = [turns EXCEPT ![t] = turns[t] + 1]
          /\ begun' = [begun EXCEPT ![t] = b]
          /\ reached' = [reached EXCEPT ![t] = b]
          /\ skipped' = skipped \cup
                {<<t, n>> : n \in reached[t] + 1 .. b}
          /\ settled' = settled /\ turns[t] < MaxTurns
      BY <2>4, <3>1 DEF Assign
    <3>4. skipped' \subseteq Spots
      BY <2>0, <3>2, <3>3
    <3>5. /\ \A u \in Talks : reached'[u] = IF u = t THEN b ELSE reached[u]
          /\ reached' \in [Talks -> Nat]
          /\ begun' \in [Talks -> 0 .. MaxPlaces]
      BY <2>0, <3>2, <3>3
    <3>6. \A u \in Talks : /\ settled'[u] =< reached'[u]
                           /\ reached'[u] =< Len(feed[u])
      BY <2>0, <2>5, <3>2, <3>3, <3>5
    <3>7. /\ turns' \in [Talks -> 0 .. MaxTurns]
          /\ reader' \in [Talks -> Gateways \cup {Nobody}]
          /\ \A u \in Talks : reader'[u] # Nobody => turns'[u] >= 1
      BY <2>0, <2>1, <3>3
    <3> QED  BY <2>0, <3>3, <3>4, <3>5, <3>6, <3>7 DEF GroupShape
  <2> QED  BY <2>2, <2>3, <2>4
<1>3. UNCHANGED <<lifeVars, feed, gateVars, got, fanned, dropped>>
  BY DEF CommitTaken, Reassign, Assign, doneVars
<1>4. \A u \in Talks : reached'[u] \in 0 .. Len(feed[u])
  BY <1>1, <1>2 DEF Numbers, GroupShape
<1> QED
  BY <1>2, <1>3, <1>4
     DEF TypeInv, PlatformTypeOK, Shapes, GroupShape, lifeVars, gateVars,
         sockVars, lockVars

\* What a gateway takes.
Next1(t) == [talk |-> t, place |-> reached[t] + 1, turn |-> turns[t]]

LEMMA TakeShape ==
    ASSUME TypeInv, NEW g \in Gateways, NEW t \in Talks, TakeNext(g, t)
    PROVE  /\ Next1(t) \in Hold
           /\ holding' \in [Gateways -> Hold \cup {Nobody}]
           /\ holding'[g] = Next1(t)
           /\ \A e \in Gateways \ {g} : holding'[e] = holding[e]
           /\ reached'[t] = reached[t] + 1
           /\ \A u \in Talks \ {t} : reached'[u] = reached[u]
<1>1. /\ reached[t] \in Nat /\ turns[t] \in 1 .. MaxTurns
      /\ reached[t] + 1 \in 1 .. MaxPlaces
  <2>1. /\ Numbers(t) /\ reader[t] = g /\ reached[t] < Len(feed[t])
        /\ turns[t] >= 1
    BY TypeNumbers, PlatformAssumption DEF TypeInv, Shapes, TakeNext
  <2> QED  BY <2>1, PlatformAssumption DEF Numbers
<1>2. Next1(t) \in Hold
  BY <1>1 DEF Next1, Hold, Places
<1>3. holding' = [holding EXCEPT ![g] = Next1(t)]
      /\ reached' = [reached EXCEPT ![t] = reached[t] + 1]
  BY DEF TakeNext, Next1
<1> QED
  BY <1>2, <1>3 DEF TypeInv, PlatformTypeOK, Shapes

LEMMA TakeType ==
    ASSUME TypeInv, NEW g \in Gateways, NEW t \in Talks, TakeNext(g, t)
    PROVE  TypeInv'
<1>1. /\ reached' \in [Talks -> Nat]
      /\ \A u \in Talks : /\ reached'[u] \in 0 .. Len(feed[u])
                          /\ settled[u] =< reached'[u]
  BY DEF TypeInv, PlatformTypeOK, Shapes, TakeNext
<1>2. UNCHANGED <<lifeVars, feed, reader, turns, begun, settled, running,
                  fallen, sockVars, lockVars, doneVars>>
  BY DEF TakeNext
<1>3. stuck \subseteq {e \in wedged : holding'[e] # Nobody}
  <2>1. wedged \subseteq Gateways /\ holding[g] = Nobody
    BY DEF TypeInv, PlatformTypeOK, TakeNext
  <2>2. \A e \in stuck : e \in wedged /\ holding[e] # Nobody
    BY DEF TypeInv, PlatformTypeOK
  <2> QED  BY <2>1, <2>2, TakeShape
<1> QED
  BY <1>1, <1>2, <1>3, TakeShape
     DEF TypeInv, PlatformTypeOK, Shapes, lifeVars, sockVars, lockVars,
         doneVars

\* What is given to some clients.
LEMMA GivenShape ==
    ASSUME TypeInv, NEW S, NEW h \in Hold, got' = Given(S, h)
    PROVE  /\ got' \in [Clients -> Seq(Hold)]
           /\ \A c \in Clients :
                 got'[c] = IF c \in S THEN Append(got[c], h) ELSE got[c]
<1>1. \A c \in Clients : got[c] \in Seq(Hold)
                         /\ Append(got[c], h) \in Seq(Hold)
  BY AppendType DEF TypeInv, PlatformTypeOK
<1> QED  BY <1>1 DEF Given

\* A walk that met the lock gives to some, and keeps what it holds.
LEMMA FalterShape ==
    ASSUME TypeInv, NEW g \in Gateways, Falter(g)
    PROVE  /\ holding[g] \in Hold /\ holding' = holding /\ g \notin stuck
           /\ stuck' = stuck \cup {g}
           /\ got' \in [Clients -> Seq(Hold)]
           /\ \A c \in Clients :
                 got'[c] \in {got[c], Append(got[c], holding[g])}
<1>1. holding[g] \in Hold
  BY DEF TypeInv, PlatformTypeOK, Falter, Ready
<1>2. PICK S : got' = Given(S, holding[g])
  BY DEF Falter
<1>3. /\ got' \in [Clients -> Seq(Hold)]
      /\ \A c \in Clients :
            got'[c] = IF c \in S THEN Append(got[c], holding[g]) ELSE got[c]
  BY <1>1, <1>2, GivenShape
<1>4. \A c \in Clients : got'[c] \in {got[c], Append(got[c], holding[g])}
  BY <1>3
<1>5. /\ holding' = holding /\ g \notin stuck
      /\ stuck' = stuck \cup {g}
  BY DEF Falter
<1> QED  BY <1>1, <1>3, <1>4, <1>5

\* What a broadcast of g gives to a client.
LEMMA BroadcastShape ==
    ASSUME TypeInv, NEW g \in Gateways, Broadcast(g)
    PROVE  /\ holding[g] \in Hold
           /\ holding' \in [Gateways -> Hold \cup {Nobody}]
           /\ holding'[g] = Nobody /\ g \notin stuck
           /\ \A e \in Gateways \ {g} : holding'[e] = holding[e]
           /\ got' \in [Clients -> Seq(Hold)]
           /\ \A c \in Clients :
                 got'[c] = IF c \in Reached(g)
                             THEN Append(got[c], holding[g]) ELSE got[c]
<1>1. holding[g] \in Hold
  BY DEF TypeInv, PlatformTypeOK, Broadcast, Ready
<1>2. got' = Given(Reached(g), holding[g])
  BY DEF Broadcast
<1>3. /\ got' \in [Clients -> Seq(Hold)]
      /\ \A c \in Clients :
            got'[c] = IF c \in Reached(g) THEN Append(got[c], holding[g])
                                          ELSE got[c]
  BY <1>1, <1>2, GivenShape
<1>4. holding' = [holding EXCEPT ![g] = Nobody] /\ g \notin stuck
  BY DEF Broadcast, Afterwards, TypeInv, PlatformTypeOK
<1> QED
  BY <1>1, <1>3, <1>4 DEF TypeInv, PlatformTypeOK

LEMMA GatewayType ==
    ASSUME TypeInv, NEW g \in Gateways,
           Broadcast(g) \/ Falter(g) \/ Start(g) \/ CrashGateway(g)
    PROVE  TypeInv'
<1>1. CASE Broadcast(g)
  <2>1. <<holding[g].talk, holding[g].place>> \in Spots
    BY <1>1, BroadcastShape DEF Spots, Hold
  <2>2. fanned' \subseteq Spots \X Gateways
    <3>1. fanned' = fanned \cup
             {<<<<holding[g].talk, holding[g].place>>, g>>}
      BY <1>1 DEF Broadcast
    <3>2. \A s \in Spots : {<<s, g>>} \subseteq Spots \X Gateways
      OBVIOUS
    <3>3. {<<<<holding[g].talk, holding[g].place>>, g>>}
             \subseteq Spots \X Gateways
      BY <2>1, <3>2, Zenon
    <3>4. fanned \subseteq Spots \X Gateways
      BY DEF TypeInv, PlatformTypeOK
    <3> QED  BY <3>1, <3>3, <3>4, Zenon
  <2>3. UNCHANGED <<lifeVars, feed, partVars, running, fallen, sockVars,
                    lockVars, dropped, skipped>>
    BY <1>1 DEF Broadcast
  <2>4. stuck \subseteq {e \in wedged : holding'[e] # Nobody}
    <3>1. \A e \in stuck : e \in wedged /\ e \in Gateways /\ e # g
                           /\ holding[e] # Nobody
      BY <1>1, BroadcastShape DEF TypeInv, PlatformTypeOK
    <3> QED  BY <1>1, <3>1, BroadcastShape
  <2> QED
    BY <1>1, <2>2, <2>3, <2>4, BroadcastShape
       DEF TypeInv, PlatformTypeOK, Shapes, lifeVars, partVars, sockVars,
           lockVars
<1>2. CASE Start(g)
  BY <1>2
     DEF TypeInv, PlatformTypeOK, Shapes, Start, lifeVars, partVars, sockVars,
         lockVars, doneVars
<1>3. CASE CrashGateway(g)
  <2>1. holding[g] # Nobody =>
           <<holding[g].talk, holding[g].place>> \in Spots
    BY DEF TypeInv, PlatformTypeOK, Spots, Hold
  <2>2. dropped' \subseteq Spots /\ running' \subseteq Gateways
        /\ fallen' \in 0 .. MaxCrashed
        /\ holding' \in [Gateways -> Hold \cup {Nobody}]
    <3>1. dropped' \subseteq Spots
      BY <1>3, <2>1 DEF TypeInv, PlatformTypeOK, CrashGateway
    <3>2. fallen' \in 0 .. MaxCrashed
      BY <1>3, PlatformAssumption DEF TypeInv, PlatformTypeOK, CrashGateway
    <3> QED
      BY <1>3, <3>1, <3>2 DEF TypeInv, PlatformTypeOK, CrashGateway
  <2>3. /\ socket' \in [Clients -> running' \cup {Nobody}]
        /\ reader' \in [Talks -> Gateways \cup {Nobody}]
        /\ \A t \in Talks : reader'[t] # Nobody => turns[t] >= 1
    BY <1>3 DEF TypeInv, PlatformTypeOK, Shapes, CrashGateway
  <2>4. UNCHANGED <<lifeVars, feed, turns, begun, reached, settled, moves,
                    opened, got, fanned, skipped>>
    BY <1>3 DEF CrashGateway
  <2>5. listed' \subseteq {c \in Clients : socket'[c] # Nobody}
    <3>1. \A c \in listed' : c \in Clients /\ socket[c] # Nobody
                             /\ socket'[c] = socket[c]
      BY <1>3 DEF TypeInv, PlatformTypeOK, CrashGateway
    <3> QED  BY <3>1
  <2>6. leaving' \in [Clients \X Gateways -> Nat]
    <3>1. leaving' = [x \in Clients \X Gateways |->
                         IF x[2] = g THEN 0 ELSE leaving[x]]
      BY <1>3 DEF CrashGateway
    <3>2. leaving \in [Clients \X Gateways -> Nat]
      BY DEF TypeInv, PlatformTypeOK
    <3> QED  BY <3>1, <3>2
  <2>7. wedged' \subseteq Gateways
        /\ stuck' \subseteq {e \in wedged' : holding'[e] # Nobody}
    <3>1. /\ wedged' = wedged \ {g} /\ stuck' = stuck \ {g}
          /\ holding' = [holding EXCEPT ![g] = Nobody]
      BY <1>3 DEF CrashGateway
    <3>2. wedged \subseteq Gateways
          /\ holding \in [Gateways -> Hold \cup {Nobody}]
          /\ \A e \in stuck : e \in wedged /\ holding[e] # Nobody
      BY DEF TypeInv, PlatformTypeOK
    <3> QED  BY <3>1, <3>2
  <2> QED
    BY <2>2, <2>3, <2>4, <2>5, <2>6, <2>7
       DEF TypeInv, PlatformTypeOK, Shapes, lifeVars
<1>4. CASE Falter(g)
  <2>1. UNCHANGED <<lifeVars, feed, partVars, running, holding, fallen,
                    sockVars, wedged, fanned, dropped, skipped>>
        /\ g \in wedged /\ holding[g] # Nobody
    BY <1>4 DEF Falter, Ready
  <2> QED
    BY <1>4, <2>1, FalterShape
       DEF TypeInv, PlatformTypeOK, Shapes, lifeVars, partVars, sockVars
<1> QED  BY <1>1, <1>2, <1>3, <1>4

LEMMA ConnectType ==
    ASSUME TypeInv, NEW c \in Clients,
           \/ Detach(c) \/ Sweep(c)
           \/ \E g \in Gateways : Attach(c, g) \/ Cleanup(c, g)
    PROVE  TypeInv'
<1>0. /\ socket \in [Clients -> running \cup {Nobody}]
      /\ running \subseteq Gateways
      /\ leaving \in [Clients \X Gateways -> Nat]
      /\ \A d \in listed : d \in Clients /\ socket[d] # Nobody
  BY DEF TypeInv, PlatformTypeOK
<1>1. ASSUME NEW g \in Gateways, Attach(c, g)
      PROVE  TypeInv'
  <2>1. [t \in Talks |-> Len(feed[t])] \in [Talks -> 0 .. MaxPlaces]
    BY PlatformAssumption DEF TypeInv, PlatformTypeOK, Shapes
  <2>2. opened' \in [Clients -> [Talks -> 0 .. MaxPlaces]]
    BY <1>1, <2>1 DEF TypeInv, PlatformTypeOK, Attach
  <2>3. /\ moves' \in 0 .. MaxMoves
        /\ socket' \in [Clients -> running \cup {Nobody}]
        /\ socket' = [socket EXCEPT ![c] = g]
    BY <1>1, PlatformAssumption DEF TypeInv, PlatformTypeOK, Attach
  <2>4. listed' \subseteq {d \in Clients : socket'[d] # Nobody}
    BY <1>0, <1>1, <2>3, PlatformAssumption DEF Attach
  <2>5. UNCHANGED <<lifeVars, feed, partVars, running, holding, fallen,
                    leaving, lockVars, doneVars>>
    BY <1>1 DEF Attach
  <2> QED
    BY <2>2, <2>3, <2>4, <2>5
       DEF TypeInv, PlatformTypeOK, Shapes, lifeVars, partVars, lockVars,
           doneVars
<1>2. CASE Detach(c)
  <2>1. /\ socket' = [socket EXCEPT ![c] = Nobody]
        /\ listed' = listed \ {c}
        /\ leaving' = [leaving EXCEPT ![<<c, socket[c]>>] =
                          leaving[<<c, socket[c]>>] + 1]
    BY <1>2 DEF Detach
  <2>2. /\ socket' \in [Clients -> running \cup {Nobody}]
        /\ listed' \subseteq {d \in Clients : socket'[d] # Nobody}
    BY <1>0, <2>1
  <2>3. leaving' \in [Clients \X Gateways -> Nat]
    <3>1. <<c, socket[c]>> \in Clients \X Gateways
      BY <1>0, <1>2 DEF Detach
    <3> QED  BY <1>0, <2>1, <3>1
  <2>4. UNCHANGED <<lifeVars, feed, partVars, running, holding, fallen, moves,
                    opened, lockVars, doneVars>>
    BY <1>2 DEF Detach
  <2> QED
    BY <2>2, <2>3, <2>4
       DEF TypeInv, PlatformTypeOK, Shapes, lifeVars, partVars, lockVars,
           doneVars
<1>3. ASSUME NEW g \in Gateways, Cleanup(c, g)
      PROVE  TypeInv'
  <2>1. leaving' \in [Clients \X Gateways -> Nat]
    <3>1. /\ leaving' = [leaving EXCEPT ![<<c, g>>] = leaving[<<c, g>>] - 1]
          /\ leaving[<<c, g>>] > 0
      BY <1>3 DEF Cleanup
    <3> QED  BY <1>0, <3>1
  <2>2. wedged' \subseteq Gateways /\ wedged \subseteq wedged'
    BY <1>3 DEF Cleanup, TypeInv, PlatformTypeOK
  <2>3. listed' \subseteq listed
    BY <1>3 DEF Cleanup
  <2>4. UNCHANGED <<lifeVars, feed, partVars, running, holding, fallen,
                    socket, moves, opened, stuck, doneVars>>
    BY <1>3 DEF Cleanup
  <2> QED
    BY <2>1, <2>2, <2>3, <2>4
       DEF TypeInv, PlatformTypeOK, Shapes, lifeVars, partVars, doneVars
<1>4. CASE Sweep(c)
  BY <1>4
     DEF Sweep, TypeInv, PlatformTypeOK, Shapes, lifeVars, partVars, lockVars,
         doneVars
<1> QED  BY <1>1, <1>2, <1>3, <1>4

LEMMA TypeStep == TypeInv /\ [PlatformNext]_platformVars => TypeInv'
<1> SUFFICES ASSUME TypeInv, [PlatformNext]_platformVars
             PROVE  TypeInv'
  OBVIOUS
<1>1. CASE UNCHANGED platformVars
  BY <1>1
     DEF TypeInv, PlatformTypeOK, Shapes, platformVars, lifeVars, partVars,
         gateVars, sockVars, lockVars, doneVars
<1>2. CASE PlatformNext
  BY <1>2, PlatformAssumption, ProcessType, AnnounceType, GroupType, TakeType,
     GatewayType, ConnectType
     DEF PlatformNext
<1> QED  BY <1>1, <1>2

\* Every variable keeps the values that its declaration names.
THEOREM PlatformTypeCorrect == PlatformSpec => []PlatformTypeOK
BY TypeStart, TypeStep, PTL DEF PlatformSpec, TypeInv

LEMMA Typed == PlatformSpec => []TypeInv
BY TypeStart, TypeStep, PTL DEF PlatformSpec

----------------------------------------------------------------------------
(* The shape of a step: what it does to what is in hand and what was sent. *)

LEMMA HoldParts ==
    \A x \in Hold : x.talk \in Talks /\ x.place \in Nat \ {0}
                    /\ x.turn \in Nat \ {0} /\ x # Nobody
BY HoldAssumption DEF Hold, Places

\* A client comes or goes, or its entry does.
Connecting(c) ==
    \/ Detach(c) \/ Sweep(c)
    \/ \E g \in Gateways : Attach(c, g) \/ Cleanup(c, g)

LEMMA ConnectingKeeps ==
    ASSUME NEW c \in Clients, Connecting(c)
    PROVE  UNCHANGED <<lifeVars, feed, partVars, running, holding, fallen,
                       stuck, doneVars>>
BY DEF Connecting, Detach, Sweep, Attach, Cleanup, lockVars

\* What a gateway holds goes to some clients.
GivesOut(g) == Broadcast(g) \/ Falter(g)

LEMMA GiveShape ==
    ASSUME TypeInv, NEW g \in Gateways, GivesOut(g)
    PROVE  /\ holding[g] \in Hold /\ g \notin stuck
           /\ holding'[g] \in {holding[g], Nobody}
           /\ holding'[g] # Nobody => g \in stuck'
           /\ \A e \in Gateways \ {g} : holding'[e] = holding[e]
           /\ stuck \subseteq stuck'
           /\ UNCHANGED <<reader, turns, reached>>
           /\ \A c \in Clients :
                 got'[c] \in {got[c], Append(got[c], holding[g])}
<1>1. CASE Broadcast(g)
  <2>1. UNCHANGED <<partVars, lockVars>>
    BY <1>1 DEF Broadcast
  <2> QED  BY <1>1, <2>1, BroadcastShape DEF partVars, lockVars
<1>2. CASE Falter(g)
  <2>1. UNCHANGED partVars
    BY <1>2 DEF Falter
  <2> QED  BY <1>2, <2>1, FalterShape DEF partVars
<1> QED  BY <1>1, <1>2 DEF GivesOut

\* Every step is of one of these kinds.
LEMMA StepKinds ==
    ASSUME [PlatformNext]_platformVars
    PROVE  \/ UNCHANGED platformVars
           \/ \E m \in Mails :
                 Process(m) \/ \E a \in Audiences : Announce(m, a)
           \/ \E t \in Talks :
                 \/ CommitTaken(t) \/ Reassign(t)
                 \/ \E g \in Gateways : Assign(t, g) \/ TakeNext(g, t)
           \/ \E g \in Gateways : GivesOut(g) \/ Start(g) \/ CrashGateway(g)
           \/ \E c \in Clients : Connecting(c)
BY PlatformAssumption DEF PlatformNext, GivesOut, Connecting

\* Nothing is taken and nothing is sent; at most a gateway lost what it held.
Quiet ==
    /\ got' = got
    /\ \A g \in Gateways :
          /\ holding'[g] \in {holding[g], Nobody}
          /\ g \in stuck /\ holding'[g] # Nobody => g \in stuck'

LEMMA QuietSteps ==
    ASSUME TypeInv, [PlatformNext]_platformVars
    PROVE  \/ Quiet
           \/ \E g \in Gateways : \/ GivesOut(g)
                                  \/ \E t \in Talks : TakeNext(g, t)
<1>1. CASE UNCHANGED platformVars
  BY <1>1 DEF Quiet, platformVars, gateVars, lockVars, doneVars
<1>2. ASSUME NEW m \in Mails,
             Process(m) \/ \E a \in Audiences : Announce(m, a)
      PROVE  Quiet
  BY <1>2 DEF Quiet, Process, Announce, gateVars, lockVars, doneVars
<1>3. ASSUME NEW t \in Talks,
             \/ CommitTaken(t) \/ Reassign(t)
             \/ \E g \in Gateways : Assign(t, g)
      PROVE  Quiet
  <2>1. UNCHANGED <<gateVars, got>>
    BY <1>3 DEF CommitTaken, Reassign, Assign, doneVars
  <2> QED  BY <2>1 DEF Quiet, gateVars, lockVars
<1>4. ASSUME NEW g \in Gateways, Start(g)
      PROVE  Quiet
  BY <1>4 DEF Quiet, Start, lockVars, doneVars
<1>5. ASSUME NEW g \in Gateways, CrashGateway(g)
      PROVE  Quiet
  <2>1. /\ got' = got /\ holding' = [holding EXCEPT ![g] = Nobody]
        /\ stuck' = stuck \ {g}
    BY <1>5 DEF CrashGateway
  <2> QED  BY <2>1 DEF Quiet, TypeInv, PlatformTypeOK
<1>6. ASSUME NEW c \in Clients, Connecting(c)
      PROVE  Quiet
  BY <1>6, ConnectingKeeps DEF Quiet, doneVars
<1> QED  BY <1>1, <1>2, <1>3, <1>4, <1>5, <1>6, StepKinds

\* What a step does to the assignment of a partition.
Kept(t) ==
    /\ turns'[t] = turns[t] /\ reader'[t] \in {reader[t], Nobody}
    /\ reached[t] =< reached'[t]

LEMMA TurnSteps ==
    ASSUME TypeInv, [PlatformNext]_platformVars, NEW t \in Talks
    PROVE  \/ Kept(t)
           \/ reader[t] = Nobody /\ turns'[t] = turns[t] + 1
<1>0. Numbers(t) /\ turns \in [Talks -> 0 .. MaxTurns]
      /\ reader \in [Talks -> Gateways \cup {Nobody}]
      /\ reached \in [Talks -> Nat]
  BY TypeNumbers DEF TypeInv, PlatformTypeOK, Shapes
<1>1. CASE UNCHANGED <<reader, turns, reached>>
  BY <1>0, <1>1 DEF Kept, Numbers
<1>2. ASSUME NEW u \in Talks, NEW g \in Gateways, Assign(u, g)
      PROVE  \/ Kept(t)
             \/ reader[t] = Nobody /\ turns'[t] = turns[t] + 1
  BY <1>0, <1>2 DEF Assign, Kept, Numbers
<1>3. ASSUME NEW u \in Talks, Reassign(u)
      PROVE  Kept(t)
  BY <1>0, <1>3 DEF Reassign, Kept, Numbers
<1>4. ASSUME NEW u \in Talks, NEW g \in Gateways, TakeNext(g, u)
      PROVE  Kept(t)
  <2>1. turns' = turns /\ reader' = reader
    BY <1>4 DEF TakeNext
  <2>2. reached[t] =< reached'[t]
    BY <1>0, <1>4, TakeShape DEF Numbers
  <2> QED  BY <2>1, <2>2 DEF Kept
<1>5. ASSUME NEW g \in Gateways, CrashGateway(g)
      PROVE  Kept(t)
  <2>1. /\ turns' = turns /\ reached' = reached
        /\ reader'[t] \in {reader[t], Nobody}
    BY <1>0, <1>5 DEF CrashGateway
  <2> QED  BY <1>0, <2>1 DEF Kept, Numbers
<1>6. CASE UNCHANGED platformVars
  BY <1>1, <1>6 DEF platformVars, partVars
<1>7. ASSUME NEW m \in Mails,
             Process(m) \/ \E a \in Audiences : Announce(m, a)
      PROVE  UNCHANGED <<reader, turns, reached>>
  BY <1>7 DEF Process, Announce, partVars
<1>8. ASSUME NEW g \in Gateways, GivesOut(g) \/ Start(g)
      PROVE  UNCHANGED <<reader, turns, reached>>
  BY <1>8, GiveShape DEF Start, partVars
<1>10. ASSUME NEW c \in Clients, Connecting(c)
       PROVE  UNCHANGED <<reader, turns, reached>>
  BY <1>10, ConnectingKeeps DEF partVars
<1>9. ASSUME NEW u \in Talks, CommitTaken(u)
      PROVE  UNCHANGED <<reader, turns, reached>>
  BY <1>9 DEF CommitTaken
<1> QED
  BY <1>1, <1>2, <1>3, <1>4, <1>5, <1>6, <1>7, <1>8, <1>9, <1>10, StepKinds

----------------------------------------------------------------------------
(* The order of one assignment.                                            *)

\* What was taken came out of an assignment there was, and out of the present
\* one only as far as that has come.
Fits(x) ==
    /\ x.turn =< turns[x.talk]
    /\ x.turn = turns[x.talk] => x.place =< reached[x.talk]

\* Slot x comes before y unless they are of different assignments.
Precedes(x, y) == (x.talk = y.talk /\ x.turn = y.turn) => x.place < y.place

\* A gateway that holds something of the present assignment is its reader,
\* unless it has lost the partition.
HoldsFit ==
    \A g \in Gateways : holding[g] # Nobody =>
       /\ Fits(holding[g])
       /\ holding[g].turn = turns[holding[g].talk] =>
             reader[holding[g].talk] \in {g, Nobody}

\* Two gateways never hold something of one assignment.
OneHolder ==
    \A g, e \in Gateways :
       (/\ g # e /\ holding[g] # Nobody /\ holding[e] # Nobody
        /\ holding[g].talk = holding[e].talk)
          => holding[g].turn # holding[e].turn

\* What a client has precedes what a gateway still holds, or is what one
\* that waits at a lock had given it before.
Before(x, g) == Precedes(x, holding[g]) \/ (g \in stuck /\ x = holding[g])
GotFits ==
    \A c \in Clients : \A k \in DOMAIN got[c] :
       /\ Fits(got[c][k])
       /\ \A g \in Gateways : holding[g] # Nobody => Before(got[c][k], g)

TurnInv == HoldsFit /\ OneHolder /\ GotFits /\ InOrderPerTurn

LEMMA TurnStart == PlatformInit => TurnInv
BY DEF PlatformInit, TurnInv, HoldsFit, OneHolder, GotFits, InOrderPerTurn

LEMMA FitsStays ==
    ASSUME TypeInv, [PlatformNext]_platformVars, NEW x \in Hold, Fits(x)
    PROVE  /\ x.turn =< turns'[x.talk]
           /\ x.turn = turns'[x.talk] =>
                 /\ x.turn = turns[x.talk]
                 /\ x.place =< reached'[x.talk]
                 /\ reader'[x.talk] \in {reader[x.talk], Nobody}
<1>1. x.talk \in Talks /\ x.place \in Nat /\ x.turn \in Nat
  BY HoldParts
<1>2. Numbers(x.talk) /\ reached'[x.talk] \in Nat
  <2>1. TypeInv'
    BY TypeStep
  <2> QED  BY <1>1, <2>1, TypeNumbers DEF TypeInv, Shapes
<1>3. \/ Kept(x.talk)
      \/ reader[x.talk] = Nobody /\ turns'[x.talk] = turns[x.talk] + 1
  BY <1>1, TurnSteps
<1> QED  BY <1>1, <1>2, <1>3 DEF Fits, Kept, Numbers

\* What is taken comes after all that fits.
LEMMA TakenLast ==
    ASSUME TypeInv, NEW t \in Talks, NEW x \in Hold, Fits(x)
    PROVE  Precedes(x, Next1(t))
<1>1. x.place \in Nat /\ Numbers(t)
  BY HoldParts, TypeNumbers
<1>2. Next1(t).talk = t /\ Next1(t).place = reached[t] + 1
      /\ Next1(t).turn = turns[t]
  BY DEF Next1
<1> QED  BY <1>1, <1>2 DEF Fits, Precedes, Numbers

LEMMA TurnStep ==
    ASSUME TypeInv, TurnInv, [PlatformNext]_platformVars
    PROVE  TurnInv'
<1>0. /\ \A g \in Gateways : holding[g] # Nobody => holding[g] \in Hold
      /\ \A c \in Clients : got[c] \in Seq(Hold)
      /\ \A c \in Clients : \A k \in DOMAIN got[c] : got[c][k] \in Hold
  BY DEF TypeInv, PlatformTypeOK
<1>1. ASSUME NEW x \in Hold, Fits(x)
      PROVE  /\ Fits(x)'
             /\ x.turn = turns'[x.talk] =>
                   /\ x.turn = turns[x.talk]
                   /\ reader'[x.talk] \in {reader[x.talk], Nobody}
  BY <1>1, FitsStays DEF Fits
<1>2. CASE Quiet
  <2>1. HoldsFit'
    <3> SUFFICES ASSUME NEW g \in Gateways, holding'[g] # Nobody
                 PROVE  /\ Fits(holding[g])'
                        /\ holding'[g].turn = turns'[holding'[g].talk] =>
                              reader'[holding'[g].talk] \in {g, Nobody}
      BY DEF HoldsFit
    <3>1. holding'[g] = holding[g] /\ holding[g] \in Hold
      BY <1>0, <1>2 DEF Quiet
    <3>2. PICK h \in Hold : h = holding[g]
      BY <3>1
    <3>3. /\ Fits(h)
          /\ h.turn = turns[h.talk] => reader[h.talk] \in {g, Nobody}
      BY <3>1, <3>2, HoldParts DEF TurnInv, HoldsFit
    <3>4. Fits(h)'
          /\ (h.turn = turns'[h.talk] => reader'[h.talk] \in {g, Nobody})
      BY <1>1, <3>2, <3>3
    <3> QED  BY <3>1, <3>2, <3>4 DEF Fits
  <2>2. OneHolder'
    BY <1>2 DEF TurnInv, OneHolder, Quiet
  <2>3. GotFits'
    <3> SUFFICES ASSUME NEW c \in Clients, NEW k \in DOMAIN got'[c]
                 PROVE  /\ Fits(got[c][k])'
                        /\ \A g \in Gateways : holding'[g] # Nobody =>
                              Before(got[c][k], g)'
      BY DEF GotFits
    <3>1. got' = got /\ k \in DOMAIN got[c] /\ got[c][k] \in Hold
      BY <1>0, <1>2 DEF Quiet
    <3>2. PICK x \in Hold : x = got[c][k]
      BY <3>1
    <3>3. Fits(x)'
      BY <1>1, <3>1, <3>2 DEF TurnInv, GotFits
    <3>4. ASSUME NEW g \in Gateways, holding'[g] # Nobody
          PROVE  Before(got[c][k], g)'
      <4>1. holding'[g] = holding[g] /\ Before(x, g)
            /\ (g \in stuck => g \in stuck')
        BY <1>2, <3>1, <3>2, <3>4 DEF Quiet, TurnInv, GotFits
      <4> QED  BY <3>1, <3>2, <4>1 DEF Before, Precedes
    <3> QED  BY <3>1, <3>2, <3>3, <3>4 DEF Fits
  <2>4. InOrderPerTurn'
    BY <1>2 DEF TurnInv, InOrderPerTurn, Quiet
  <2> QED  BY <2>1, <2>2, <2>3, <2>4 DEF TurnInv
<1>3. ASSUME NEW g \in Gateways, NEW t \in Talks, TakeNext(g, t)
      PROVE  TurnInv'
  <2>0. PICK new \in Hold : new = Next1(t)
    BY <1>3, TakeShape
  <2>1. /\ new \in Hold /\ holding'[g] = new
        /\ \A e \in Gateways \ {g} : holding'[e] = holding[e]
        /\ reached'[t] = reached[t] + 1
    BY <1>3, <2>0, TakeShape
  <2>2. /\ UNCHANGED <<reader, turns, stuck, got>> /\ reader[t] = g
        /\ holding[g] = Nobody
    BY <1>3 DEF TakeNext, lockVars, doneVars
  <2>3. /\ new.talk = t /\ new.place = reached[t] + 1 /\ new.turn = turns[t]
    BY <2>0 DEF Next1
  <2>4. Numbers(t) /\ new # Nobody
    BY <2>1, TypeNumbers, HoldParts
  <2>5. HoldsFit'
    <3>1. Fits(new)' /\ (new.turn = turns'[new.talk] =>
                           reader'[new.talk] \in {g, Nobody})
      BY <2>1, <2>2, <2>3, <2>4 DEF Fits, Numbers
    <3>2. ASSUME NEW e \in Gateways \ {g}, holding[e] # Nobody
          PROVE  /\ Fits(holding[e])'
                 /\ holding'[e].turn = turns'[holding'[e].talk] =>
                       reader'[holding'[e].talk] \in {e, Nobody}
      <4>1. PICK h \in Hold : h = holding[e] /\ h = holding'[e]
        BY <1>0, <2>1, <3>2
      <4>2. /\ Fits(h)
            /\ h.turn = turns[h.talk] => reader[h.talk] \in {e, Nobody}
        BY <3>2, <4>1 DEF TurnInv, HoldsFit
      <4>3. Fits(h)'
            /\ (h.turn = turns'[h.talk] => reader'[h.talk] \in {e, Nobody})
        BY <1>1, <4>1, <4>2
      <4> QED  BY <4>1, <4>3 DEF Fits
    <3> QED  BY <2>1, <3>1, <3>2 DEF HoldsFit, Fits
  <2>6. OneHolder'
    <3>1. ASSUME NEW e \in Gateways \ {g}, holding[e] # Nobody,
                 holding[e].talk = t, holding[e].turn = turns[t]
          PROVE  FALSE
      <4>1. reader[t] \in {e, Nobody}
        BY <3>1 DEF TurnInv, HoldsFit
      <4> QED  BY <2>2, <4>1, PlatformAssumption
    <3> QED
      BY <2>1, <2>2, <2>3, <3>1 DEF TurnInv, OneHolder
  <2>7. GotFits'
    <3> SUFFICES ASSUME NEW c \in Clients, NEW k \in DOMAIN got'[c]
                 PROVE  /\ Fits(got[c][k])'
                        /\ \A e \in Gateways : holding'[e] # Nobody =>
                              Before(got[c][k], e)'
      BY DEF GotFits
    <3>1. got' = got /\ k \in DOMAIN got[c] /\ got[c][k] \in Hold
      BY <1>0, <2>2
    <3>2. PICK x \in Hold : x = got[c][k]
      BY <3>1
    <3>3. Fits(x) /\ Fits(x)'
      BY <1>1, <3>1, <3>2 DEF TurnInv, GotFits
    <3>4. Precedes(x, new)
      BY <2>0, <3>2, <3>3, TakenLast
    <3>5. ASSUME NEW e \in Gateways \ {g}, holding'[e] # Nobody
          PROVE  Before(got[c][k], e)'
      <4>1. holding'[e] = holding[e] /\ Before(x, e)
        BY <2>1, <3>1, <3>2, <3>5 DEF TurnInv, GotFits
      <4> QED  BY <2>2, <3>1, <3>2, <4>1 DEF Before, Precedes
    <3>6. Before(got[c][k], g)'
      BY <2>1, <3>1, <3>2, <3>4 DEF Before, Precedes
    <3> QED  BY <3>1, <3>2, <3>3, <3>5, <3>6 DEF Fits
  <2>8. InOrderPerTurn'
    BY <2>2 DEF TurnInv, InOrderPerTurn
  <2> QED  BY <2>5, <2>6, <2>7, <2>8 DEF TurnInv
<1>4. ASSUME NEW g \in Gateways, GivesOut(g)
      PROVE  TurnInv'
  <2>1. /\ holding[g] \in Hold /\ g \notin stuck
        /\ holding'[g] \in {holding[g], Nobody}
        /\ holding'[g] # Nobody => g \in stuck'
        /\ \A e \in Gateways \ {g} : holding'[e] = holding[e]
        /\ stuck \subseteq stuck'
        /\ UNCHANGED <<reader, turns, reached>>
    BY <1>4, GiveShape
  <2>2. PICK h \in Hold : h = holding[g]
    BY <2>1
  <2>3. holding[g] # Nobody
        /\ \A e \in Gateways : holding'[e] \in {holding[e], Nobody}
    BY <2>1, HoldParts
  <2>4. HoldsFit'
    BY <2>1, <2>3 DEF TurnInv, HoldsFit, Fits
  <2>5. OneHolder'
    BY <2>3 DEF TurnInv, OneHolder
  <2>6. ASSUME NEW c \in Clients
        PROVE  /\ got'[c] \in Seq(Hold)
               /\ \/ got'[c] = got[c]
                  \/ /\ Len(got'[c]) = Len(got[c]) + 1
                     /\ got'[c][Len(got[c]) + 1] = h
                     /\ \A k \in 1 .. Len(got[c]) : got'[c][k] = got[c][k]
    <3>1. got'[c] = got[c] \/ got'[c] = Append(got[c], h)
      BY <1>4, <2>2, GiveShape
    <3> QED  BY <1>0, <2>2, <3>1, AppendType
  <2>7. \A c \in Clients : Len(got[c]) \in Nat
           /\ DOMAIN got[c] = 1 .. Len(got[c])
           /\ DOMAIN got'[c] = 1 .. Len(got'[c])
    BY <1>0, <2>6
  <2>8. \A c \in Clients : \A k \in DOMAIN got'[c] :
           \/ k \in DOMAIN got[c] /\ got'[c][k] = got[c][k]
           \/ /\ k = Len(got[c]) + 1 /\ got'[c][k] = h
              /\ k \notin DOMAIN got[c]
    BY <2>6, <2>7
  <2>9. Fits(h)' /\ \A e \in Gateways \ {g} : holding[e] # Nobody =>
                        Precedes(h, holding[e])
    <3>1. Fits(h)
      BY <2>2, <2>3 DEF TurnInv, HoldsFit
    <3> QED  BY <1>1, <2>2, <2>3, <3>1 DEF TurnInv, OneHolder, Precedes
  <2>10. GotFits'
    <3> SUFFICES ASSUME NEW c \in Clients, NEW k \in DOMAIN got'[c]
                 PROVE  /\ Fits(got[c][k])'
                        /\ \A e \in Gateways : holding'[e] # Nobody =>
                              Before(got[c][k], e)'
      BY DEF GotFits
    <3>1. CASE got'[c][k] = h
      <4>1. Fits(got[c][k])'
        BY <2>9, <3>1 DEF Fits
      <4>2. ASSUME NEW e \in Gateways, holding'[e] # Nobody
            PROVE  Before(got[c][k], e)'
        BY <2>1, <2>2, <2>9, <3>1, <4>2 DEF Before, Precedes
      <4> QED  BY <4>1, <4>2
    <3>2. CASE k \in DOMAIN got[c] /\ got'[c][k] = got[c][k]
      <4>1. PICK x \in Hold : x = got[c][k]
        BY <1>0, <3>2
      <4>2. Fits(x) /\ \A e \in Gateways : holding[e] # Nobody => Before(x, e)
        BY <3>2, <4>1 DEF TurnInv, GotFits
      <4>3. Fits(x)'
        BY <1>1, <4>1, <4>2
      <4>4. ASSUME NEW e \in Gateways, holding'[e] # Nobody
            PROVE  Before(got[c][k], e)'
        <5>1. holding'[e] = holding[e] /\ Before(x, e)
          BY <2>3, <4>2, <4>4
        <5> QED  BY <2>1, <3>2, <4>1, <5>1 DEF Before, Precedes
      <4> QED  BY <3>2, <4>1, <4>3, <4>4 DEF Fits
    <3> QED  BY <2>8, <3>1, <3>2
  <2>11. InOrderPerTurn'
    <3> SUFFICES ASSUME NEW c \in Clients,
                        NEW i \in DOMAIN got'[c], NEW j \in DOMAIN got'[c],
                        i < j
                 PROVE  Precedes(got'[c][i], got'[c][j])
      BY DEF InOrderPerTurn, Precedes
    <3>1. i \in DOMAIN got[c] /\ got'[c][i] = got[c][i]
      BY <2>6, <2>7, <2>8
    <3>2. CASE j \in DOMAIN got[c] /\ got'[c][j] = got[c][j]
      BY <3>1, <3>2 DEF TurnInv, InOrderPerTurn, Precedes
    <3>3. CASE got'[c][j] = h
      BY <2>1, <2>2, <2>3, <3>1, <3>3 DEF TurnInv, GotFits, Before
    <3> QED  BY <2>8, <3>2, <3>3
  <2> QED  BY <2>4, <2>5, <2>10, <2>11 DEF TurnInv
<1> QED  BY <1>2, <1>3, <1>4, QuietSteps

LEMMA Turns == PlatformSpec => []TurnInv
BY TurnStart, TurnStep, Typed, PTL DEF PlatformSpec

\* A client gets the announcements of one assignment in their order and none
\* of them twice, wherever it moves and whichever gateways read after another.
THEOREM OrderedPerTurn == PlatformSpec => []InOrderPerTurn
BY Turns, PTL DEF TurnInv

----------------------------------------------------------------------------
(* Nobody is passed over.                                                  *)

\* What became of a place for a client: it has it, or it is with a gateway,
\* or was lost with one or begun behind, or another gateway than the client's
\* broadcast it.
Reaches(c, t, n) ==
    \/ \E k \in DOMAIN got[c] : got[c][k].talk = t /\ got[c][k].place = n
    \/ Held(t, n)
    \/ <<t, n>> \in dropped \cup skipped
    \/ \E g \in Gateways \ {socket[c]} : <<<<t, n>>, g>> \in fanned

\* What has been taken of a conversation, committed or not.
NotMissed ==
    \A c \in listed, t \in Talks : \A n \in opened[c][t] + 1 .. reached[t] :
       c # AuthorOf[feed[t][n][1]] => Reaches(c, t, n)

\* What was announced was stored and recorded before.
ToldSound ==
    \A x \in told : x[1] \in kept /\ {x[1]} \X x[2] \subseteq receipted

\* What is held or was sent is in the log.
InLog(x) == x.place =< Len(feed[x.talk])
AllInLog ==
    /\ \A g \in Gateways : holding[g] # Nobody => InLog(holding[g])
    /\ \A c \in Clients : \A k \in DOMAIN got[c] : InLog(got[c][k])

MissInv == NotMissed /\ ToldSound /\ AllInLog

LEMMA MissStart == PlatformInit => MissInv
BY DEF PlatformInit, MissInv, NotMissed, ToldSound, AllInLog, Life!Init

\* A log grows, and what is in it stays.
LEMMA FeedGrows ==
    ASSUME TypeInv, [PlatformNext]_platformVars, NEW t \in Talks
    PROVE  /\ Len(feed[t]) \in Nat /\ Len(feed'[t]) \in Nat
           /\ Len(feed[t]) =< Len(feed'[t])
           /\ \A n \in 1 .. Len(feed[t]) : feed'[t][n] = feed[t][n]
<1>0. feed[t] \in Seq(told) /\ Len(feed[t]) \in Nat
  BY DEF TypeInv, PlatformTypeOK
<1>1. CASE feed' = feed
  BY <1>0, <1>1
<1>2. ASSUME NEW m \in Mails, NEW a \in Audiences, Announce(m, a)
      PROVE  /\ Len(feed'[t]) \in Nat /\ Len(feed[t]) =< Len(feed'[t])
             /\ \A n \in 1 .. Len(feed[t]) : feed'[t][n] = feed[t][n]
  <2>1. \/ feed'[t] = feed[t]
        \/ feed'[t] = Append(feed[t], <<m, a>>)
    BY <1>2 DEF Announce, TypeInv, Shapes
  <2>2. told \subseteq told' /\ <<m, a>> \in told'
    BY <1>2 DEF Announce, Life!Announce
  <2>3. feed[t] \in Seq(told')
    BY <1>0, <2>2, SeqWider
  <2> QED  BY <1>0, <2>1, <2>2, <2>3, AppendType
<1>3. feed' = feed \/ \E m \in Mails, a \in Audiences : Announce(m, a)
  BY StepKinds, ConnectingKeeps
     DEF Process, CommitTaken, Reassign, Assign, TakeNext, GivesOut,
         Broadcast, Falter, Start, CrashGateway, platformVars
<1> QED  BY <1>0, <1>1, <1>2, <1>3

\* Nothing of the records and the histories is taken back.
LEMMA RecordsGrow ==
    ASSUME TypeInv, [PlatformNext]_platformVars
    PROVE  /\ kept \subseteq kept' /\ receipted \subseteq receipted'
           /\ dropped \subseteq dropped' /\ skipped \subseteq skipped'
           /\ fanned \subseteq fanned'
<1>1. ASSUME NEW m \in Mails, Process(m)
      PROVE  kept \subseteq kept' /\ receipted \subseteq receipted'
             /\ UNCHANGED doneVars
  BY <1>1 DEF Process, Life!Send, Life!Store, Life!Track
<1>2. ASSUME NEW m \in Mails, NEW a \in Audiences, Announce(m, a)
      PROVE  UNCHANGED <<kept, receipted, doneVars>>
  BY <1>2 DEF Announce, Life!Announce
<1>3. ASSUME NEW g \in Gateways, GivesOut(g) \/ CrashGateway(g)
      PROVE  UNCHANGED <<kept, receipted, skipped>>
             /\ dropped \subseteq dropped' /\ fanned \subseteq fanned'
  BY <1>3 DEF GivesOut, Broadcast, Falter, CrashGateway, lifeVars
<1>4. ASSUME NEW g \in Gateways, Start(g)
      PROVE  UNCHANGED <<kept, receipted, doneVars>>
  BY <1>4 DEF Start, lifeVars
<1>5. ASSUME NEW t \in Talks,
             \/ CommitTaken(t) \/ Reassign(t)
             \/ \E g \in Gateways : TakeNext(g, t)
      PROVE  UNCHANGED <<kept, receipted, doneVars>>
  BY <1>5 DEF CommitTaken, Reassign, TakeNext, lifeVars
<1>6. ASSUME NEW t \in Talks, NEW g \in Gateways, Assign(t, g)
      PROVE  UNCHANGED <<kept, receipted, fanned, dropped>>
             /\ skipped \subseteq skipped'
  BY <1>6 DEF Assign, lifeVars
<1>7. ASSUME NEW c \in Clients, Connecting(c)
      PROVE  UNCHANGED <<kept, receipted, doneVars>>
  BY <1>7, ConnectingKeeps DEF lifeVars
<1>8. CASE UNCHANGED platformVars
  BY <1>8 DEF platformVars, lifeVars, doneVars
<1> QED
  BY <1>1, <1>2, <1>3, <1>4, <1>5, <1>6, <1>7, <1>8, StepKinds DEF doneVars

LEMMA GotGrows ==
    ASSUME TypeInv, [PlatformNext]_platformVars, NEW c \in Clients
    PROVE  /\ \A k \in DOMAIN got[c] :
                 k \in DOMAIN got'[c] /\ got'[c][k] = got[c][k]
           /\ \A k \in DOMAIN got'[c] :
                 \/ k \in DOMAIN got[c] /\ got'[c][k] = got[c][k]
                 \/ \E g \in Gateways :
                       holding[g] # Nobody /\ got'[c][k] = holding[g]
<1>1. CASE Quiet
  BY <1>1 DEF Quiet
<1>2. ASSUME NEW g \in Gateways, NEW t \in Talks, TakeNext(g, t)
      PROVE  got' = got
  BY <1>2 DEF TakeNext, doneVars
<1>3. ASSUME NEW g \in Gateways, GivesOut(g)
      PROVE  /\ \A k \in DOMAIN got[c] :
                   k \in DOMAIN got'[c] /\ got'[c][k] = got[c][k]
             /\ \A k \in DOMAIN got'[c] :
                   \/ k \in DOMAIN got[c] /\ got'[c][k] = got[c][k]
                   \/ got'[c][k] = holding[g] /\ holding[g] # Nobody
  <2>1. PICK h \in Hold : h = holding[g] /\ h # Nobody
    BY <1>3, GiveShape, HoldParts
  <2>2. got[c] \in Seq(Hold)
    BY DEF TypeInv, PlatformTypeOK
  <2>3. got'[c] = got[c] \/ got'[c] = Append(got[c], h)
    BY <1>3, <2>1, GiveShape
  <2>4. /\ Append(got[c], h) \in Seq(Hold)
        /\ Len(Append(got[c], h)) = Len(got[c]) + 1
        /\ Append(got[c], h)[Len(got[c]) + 1] = h
        /\ \A k \in 1 .. Len(got[c]) : Append(got[c], h)[k] = got[c][k]
    BY <2>1, <2>2, AppendType
  <2>5. /\ Len(got[c]) \in Nat /\ DOMAIN got[c] = 1 .. Len(got[c])
        /\ DOMAIN Append(got[c], h) = 1 .. Len(got[c]) + 1
    BY <2>2, <2>4
  <2> QED  BY <2>1, <2>3, <2>4, <2>5
<1> QED  BY <1>1, <1>2, <1>3, QuietSteps

\* What a gateway holds it keeps, broadcasts, or loses with itself.
LEMMA HoldEnds ==
    ASSUME TypeInv, [PlatformNext]_platformVars, NEW g \in Gateways,
           holding[g] # Nobody
    PROVE  holding'[g] = holding[g] \/ Broadcast(g) \/ CrashGateway(g)
<1>1. CASE UNCHANGED holding
  BY <1>1
<1>2. ASSUME NEW e \in Gateways, NEW t \in Talks, TakeNext(e, t)
      PROVE  holding'[g] = holding[g]
  <2>1. e # g
    BY <1>2 DEF TakeNext
  <2> QED  BY <1>2, <2>1, TakeShape
<1>3. ASSUME NEW e \in Gateways \ {g}, Broadcast(e) \/ CrashGateway(e)
      PROVE  holding'[g] = holding[g]
  BY <1>3 DEF Broadcast, CrashGateway, TypeInv, PlatformTypeOK
<1>4. \/ UNCHANGED holding
      \/ \E e \in Gateways : \/ Broadcast(e) \/ CrashGateway(e)
                             \/ \E t \in Talks : TakeNext(e, t)
  <2>1. ASSUME NEW e \in Gateways, Falter(e)
        PROVE  UNCHANGED holding
    BY <2>1 DEF Falter
  <2>2. ASSUME NEW c \in Clients, Connecting(c)
        PROVE  UNCHANGED holding
    BY <2>2, ConnectingKeeps
  <2> QED
    BY <2>1, <2>2, StepKinds
       DEF GivesOut, Process, Announce, CommitTaken, Reassign, Assign, Start,
           gateVars, platformVars
<1> QED  BY <1>1, <1>2, <1>3, <1>4

LEMMA ReachesStays ==
    ASSUME TypeInv, [PlatformNext]_platformVars,
           NEW c \in listed, NEW t, NEW n, Reaches(c, t, n),
           socket'[c] = socket[c], c # AuthorOf[feed[t][n][1]]
    PROVE  Reaches(c, t, n)'
<1>0. c \in Clients
  BY DEF TypeInv, PlatformTypeOK
<1>1. CASE \E k \in DOMAIN got[c] : got[c][k].talk = t /\ got[c][k].place = n
  BY <1>0, <1>1, GotGrows DEF Reaches
<1>2. CASE Held(t, n)
  <2>1. PICK g \in Gateways :
           holding[g] # Nobody /\ holding[g].talk = t /\ holding[g].place = n
    BY <1>2 DEF Held
  <2>2. CASE holding'[g] = holding[g]
    BY <2>1, <2>2 DEF Reaches, Held
  <2>3. CASE CrashGateway(g)
    <3>1. <<t, n>> \in dropped'
      BY <2>1, <2>3 DEF CrashGateway
    <3> QED  BY <3>1 DEF Reaches
  <2>4. CASE Broadcast(g)
    <3>1. <<<<t, n>>, g>> \in fanned'
      BY <2>1, <2>4 DEF Broadcast
    <3>2. CASE socket[c] # g
      BY <3>1, <3>2 DEF Reaches
    <3>3. CASE socket[c] = g
      <4>1. PICK h \in Hold : h = holding[g]
        BY <2>4, BroadcastShape
      <4>2. h.talk = t /\ h.place = n /\ c \in Reached(g)
        BY <2>1, <3>3, <4>1 DEF Reached
      <4>3. got[c] \in Seq(Hold) /\ got'[c] = Append(got[c], h)
        BY <1>0, <2>4, <4>1, <4>2, BroadcastShape DEF TypeInv, PlatformTypeOK
      <4>4. /\ Len(got[c]) + 1 \in DOMAIN got'[c]
            /\ got'[c][Len(got[c]) + 1] = h
        BY <4>3
      <4> QED  BY <4>2, <4>4 DEF Reaches
    <3> QED  BY <3>2, <3>3
  <2> QED  BY <2>1, <2>2, <2>3, <2>4, HoldEnds
<1>3. CASE <<t, n>> \in dropped \cup skipped
  BY <1>3, RecordsGrow DEF Reaches
<1>4. CASE \E g \in Gateways \ {socket[c]} : <<<<t, n>>, g>> \in fanned
  BY <1>4, RecordsGrow DEF Reaches
<1> QED  BY <1>1, <1>2, <1>3, <1>4 DEF Reaches

\* A client that is in the map of its gateway has been since it connected.
LEMMA SocketSteps ==
    ASSUME TypeInv, [PlatformNext]_platformVars, NEW c \in Clients
    PROVE  \/ /\ opened'[c] = opened[c]
              /\ c \in listed' => c \in listed /\ socket'[c] = socket[c]
           \/ \E g \in Gateways : Attach(c, g)
<1>1. CASE UNCHANGED sockVars
  BY <1>1 DEF sockVars
<1>2. ASSUME NEW g \in Gateways, CrashGateway(g)
      PROVE  /\ opened'[c] = opened[c]
             /\ c \in listed' => c \in listed /\ socket'[c] = socket[c]
  BY <1>2 DEF CrashGateway
<1>3. ASSUME NEW g \in Gateways, NEW d \in Clients \ {c}, Attach(d, g)
      PROVE  /\ opened'[c] = opened[c]
             /\ c \in listed' => c \in listed /\ socket'[c] = socket[c]
  BY <1>3 DEF Attach, TypeInv, PlatformTypeOK
<1>4. ASSUME NEW d \in Clients,
             Sweep(d) \/ \E g \in Gateways : Cleanup(d, g)
      PROVE  /\ opened'[c] = opened[c]
             /\ c \in listed' => c \in listed /\ socket'[c] = socket[c]
  BY <1>4 DEF Sweep, Cleanup
<1>5. ASSUME NEW d \in Clients, Detach(d)
      PROVE  /\ opened'[c] = opened[c]
             /\ c \in listed' => c \in listed /\ socket'[c] = socket[c]
  BY <1>5 DEF Detach, TypeInv, PlatformTypeOK
<1>6. \/ UNCHANGED sockVars
      \/ \E g \in Gateways : CrashGateway(g)
      \/ \E d \in Clients : Connecting(d)
  BY StepKinds
     DEF Process, Announce, CommitTaken, Reassign, Assign, TakeNext,
         GivesOut, Broadcast, Falter, Start, gateVars, platformVars
<1> QED  BY <1>1, <1>2, <1>3, <1>4, <1>5, <1>6 DEF Connecting

\* What was not taken is taken by a reader, or a reader begins behind it.
LEMMA ReachedGrows ==
    ASSUME TypeInv, [PlatformNext]_platformVars, NEW t \in Talks,
           reached[t] < reached'[t]
    PROVE  \E g \in Gateways : TakeNext(g, t) \/ Assign(t, g)
<1>0. Numbers(t) /\ reached \in [Talks -> Nat]
  BY TypeNumbers DEF TypeInv, Shapes
<1>1. reached' # reached
  BY <1>0 DEF Numbers
<1>2. ASSUME NEW u \in Talks, NEW g \in Gateways, TakeNext(g, u)
      PROVE  u = t
  BY <1>0, <1>2, TakeShape DEF Numbers
<1>3. ASSUME NEW u \in Talks, NEW g \in Gateways, Assign(u, g)
      PROVE  u = t
  BY <1>0, <1>3 DEF Assign, Numbers
<1>4. \E u \in Talks, g \in Gateways : TakeNext(g, u) \/ Assign(u, g)
  BY <1>1, StepKinds, GiveShape, ConnectingKeeps
     DEF Process, Announce, CommitTaken, Reassign, Start, CrashGateway,
         partVars, platformVars
<1> QED  BY <1>2, <1>3, <1>4

LEMMA NotMissedStep ==
    ASSUME TypeInv, NotMissed, [PlatformNext]_platformVars
    PROVE  NotMissed'
<1> SUFFICES ASSUME NEW c \in listed', NEW t \in Talks,
                    NEW n \in opened'[c][t] + 1 .. reached'[t],
                    c # AuthorOf[feed'[t][n][1]]
             PROVE  Reaches(c, t, n)'
  BY DEF NotMissed
<1>0. TypeInv'
  BY TypeStep
<1>1. /\ Numbers(t) /\ reached'[t] \in Nat /\ opened'[c][t] \in Nat
      /\ c \in Clients
  <2>1. opened' \in [Clients -> [Talks -> 0 .. MaxPlaces]]
        /\ reached' \in [Talks -> Nat] /\ c \in Clients
    BY <1>0 DEF TypeInv, Shapes, PlatformTypeOK
  <2>2. opened'[c] \in [Talks -> 0 .. MaxPlaces]
    BY <2>1
  <2> QED  BY <2>1, <2>2, TypeNumbers
<1>2. CASE opened'[c] = opened[c] /\ c \in listed /\ socket'[c] = socket[c]
  <2>1. CASE n \in opened[c][t] + 1 .. reached[t]
    <3>1. n \in 1 .. Len(feed[t])
      BY <1>1, <1>2, <2>1 DEF Numbers
    <3>2. c # AuthorOf[feed[t][n][1]]
      BY <3>1, FeedGrows
    <3>3. Reaches(c, t, n)
      BY <1>2, <2>1, <3>2 DEF NotMissed
    <3> QED  BY <1>2, <3>2, <3>3, ReachesStays
  <2>2. CASE n \notin opened[c][t] + 1 .. reached[t]
    <3>1. reached[t] < n /\ n =< reached'[t] /\ n \in Nat
      BY <1>1, <1>2, <2>2 DEF Numbers
    <3>2. PICK g \in Gateways : TakeNext(g, t) \/ Assign(t, g)
      BY <1>1, <3>1, ReachedGrows DEF Numbers
    <3>3. CASE TakeNext(g, t)
      <4>1. PICK h \in Hold : h = holding'[g] /\ h = Next1(t)
        BY <3>3, TakeShape
      <4>2. h.talk = t /\ h.place = reached[t] + 1 /\ h # Nobody
        BY <4>1, HoldParts DEF Next1
      <4>3. n = reached[t] + 1
        BY <1>1, <3>1, <3>3, TakeShape DEF Numbers
      <4> QED  BY <4>1, <4>2, <4>3 DEF Reaches, Held
    <3>4. CASE Assign(t, g)
      <4>1. PICK b : b = Beginning(t)
        OBVIOUS
      <4>2. /\ skipped' = skipped \cup
                  {<<t, k>> : k \in reached[t] + 1 .. b}
            /\ reached' = [reached EXCEPT ![t] = b]
            /\ reached \in [Talks -> Nat]
        BY <3>4, <4>1 DEF Assign, TypeInv, Shapes
      <4>3. n \in reached[t] + 1 .. b
        BY <1>1, <3>1, <4>2 DEF Numbers
      <4> QED  BY <4>2, <4>3 DEF Reaches
    <3> QED  BY <3>2, <3>3, <3>4
  <2> QED  BY <2>1, <2>2
<1>3. ASSUME NEW g \in Gateways, Attach(c, g)
      PROVE  FALSE
  <2>1. opened'[c] = [u \in Talks |-> Len(feed[u])] /\ reached' = reached
    BY <1>1, <1>3 DEF Attach, partVars, TypeInv, PlatformTypeOK
  <2> QED  BY <1>1, <2>1 DEF Numbers
<1> QED  BY <1>1, <1>2, <1>3, SocketSteps

LEMMA ToldStep ==
    ASSUME TypeInv, ToldSound, [PlatformNext]_platformVars
    PROVE  ToldSound'
<1>1. ASSUME NEW x \in told
      PROVE  x[1] \in kept' /\ {x[1]} \X x[2] \subseteq receipted'
  <2>1. x[1] \in kept /\ {x[1]} \X x[2] \subseteq receipted
    BY DEF ToldSound
  <2> QED  BY <2>1, RecordsGrow
<1>2. CASE told' = told
  BY <1>1, <1>2 DEF ToldSound
<1>3. ASSUME NEW m \in Mails, NEW a \in Audiences, Announce(m, a)
      PROVE  ToldSound'
  <2>1. /\ m \in kept /\ \A u \in a : <<m, u>> \in receipted
        /\ told' = told \cup {<<m, a>>}
    BY <1>3 DEF Announce, Life!Announce
  <2>2. {m} \X a \subseteq receipted
    BY <2>1
  <2>3. m \in kept' /\ {m} \X a \subseteq receipted'
    BY <2>1, <2>2, RecordsGrow
  <2>4. <<m, a>>[1] = m /\ <<m, a>>[2] = a
    OBVIOUS
  <2>5. \A x \in told' : x \in told \/ (x[1] = m /\ x[2] = a)
    BY <2>1, <2>4
  <2> QED  BY <1>1, <2>3, <2>5 DEF ToldSound
<1>4. told' = told \/ \E m \in Mails, a \in Audiences : Announce(m, a)
  BY StepKinds, ConnectingKeeps
     DEF Process, Life!Send, Life!Store, Life!Track, CommitTaken, Reassign,
         Assign, TakeNext, GivesOut, Broadcast, Falter, Start, CrashGateway,
         lifeVars, platformVars
<1> QED  BY <1>2, <1>3, <1>4

LEMMA InLogStep ==
    ASSUME TypeInv, AllInLog, [PlatformNext]_platformVars
    PROVE  AllInLog'
<1>0. /\ \A g \in Gateways : holding[g] # Nobody => holding[g] \in Hold
      /\ \A c \in Clients : \A k \in DOMAIN got[c] : got[c][k] \in Hold
  BY DEF TypeInv, PlatformTypeOK
<1>1. ASSUME NEW x \in Hold, InLog(x)
      PROVE  InLog(x)'
  <2>1. x.talk \in Talks /\ x.place \in Nat
    BY HoldParts
  <2> QED  BY <1>1, <2>1, FeedGrows DEF InLog
<1>2. ASSUME NEW g \in Gateways, holding'[g] # Nobody
      PROVE  InLog(holding[g])'
  <2>1. CASE holding'[g] = holding[g]
    <3>1. PICK h \in Hold : h = holding[g]
      BY <1>0, <1>2, <2>1
    <3>2. InLog(h)'
      BY <1>1, <1>2, <2>1, <3>1 DEF AllInLog
    <3> QED  BY <2>1, <3>1, <3>2 DEF InLog
  <2>2. ASSUME NEW t \in Talks, TakeNext(g, t)
        PROVE  InLog(holding[g])'
    <3>1. /\ holding'[g].talk = t /\ holding'[g].place = reached[t] + 1
      <4>1. holding'[g] = Next1(t)
        BY <2>2, TakeShape
      <4> QED  BY <4>1 DEF Next1
    <3>2. reached[t] < Len(feed[t]) /\ feed' = feed /\ Numbers(t)
      BY <2>2, TypeNumbers DEF TakeNext
    <3> QED  BY <3>1, <3>2 DEF InLog, Numbers
  <2>3. \/ holding'[g] = holding[g] \/ \E t \in Talks : TakeNext(g, t)
    BY <1>2, QuietSteps, TakeShape, GiveShape DEF Quiet
  <2> QED  BY <2>1, <2>2, <2>3
<1>3. ASSUME NEW c \in Clients, NEW k \in DOMAIN got'[c]
      PROVE  InLog(got[c][k])'
  <2>1. PICK x \in Hold : x = got'[c][k] /\ InLog(x)
    BY <1>0, GotGrows DEF AllInLog
  <2> QED  BY <1>1, <2>1 DEF InLog
<1> QED  BY <1>2, <1>3 DEF AllInLog

LEMMA Misses == PlatformSpec => []MissInv
<1>1. TypeInv /\ MissInv /\ [PlatformNext]_platformVars => MissInv'
  BY NotMissedStep, ToldStep, InLogStep DEF MissInv
<1> QED  BY <1>1, MissStart, Typed, PTL DEF PlatformSpec

\* A member of the audience who was in the map of one gateway since before a
\* message was announced has it once its place is committed, but for what
\* another gateway has or has broadcast, what waits at a lock, what a crash
\* took and what a reader began behind with nothing committed; and whatever
\* anyone has is stored and has its delivery records.
THEOREM PassedOverNobody == PlatformSpec => []MissedOnlyElsewhere
<1>1. TypeInv /\ MissInv => MissedOnlyElsewhere
  <2> SUFFICES ASSUME TypeInv, MissInv
               PROVE  MissedOnlyElsewhere
    OBVIOUS
  <2>1. ASSUME NEW c \in listed, NEW t \in Talks,
               NEW n \in opened[c][t] + 1 .. settled[t],
               c # AuthorOf[feed[t][n][1]]
        PROVE  Reaches(c, t, n)
    <3>1. n \in opened[c][t] + 1 .. reached[t]
      <4>1. Numbers(t) /\ opened[c][t] \in Nat
        BY TypeNumbers DEF TypeInv, PlatformTypeOK
      <4> QED  BY <4>1 DEF Numbers
    <3> QED  BY <2>1, <3>1 DEF MissInv, NotMissed
  <2>2. ASSUME NEW c \in Clients, NEW k \in DOMAIN got[c]
        PROVE  LET said == feed[got[c][k].talk][got[c][k].place] IN
                  said[1] \in kept /\ {said[1]} \X said[2] \subseteq receipted
    <3>1. PICK x \in Hold : x = got[c][k]
      BY DEF TypeInv, PlatformTypeOK
    <3>2. x.talk \in Talks /\ x.place \in 1 .. Len(feed[x.talk])
          /\ feed[x.talk] \in Seq(told)
      <4>1. x.talk \in Talks /\ x.place \in Nat \ {0}
        BY HoldParts
      <4>2. x.place =< Len(feed[x.talk]) /\ feed[x.talk] \in Seq(told)
        BY <3>1, <4>1 DEF MissInv, AllInLog, InLog, TypeInv, PlatformTypeOK
      <4> QED  BY <4>1, <4>2
    <3>3. feed[x.talk][x.place] \in told
      BY <3>2
    <3> QED  BY <3>1, <3>3 DEF MissInv, ToldSound
  <2> QED  BY <2>1, <2>2 DEF MissedOnlyElsewhere, Reaches
<1> QED  BY <1>1, Typed, Misses, PTL

----------------------------------------------------------------------------
\* What reaches the clients never takes the messaging service further than it
\* promised: every step here is one of the lifecycle or leaves it alone.
THEOREM LifecycleKept == PlatformSpec => Life!Spec
<1>1. PlatformInit => Life!Init
  BY DEF PlatformInit
<1>2. [PlatformNext]_platformVars => [Life!Next]_(Life!lifecycle)
  <2> SUFFICES ASSUME [PlatformNext]_platformVars
               PROVE  [Life!Next]_(Life!lifecycle)
    OBVIOUS
  <2>1. ASSUME NEW m \in Mails, Process(m)
        PROVE  Life!Next
    <3>1. UNION Audiences \subseteq Clients
      BY PlatformAssumption
    <3> QED  BY <2>1, <3>1 DEF Process, Life!Next
  <2>2. ASSUME NEW m \in Mails, NEW a \in Audiences, Announce(m, a)
        PROVE  Life!Next
    <3>1. a \in SUBSET Clients
      BY PlatformAssumption
    <3> QED  BY <2>2, <3>1 DEF Announce, Life!Next
  <2>3. \/ UNCHANGED lifeVars
        \/ \E m \in Mails :
              Process(m) \/ \E a \in Audiences : Announce(m, a)
    BY StepKinds, ConnectingKeeps
       DEF CommitTaken, Reassign, Assign, TakeNext, GivesOut, Broadcast,
           Falter, Start, CrashGateway, platformVars
  <2> QED  BY <2>1, <2>2, <2>3 DEF Life!lifecycle, lifeVars
<1> QED  BY <1>1, <1>2, PTL DEF PlatformSpec, Life!Spec
=============================================================================

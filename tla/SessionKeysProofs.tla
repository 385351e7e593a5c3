------------------------- MODULE SessionKeysProofs -------------------------
(***************************************************************************)
(* Proofs about SessionKeys, for any number of sessions, steps, messages,  *)
(* requests and crashes.                                                   *)
(***************************************************************************)
EXTENDS SessionKeys, TLAPS

----------------------------------------------------------------------------
(* The inductive invariant.                                                *)

\* The keys of p: the receiving chain is the one its peer began with, and
\* the sending chain is made of the secrets of the root.
Good(p, k) ==
    /\ k.recv = [of |-> Peer(p), secrets |-> <<>>]
    /\ k.send = [of |-> IF k.secrets = <<>> THEN p ELSE NoState,
                 secrets |-> k.secrets]

LiveGood == \A p \in Parties : live[p] # NoState => Good(p, live[p])

RequestsGood == \A q \in requests : Good(q.of, q.keys)

RowsGood ==
    \A p \in Parties, s \in Sessions : stored[p][s] # NoState =>
       /\ Good(p, stored[p][s].keys)
       /\ stored[p][s].keys.id = s
       /\ stored[p][s].at =< stamp

SealedGood ==
    \A m \in sealed :
       m.early <=> m.chain = [of |-> m.from, secrets |-> <<>>]

\* What was stored last is in its row, counters apart, and no other row of
\* the party is as new.
SavedIn(p) ==
    LET s == saved[p].id IN
    /\ stored[p][s] # NoState
    /\ Counted(stored[p][s].keys) = Counted(saved[p])
    /\ stored[p][s].once => stored[p][s].keys = saved[p]
    /\ \A t \in Sessions \ {s} :
          stored[p][t] # NoState => stored[p][t].at < stored[p][s].at

SavedNewest == \A p \in Parties : saved[p] # NoState => SavedIn(p)

KeysInv ==
    KeysTypeOK /\ LiveGood /\ RequestsGood /\ RowsGood /\ SealedGood
    /\ SavedNewest

----------------------------------------------------------------------------
(* The operators.                                                          *)

\* There are two parties, and each is the peer of the other.
LEMMA PeerOfPeer ==
    ASSUME NEW p \in Parties
    PROVE  Peer(p) \in Parties /\ Peer(p) # p /\ Peer(Peer(p)) = p
<1>1. PICK a \in Parties, b \in Parties : a # b /\ Parties = {a, b}
  BY KeysAssumption
<1>2. \A x \in Parties : Peer(x) \in Parties /\ Peer(x) # x
  <2>1. SUFFICES ASSUME NEW x \in Parties
                 PROVE  Peer(x) \in Parties /\ Peer(x) # x
    OBVIOUS
  <2>2. \E y \in Parties : y # x
    BY <1>1
  <2> QED  BY <2>2, Zenon DEF Peer
<1> QED  BY <1>1, <1>2

\* A session begins with good keys.
LEMMA FreshGood ==
    ASSUME NEW p \in Parties, NEW s \in Sessions
    PROVE  /\ Fresh(p, s) \in States
           /\ Good(p, Fresh(p, s))
           /\ Fresh(p, s).id = s
<1>1. Peer(p) \in Parties  BY PeerOfPeer
<1>2. s \in 1 .. NumSessions + MaxSteps
  BY KeysAssumption, SMT DEF Sessions
<1>3. <<p, s>> \in RatchetKeys /\ <<Peer(p), s>> \in RatchetKeys
  BY <1>1, <1>2 DEF RatchetKeys
<1>4. /\ [of |-> p, secrets |-> <<>>] \in Chains
      /\ [of |-> Peer(p), secrets |-> <<>>] \in Chains
  BY <1>1 DEF Chains
<1>5. Fresh(p, s) \in States
  BY <1>3, <1>4 DEF Fresh, States
<1> QED  BY <1>5 DEF Fresh, Good

\* A ratchet step keeps keys good.
LEMMA SteppedGood ==
    ASSUME NEW p \in Parties, NEW r \in States, Good(p, r),
           NEW key \in RatchetKeys, NEW fresh \in RatchetKeys
    PROVE  Stepped(r, key, fresh) \in States
           /\ Good(p, Stepped(r, key, fresh))
<1> DEFINE d == Append(r.secrets, {r.own, key})
<1>1. d \in Seq(Secrets) /\ d # <<>>
  <2>1. r.secrets \in Seq(Secrets) /\ {r.own, key} \in Secrets
    BY DEF States, Secrets
  <2> QED  BY SMTT(30), <2>1
<1>2. [of |-> NoState, secrets |-> d] \in Chains
  BY <1>1 DEF Chains
<1> HIDE DEF d
<1>3. Stepped(r, key, fresh) =
        [r EXCEPT !.secrets = d, !.send = [of |-> NoState, secrets |-> d],
                  !.own = fresh, !.theirs = key, !.steps = @ + 1]
  BY DEF Stepped, d
<1>4. Stepped(r, key, fresh) \in States
  <2>1. Stepped(r, key, fresh) =
          [id |-> r.id, secrets |-> d,
           send |-> [of |-> NoState, secrets |-> d], recv |-> r.recv,
           own |-> fresh, theirs |-> key, steps |-> r.steps + 1]
    BY <1>3 DEF States
  <2>2. r.id \in Sessions /\ r.recv \in Chains /\ r.steps + 1 \in Nat
    BY DEF States
  <2> QED  BY <1>1, <1>2, <2>1, <2>2 DEF States
<1>5. /\ Stepped(r, key, fresh).recv = r.recv
      /\ Stepped(r, key, fresh).secrets = d
      /\ Stepped(r, key, fresh).send = [of |-> NoState, secrets |-> d]
  BY <1>3 DEF States
<1>6. Good(p, Stepped(r, key, fresh))
  BY <1>1, <1>5 DEF Good
<1> QED  BY <1>4, <1>6

\* A row that is written again holds the keys it is given, counters apart.
LEMMA RewrittenGood ==
    ASSUME NEW p \in Parties, NEW row \in Columns, NEW k \in States,
           Good(p, k), stamp \in Nat
    PROVE  LET new == Rewritten(row, k) IN
           /\ new \in Columns
           /\ Good(p, new.keys)
           /\ new.keys.id = k.id
           /\ Counted(new.keys) = Counted(k)
           /\ new.at = stamp + 1
           /\ new.once = FALSE
<1> DEFINE kept == [k EXCEPT !.steps = row.keys.steps]
<1>1. row.keys.steps \in Nat  BY DEF Columns, States
<1>2. kept \in States  BY <1>1 DEF States
<1>3. /\ kept.recv = k.recv /\ kept.send = k.send
      /\ kept.secrets = k.secrets /\ kept.id = k.id
  BY DEF States
<1>4. Counted(kept) = Counted(k)  BY DEF Counted, States
<1>5. Rewritten(row, k) =
        [row EXCEPT !.keys = kept, !.at = stamp + 1, !.once = FALSE]
  BY DEF Rewritten
<1> HIDE DEF kept
<1>6. /\ Rewritten(row, k).keys = kept
      /\ Rewritten(row, k).at = stamp + 1
      /\ Rewritten(row, k).once = FALSE
  BY <1>5 DEF Columns
<1>7. Rewritten(row, k) \in Columns
  <2>1. Rewritten(row, k) =
          [keys |-> kept, at |-> stamp + 1, once |-> FALSE]
    BY <1>5 DEF Columns
  <2> QED  BY <1>2, <2>1 DEF Columns
<1>8. Good(p, kept)  BY <1>3 DEF Good
<1> QED  BY <1>3, <1>4, <1>6, <1>7, <1>8

----------------------------------------------------------------------------
(* The steps.                                                              *)

LEMMA InitInv == KeysInit => KeysInv
BY KeysAssumption DEF KeysInit, KeysInv, KeysTypeOK, LiveGood, RequestsGood,
   RowsGood, SealedGood, SavedNewest

LEMMA BeginInv ==
    ASSUME KeysInv, NEW p \in Parties, NEW s \in Sessions, Begin(p, s)
    PROVE  KeysInv'
<1>1. Fresh(p, s) \in States /\ Good(p, Fresh(p, s))
  BY FreshGood
<1>2. KeysTypeOK'
  BY <1>1 DEF KeysInv, KeysTypeOK, Begin
<1>3. LiveGood'
  BY <1>1 DEF KeysInv, KeysTypeOK, LiveGood, Begin
<1>4. (RequestsGood /\ RowsGood /\ SealedGood /\ SavedNewest)'
  BY DEF KeysInv, RequestsGood, RowsGood, SealedGood, SavedNewest, SavedIn,
         Begin
<1> QED  BY <1>2, <1>3, <1>4 DEF KeysInv

LEMMA StepInv ==
    ASSUME KeysInv, NEW p \in Parties, Step(p)
    PROVE  KeysInv'
<1>1. PICK key \in {live[p].theirs} \cup ({Peer(p)} \X begun[Peer(p)]) :
         live' = [live EXCEPT ![p] =
            Stepped(@, key, <<p, NumSessions + steps + 1>>)]
  BY DEF Step
<1> DEFINE fresh == <<p, NumSessions + steps + 1>>
<1>2. live[p] \in States /\ Good(p, live[p])
  BY DEF Step, KeysInv, KeysTypeOK, LiveGood
<1>3. Peer(p) \in Parties  BY PeerOfPeer
<1>4. key \in RatchetKeys
  <2>1. CASE key = live[p].theirs  BY <1>2, <2>1 DEF States
  <2>2. CASE key \in {Peer(p)} \X begun[Peer(p)]
    <3>1. PICK s \in begun[Peer(p)] : key = <<Peer(p), s>>  BY <2>2
    <3>2. s \in 1 .. NumSessions
      BY <1>3, <3>1 DEF KeysInv, KeysTypeOK, Sessions
    <3>3. s \in 1 .. NumSessions + MaxSteps  BY <3>2, KeysAssumption
    <3> QED  BY <1>3, <3>1, <3>3 DEF RatchetKeys
  <2> QED  BY <2>1, <2>2
<1>5. fresh \in RatchetKeys /\ steps' \in 0 .. MaxSteps
  <2>1. /\ NumSessions + steps + 1 \in 1 .. NumSessions + MaxSteps
        /\ steps + 1 \in 0 .. MaxSteps
    BY KeysAssumption DEF Step, KeysInv, KeysTypeOK
  <2> QED  BY <2>1 DEF RatchetKeys, Step
<1> HIDE DEF fresh
<1>6. /\ Stepped(live[p], key, fresh) \in States
      /\ Good(p, Stepped(live[p], key, fresh))
  BY <1>2, <1>4, <1>5, SteppedGood
<1>7. live' = [live EXCEPT ![p] = Stepped(live[p], key, fresh)]
  BY <1>1 DEF fresh
<1>8. KeysTypeOK'
  BY <1>5, <1>6, <1>7 DEF KeysInv, KeysTypeOK, Step
<1>9. LiveGood'
  BY <1>6, <1>7 DEF KeysInv, KeysTypeOK, LiveGood
<1>10. (RequestsGood /\ RowsGood /\ SealedGood /\ SavedNewest)'
  BY DEF KeysInv, RequestsGood, RowsGood, SealedGood, SavedNewest, SavedIn,
         Step
<1> QED  BY <1>8, <1>9, <1>10 DEF KeysInv

LEMMA SealInv ==
    ASSUME KeysInv, NEW p \in Parties, Seal(p)
    PROVE  KeysInv'
<1> DEFINE m == [from |-> p, id |-> live[p].id, chain |-> live[p].send,
                 early |-> live[p].secrets = <<>>]
<1>1. live[p] \in States /\ Good(p, live[p])
  BY DEF Seal, KeysInv, KeysTypeOK, LiveGood
<1>2. live[p].id \in Sessions /\ live[p].send \in Chains
  BY <1>1 DEF States
<1>3. (live[p].secrets = <<>>) \in BOOLEAN  OBVIOUS
<1>4. m \in Ciphertexts
  BY <1>2, <1>3, Zenon DEF Ciphertexts
<1>5. m.early <=> m.chain = [of |-> m.from, secrets |-> <<>>]
  <2>1. /\ m.early <=> live[p].secrets = <<>>
        /\ m.chain = live[p].send /\ m.from = p
    BY Zenon
  <2>2. CASE live[p].secrets = <<>>
    <3>1. live[p].send = [of |-> p, secrets |-> <<>>]
      BY <1>1, <2>2 DEF Good
    <3> QED  BY <2>1, <2>2, <3>1, Zenon
  <2>3. CASE live[p].secrets # <<>>
    <3>1. live[p].send.secrets # <<>>
      BY <1>1, <2>3 DEF Good
    <3>2. live[p].send # [of |-> p, secrets |-> <<>>]  BY <3>1
    <3> QED  BY <2>1, <2>3, <3>2, Zenon
  <2> QED  BY <2>2, <2>3
<1>6. sealed' = sealed \cup {m}  BY DEF Seal
<1> HIDE DEF m
<1>7. KeysTypeOK'  BY <1>4, <1>6 DEF KeysInv, KeysTypeOK, Seal
<1>8. SealedGood'  BY <1>5, <1>6 DEF KeysInv, SealedGood
<1>9. (LiveGood /\ RequestsGood /\ RowsGood /\ SavedNewest)'
  BY DEF KeysInv, LiveGood, RequestsGood, RowsGood, SavedNewest, SavedIn,
         Seal
<1> QED  BY <1>7, <1>8, <1>9 DEF KeysInv

LEMMA AskInv ==
    ASSUME KeysInv, NEW p \in Parties, Ask(p)
    PROVE  KeysInv'
<1>1. live[p] \in States /\ Good(p, live[p])
  BY DEF Ask, KeysInv, KeysTypeOK, LiveGood
<1>2. KeysTypeOK'  BY <1>1 DEF KeysInv, KeysTypeOK, Ask
<1>3. RequestsGood'  BY <1>1 DEF KeysInv, RequestsGood, Ask
<1>4. (LiveGood /\ RowsGood /\ SealedGood /\ SavedNewest)'
  BY DEF KeysInv, LiveGood, RowsGood, SealedGood, SavedNewest, SavedIn, Ask
<1> QED  BY <1>2, <1>3, <1>4 DEF KeysInv

LEMMA CrashInv ==
    ASSUME KeysInv, NEW p \in Parties, Crash(p)
    PROVE  KeysInv'
<1>1. KeysTypeOK'  BY DEF KeysInv, KeysTypeOK, Crash
<1>2. LiveGood'  BY DEF KeysInv, KeysTypeOK, LiveGood, Crash
<1>3. (RequestsGood /\ RowsGood /\ SealedGood /\ SavedNewest)'
  BY DEF KeysInv, RequestsGood, RowsGood, SealedGood, SavedNewest, SavedIn,
         Crash
<1> QED  BY <1>1, <1>2, <1>3 DEF KeysInv

LEMMA RestoreInv ==
    ASSUME KeysInv, NEW p \in Parties, Restore(p)
    PROVE  KeysInv'
<1>1. PICK s \in Newest(p) : live' = [live EXCEPT ![p] = stored[p][s].keys]
  BY DEF Restore
<1>2. s \in Sessions /\ stored[p][s] # NoState
  BY DEF Newest, Kept
<1>3. stored[p][s].keys \in States /\ Good(p, stored[p][s].keys)
  BY <1>2 DEF KeysInv, KeysTypeOK, RowsGood, Columns
<1>4. KeysTypeOK'  BY <1>1, <1>3 DEF KeysInv, KeysTypeOK, Restore
<1>5. LiveGood'  BY <1>1, <1>3 DEF KeysInv, KeysTypeOK, LiveGood
<1>6. (RequestsGood /\ RowsGood /\ SealedGood /\ SavedNewest)'
  BY DEF KeysInv, RequestsGood, RowsGood, SealedGood, SavedNewest, SavedIn,
         Restore
<1> QED  BY <1>4, <1>5, <1>6 DEF KeysInv

LEMMA DeleteInv ==
    ASSUME KeysInv, NEW s \in Sessions, Delete(s)
    PROVE  KeysInv'
<1>1. \A p \in Parties : stored'[p] = [stored[p] EXCEPT ![s] = NoState]
  BY DEF Delete
<1>2. \A p \in Parties, t \in Sessions :
         stored'[p][t] = IF t = s THEN NoState ELSE stored[p][t]
  <2>1. TAKE p \in Parties, t \in Sessions
  <2>2. stored[p] \in [Sessions -> Columns \cup {NoState}]
    BY DEF KeysInv, KeysTypeOK
  <2>3. stored'[p] = [stored[p] EXCEPT ![s] = NoState]  BY <1>1
  <2> QED  BY <2>2, <2>3
<1>3. \A p \in Parties : saved'[p] # NoState =>
         saved'[p] = saved[p] /\ saved[p] # NoState /\ saved[p].id # s
  BY DEF Delete
<1>4. KeysTypeOK'
  <2>1. stored' \in [Parties -> [Sessions -> Columns \cup {NoState}]]
    BY <1>1 DEF KeysInv, KeysTypeOK, Delete
  <2>2. saved' \in [Parties -> States \cup {NoState}]
    BY DEF KeysInv, KeysTypeOK, Delete
  <2> QED  BY <2>1, <2>2 DEF KeysInv, KeysTypeOK, Delete
<1>5. RowsGood'  BY <1>2 DEF KeysInv, RowsGood, Delete
<1>6. SavedNewest'
  <2>1. SUFFICES ASSUME NEW p \in Parties, saved'[p] # NoState
                 PROVE  SavedIn(p)'
    BY DEF SavedNewest
  <2>2. SavedIn(p) /\ saved'[p] = saved[p] /\ saved[p].id # s
    BY <1>3, <2>1 DEF KeysInv, SavedNewest
  <2>3. saved[p].id \in Sessions
    BY <1>3, <2>1 DEF KeysInv, KeysTypeOK, States
  <2> QED  BY <1>2, <2>2, <2>3 DEF SavedIn
<1>7. (LiveGood /\ RequestsGood /\ SealedGood)'
  BY DEF KeysInv, LiveGood, RequestsGood, SealedGood, Delete
<1> QED  BY <1>4, <1>5, <1>6, <1>7 DEF KeysInv

\* The row that a request leaves behind.
LEMMA StoreInv ==
    ASSUME KeysInv, NEW q \in requests, Store(q)
    PROVE  KeysInv'
<1> DEFINE p == q.of
           s == q.keys.id
           row == IF stored[p][s] = NoState
                    THEN [keys |-> q.keys, at |-> stamp + 1, once |-> TRUE]
                    ELSE Rewritten(stored[p][s], q.keys)
<1>1. /\ p \in Parties /\ q.keys \in States /\ s \in Sessions
      /\ Good(p, q.keys) /\ stamp \in Nat
  BY DEF KeysInv, KeysTypeOK, RequestsGood, States
<1>2. /\ row \in Columns /\ Good(p, row.keys) /\ row.keys.id = s
      /\ Counted(row.keys) = Counted(q.keys) /\ row.at = stamp + 1
      /\ row.once => row.keys = q.keys
  <2>1. CASE stored[p][s] = NoState
    <3>1. row = [keys |-> q.keys, at |-> stamp + 1, once |-> TRUE]
      BY <2>1
    <3> HIDE DEF row
    <3>2. /\ row.keys = q.keys /\ row.at = stamp + 1 /\ row.once = TRUE
      BY <3>1
    <3>3. row \in Columns  BY <1>1, <3>1 DEF Columns
    <3> QED  BY <1>1, <3>2, <3>3
  <2>2. CASE stored[p][s] # NoState
    <3>1. stored[p][s] \in Columns
      BY <1>1, <2>2 DEF KeysInv, KeysTypeOK
    <3>2. row = Rewritten(stored[p][s], q.keys)  BY <2>2
    <3> QED  BY <1>1, <3>1, <3>2, RewrittenGood
  <2> QED  BY <2>1, <2>2
<1>3. /\ stored' = [stored EXCEPT ![p][s] = row]
      /\ saved' = [saved EXCEPT ![p] = q.keys]
      /\ requests' = requests \ {q} /\ stamp' = stamp + 1
  BY DEF Store
<1> HIDE DEF row
<1>4. \A x \in Parties, t \in Sessions :
         stored'[x][t] = IF x = p /\ t = s THEN row ELSE stored[x][t]
  BY <1>1, <1>3 DEF KeysInv, KeysTypeOK
<1>5. \A x \in Parties : saved'[x] = IF x = p THEN q.keys ELSE saved[x]
  BY <1>1, <1>3 DEF KeysInv, KeysTypeOK
<1>6. row # NoState  BY <1>2, NoStateAssumption
<1>7. KeysTypeOK'
  <2>1. stored' \in [Parties -> [Sessions -> Columns \cup {NoState}]]
    BY <1>1, <1>2, <1>3 DEF KeysInv, KeysTypeOK
  <2>2. saved' \in [Parties -> States \cup {NoState}]
    BY <1>1, <1>3 DEF KeysInv, KeysTypeOK
  <2> QED  BY <1>1, <1>3, <2>1, <2>2 DEF KeysInv, KeysTypeOK, Store
<1>8. RowsGood'
  <2>1. SUFFICES ASSUME NEW x \in Parties, NEW t \in Sessions,
                        stored'[x][t] # NoState
                 PROVE  /\ Good(x, stored'[x][t].keys)
                        /\ stored'[x][t].keys.id = t
                        /\ stored'[x][t].at =< stamp'
    BY DEF RowsGood, Good
  <2>2. CASE x = p /\ t = s
    BY <1>1, <1>2, <1>3, <1>4, <2>2
  <2>3. CASE ~(x = p /\ t = s)
    <3>1. stored'[x][t] = stored[x][t]  BY <1>4, <2>3
    <3>2. stored[x][t].at =< stamp /\ stored[x][t].at \in Nat
      BY <2>1, <3>1 DEF KeysInv, KeysTypeOK, RowsGood, Columns
    <3>3. stored[x][t].at =< stamp'  BY <1>1, <1>3, <3>2
    <3> QED  BY <2>1, <3>1, <3>3 DEF KeysInv, RowsGood
  <2> QED  BY <2>2, <2>3
<1>9. SavedNewest'
  <2>1. SUFFICES ASSUME NEW x \in Parties, saved'[x] # NoState
                 PROVE  SavedIn(x)'
    BY DEF SavedNewest
  <2>2. CASE x = p
    <3>1. saved'[x] = q.keys /\ saved'[x].id = s  BY <1>5, <2>2
    <3>2. stored'[x][s] = row  BY <1>1, <1>4, <2>2
    <3>3. ASSUME NEW t \in Sessions \ {s}, stored'[x][t] # NoState
          PROVE  stored'[x][t].at < row.at
      <4>1. stored'[x][t] = stored[x][t]  BY <1>4
      <4>2. stored[x][t].at =< stamp /\ stored[x][t].at \in Nat
        BY <3>3, <4>1 DEF KeysInv, KeysTypeOK, RowsGood, Columns
      <4> QED  BY <1>1, <1>2, <4>1, <4>2
    <3> QED  BY <1>2, <1>6, <3>1, <3>2, <3>3 DEF SavedIn
  <2>3. CASE x # p
    <3>1. saved'[x] = saved[x] /\ saved[x] # NoState  BY <1>5, <2>1, <2>3
    <3>2. saved[x].id \in Sessions
      BY <3>1 DEF KeysInv, KeysTypeOK, States
    <3>3. \A t \in Sessions : stored'[x][t] = stored[x][t]
      BY <1>4, <2>3
    <3>4. SavedIn(x)  BY <3>1 DEF KeysInv, SavedNewest
    <3> QED  BY <3>1, <3>2, <3>3, <3>4 DEF SavedIn
  <2> QED  BY <2>2, <2>3
<1>10. RequestsGood'  BY <1>3 DEF KeysInv, RequestsGood
<1>11. (LiveGood /\ SealedGood)'
  BY DEF KeysInv, LiveGood, SealedGood, Store
<1> QED  BY <1>7, <1>8, <1>9, <1>10, <1>11 DEF KeysInv

----------------------------------------------------------------------------
(* The theorems.                                                           *)

LEMMA NextInv == KeysInv /\ [KeysNext]_keysVars => KeysInv'
<1>1. SUFFICES ASSUME KeysInv, [KeysNext]_keysVars
               PROVE  KeysInv'
  OBVIOUS
<1>2. ASSUME NEW p \in Parties,
             \/ \E s \in Sessions : Begin(p, s)
             \/ Step(p) \/ Seal(p) \/ Ask(p) \/ Crash(p) \/ Restore(p)
      PROVE  KeysInv'
  BY <1>1, <1>2, BeginInv, StepInv, SealInv, AskInv, CrashInv, RestoreInv
<1>3. ASSUME NEW q \in requests, Store(q)
      PROVE  KeysInv'
  BY <1>1, <1>3, StoreInv
<1>4. ASSUME NEW s \in Sessions, Delete(s)
      PROVE  KeysInv'
  BY <1>1, <1>4, DeleteInv
<1>5. CASE UNCHANGED keysVars
  BY <1>1, <1>5 DEF keysVars, KeysInv, KeysTypeOK, LiveGood, RequestsGood,
     RowsGood, SealedGood, SavedNewest, SavedIn
<1> QED  BY <1>1, <1>2, <1>3, <1>4, <1>5 DEF KeysNext

LEMMA Invariance == KeysSpec => []KeysInv
BY InitInv, NextInv, PTL DEF KeysSpec

\* The ratchets, rows, requests and ciphertexts are well typed: in particular
\* no ratchet step makes a key of no one, and a row keeps to its columns.
THEOREM KeysTypeCorrect == KeysSpec => []KeysTypeOK
<1>1. KeysInv => KeysTypeOK  BY DEF KeysInv
<1> QED  BY <1>1, Invariance, PTL

\* perform_ratchet_step leaves the receiving chain: for ever after, a party
\* hears of its peer what that sealed with keys without a step in them, and
\* nothing else.
THEOREM OpensCorrect == KeysSpec => []OpensIffSealedEarly
<1>1. KeysInv => OpensIffSealedEarly
  <2>1. SUFFICES ASSUME KeysInv, NEW m \in sealed,
                        live[Peer(m.from)] # NoState
                 PROVE  LET p == Peer(m.from) IN
                        Opens(p, m) <=> m.early /\ m.id = live[p].id
    BY DEF OpensIffSealedEarly
  <2> DEFINE p == Peer(m.from)
  <2>2. m.from \in Parties  BY <2>1 DEF KeysInv, KeysTypeOK, Ciphertexts
  <2>3. p \in Parties /\ Peer(p) = m.from  BY <2>2, PeerOfPeer
  <2>4. live[p].recv = [of |-> m.from, secrets |-> <<>>]
    BY <2>1, <2>3 DEF KeysInv, LiveGood, Good
  <2>5. m.early <=> m.chain = [of |-> m.from, secrets |-> <<>>]
    BY <2>1 DEF KeysInv, SealedGood
  <2> QED  BY <2>1, <2>4, <2>5 DEF Opens
<1> QED  BY <1>1, Invariance, PTL

\* A restart finds the keys that were stored last, whatever was stored,
\* overtaken and deleted before.
THEOREM RestartCorrect == KeysSpec => RestartResumes
<1>1. ASSUME KeysInv, [KeysNext]_keysVars, NEW p \in Parties
      PROVE  Resumed(p)
  <2>1. SUFFICES ASSUME live[p] = NoState, live'[p] # NoState,
                        begun'[p] = begun[p],
                        saved[p] # NoState, crashed[p] # NoState,
                        Counted(saved[p]) = Counted(crashed[p])
                 PROVE  /\ Counted(live'[p]) = Counted(crashed[p])
                        /\ stored[p][saved[p].id].once => live'[p] = saved[p]
    BY DEF Resumed
  <2>2. Restore(p)
    <3>1. ASSUME NEW q \in Parties, q # p
          PROVE  /\ \A s \in Sessions : ~Begin(q, s)
                 /\ ~Step(q) /\ ~Crash(q) /\ ~Restore(q)
      BY <1>1, <2>1, <3>1 DEF KeysInv, KeysTypeOK, Begin, Step, Crash, Restore
    <3>2. /\ \A s \in Sessions : ~Begin(p, s)
          /\ ~Step(p) /\ ~Crash(p)
      BY <1>1, <2>1 DEF KeysInv, KeysTypeOK, Begin, Step, Crash
    <3>3. \A q \in Parties : ~Seal(q) /\ ~Ask(q)
      BY <2>1 DEF Seal, Ask
    <3>4. /\ \A q \in requests : ~Store(q)
          /\ \A s \in Sessions : ~Delete(s)
          /\ ~UNCHANGED keysVars
      BY <2>1 DEF Store, Delete, keysVars
    <3> QED  BY <1>1, <3>1, <3>2, <3>3, <3>4 DEF KeysNext
  <2>3. PICK s \in Newest(p) : live' = [live EXCEPT ![p] = stored[p][s].keys]
    BY <2>2 DEF Restore
  <2> DEFINE t == saved[p].id
  <2>4. SavedIn(p) /\ t \in Sessions
    BY <1>1, <2>1 DEF KeysInv, KeysTypeOK, SavedNewest, States
  <2>5. s = t
    <3>1. /\ s \in Sessions /\ stored[p][s] # NoState
          /\ stored[p][s].at >= stored[p][t].at
      BY <2>3, <2>4 DEF Newest, Kept, SavedIn
    <3>2. stored[p][s].at \in Nat /\ stored[p][t].at \in Nat
      BY <1>1, <2>4, <3>1 DEF KeysInv, KeysTypeOK, Columns, SavedIn
    <3>3. s # t => stored[p][s].at < stored[p][t].at
      BY <2>4, <3>1 DEF SavedIn
    <3> QED  BY <3>1, <3>2, <3>3
  <2>6. live'[p] = stored[p][t].keys
    BY <1>1, <2>3, <2>5 DEF KeysInv, KeysTypeOK
  <2> QED  BY <2>1, <2>4, <2>6 DEF SavedIn
<1>2. KeysInv /\ [KeysNext]_keysVars =>
         [\A p \in Parties : Resumed(p)]_keysVars
  BY <1>1
<1> QED  BY <1>2, Invariance, PTL DEF KeysSpec, RestartResumes
=============================================================================

---------------------------- MODULE SessionKeys ----------------------------
(***************************************************************************)
(* Two parties with double ratchets (shared/src/crypto/mod.rs and          *)
(* client-sdk/src/crypto/mod.rs) who keep their sessions in the key store  *)
(* (encryption-service/src/main.rs) and take them from there after a       *)
(* restart.  Messages may be delayed, repeated and reordered; a request to *)
(* store may be overtaken by a later one.                                  *)
(*                                                                         *)
(* Keys are symbols.  A ratchet key is its owner and a number, the first   *)
(* of a session being numbered by it; a Diffie-Hellman secret is the set   *)
(* of the two keys; a root key is the secrets that went into it.  A chain  *)
(* key is the party it was made for at the start, or, after a step, what   *)
(* the step derived from the root.  A ciphertext opens with the chain key  *)
(* it was sealed with, and with no other.                                  *)
(***************************************************************************)
EXTENDS Naturals, Sequences, FiniteSets

CONSTANTS
    Parties, NumSessions, NoState,
    MaxSteps, MaxSeals, MaxStores, MaxCrashes

ASSUME KeysAssumption ==
    /\ \E a, b \in Parties : a # b /\ Parties = {a, b}
    /\ NumSessions \in Nat /\ MaxSteps \in Nat
    /\ NoState \notin Parties

Sessions == 1 .. NumSessions
Peer(p) == CHOOSE q \in Parties : q # p

VARIABLES
    live,       \* the ratchet a party works with
    begun,      \* the sessions each party has begun
    steps,      \* steps made, which number the fresh ratchet keys
    sealed,     \* messages, with the session and the chain key they are under
    requests,   \* calls of store_encryption_session under way
    stored,     \* encryption_sessions: the row of a party and a session
    stamp,      \* updates made: the clock of updated_at
    crashes,
    saved,      \* history: what was last stored for a party
    crashed     \* history: what a party lost when it last stopped

keysVars == <<live, begun, steps, sealed, requests, stored, stamp, crashes,
              saved, crashed>>

RatchetKeys == Parties \X (1 .. NumSessions + MaxSteps)
Secrets == SUBSET RatchetKeys
Chains == [of : Parties \cup {NoState}, secrets : Seq(Secrets)]
States == [id : Sessions, secrets : Seq(Secrets), send : Chains,
           recv : Chains, own : RatchetKeys, theirs : RatchetKeys,
           steps : Nat]
Columns == [keys : States, at : Nat, once : BOOLEAN]
Ciphertexts == [from : Parties, id : Sessions, chain : Chains,
                early : BOOLEAN]

ASSUME NoStateAssumption == NoState \notin Columns

KeysTypeOK ==
    /\ live \in [Parties -> States \cup {NoState}]
    /\ begun \in [Parties -> SUBSET Sessions]
    /\ steps \in 0 .. MaxSteps
    /\ sealed \subseteq Ciphertexts
    /\ requests \subseteq [of : Parties, keys : States]
    /\ stored \in [Parties -> [Sessions -> Columns \cup {NoState}]]
    /\ stamp \in Nat /\ crashes \in Nat
    /\ saved \in [Parties -> States \cup {NoState}]
    /\ crashed \in [Parties -> States \cup {NoState}]

KeysInit ==
    /\ live = [p \in Parties |-> NoState]
    /\ begun = [p \in Parties |-> {}]
    /\ steps = 0 /\ sealed = {} /\ requests = {}
    /\ stored = [p \in Parties |-> [s \in Sessions |-> NoState]]
    /\ stamp = 0 /\ crashes = 0
    /\ saved = [p \in Parties |-> NoState]
    /\ crashed = [p \in Parties |-> NoState]

----------------------------------------------------------------------------
(* The ratchet.                                                            *)

\* DoubleRatchet::new, with the keys the parties are given for a session:
\* the sending chain of one is the receiving chain of the other.
Fresh(p, s) ==
    [id |-> s, secrets |-> <<>>,
     send |-> [of |-> p, secrets |-> <<>>],
     recv |-> [of |-> Peer(p), secrets |-> <<>>],
     own |-> <<p, s>>, theirs |-> <<Peer(p), s>>, steps |-> 0]

Begin(p, s) ==
    /\ s \notin begun[p]
    /\ begun' = [begun EXCEPT ![p] = @ \cup {s}]
    /\ live' = [live EXCEPT ![p] = Fresh(p, s)]
    /\ UNCHANGED <<steps, sealed, requests, stored, stamp, crashes, saved,
                   crashed>>

\* Slip: the receiving chain is replaced together with the sending one.
BugStepped(r, key, fresh) ==
    LET derived == Append(r.secrets, {r.own, key})
        chain == [of |-> NoState, secrets |-> derived]
    IN  [r EXCEPT !.secrets = derived, !.send = chain, !.recv = chain,
                  !.own = fresh, !.theirs = key, !.steps = @ + 1]

\* perform_ratchet_step with a public key of the peer: the root and the
\* sending chain are replaced, and the receiving chain is left.
Stepped(r, key, fresh) ==
    LET derived == Append(r.secrets, {r.own, key})
    IN  [r EXCEPT !.secrets = derived,
                  !.send = [of |-> NoState, secrets |-> derived],
                  !.own = fresh, !.theirs = key, !.steps = @ + 1]

\* In the shared crate the key is the one the session has; in the SDK the
\* caller gives it.  The public key of a fresh secret leaves neither function,
\* so the caller can only know those that sessions of the peer began with.
Step(p) ==
    /\ live[p] # NoState /\ steps < MaxSteps
    /\ \E key \in {live[p].theirs} \cup ({Peer(p)} \X begun[Peer(p)]) :
          live' = [live EXCEPT ![p] =
             Stepped(@, key, <<p, NumSessions + steps + 1>>)]
    /\ steps' = steps + 1
    /\ UNCHANGED <<begun, sealed, requests, stored, stamp, crashes, saved,
                   crashed>>

\* encrypt_message: the key is derived from the sending chain, and the state
\* is left as it was.
Seal(p) ==
    /\ live[p] # NoState /\ Cardinality(sealed) < MaxSeals
    /\ sealed' = sealed \cup
          {[from |-> p, id |-> live[p].id, chain |-> live[p].send,
            early |-> live[p].secrets = <<>>]}
    /\ UNCHANGED <<live, begun, steps, requests, stored, stamp, crashes,
                   saved, crashed>>

\* decrypt_message succeeds; it leaves the state as it was, too.
Opens(p, m) ==
    live[p] # NoState /\ m.id = live[p].id /\ m.chain = live[p].recv

----------------------------------------------------------------------------
(* The key store, and restarts.                                            *)

Ask(p) ==
    /\ live[p] # NoState
    /\ stamp + Cardinality(requests) < MaxStores
    /\ requests' = requests \cup {[of |-> p, keys |-> live[p]]}
    /\ UNCHANGED <<live, begun, steps, sealed, stored, stamp, crashes, saved,
                   crashed>>

\* The row on a conflict: the keys and updated_at are set, the counters are
\* not among the columns of the update.
Rewritten(row, keys) ==
    [row EXCEPT !.keys = [keys EXCEPT !.steps = row.keys.steps],
                !.at = stamp + 1, !.once = FALSE]

\* store_encryption_session
Store(q) ==
    LET row == stored[q.of][q.keys.id] IN
    /\ requests' = requests \ {q}
    /\ stamp' = stamp + 1
    /\ stored' = [stored EXCEPT ![q.of][q.keys.id] =
          IF row = NoState THEN [keys |-> q.keys, at |-> stamp + 1,
                                 once |-> TRUE]
                           ELSE Rewritten(row, q.keys)]
    /\ saved' = [saved EXCEPT ![q.of] = q.keys]
    /\ UNCHANGED <<live, begun, steps, sealed, crashes, crashed>>

\* delete_encryption_session: the rows of both parties.
Delete(s) ==
    /\ \E p \in Parties : stored[p][s] # NoState
    /\ stored' = [p \in Parties |-> [stored[p] EXCEPT ![s] = NoState]]
    /\ saved' = [p \in Parties |->
          IF saved[p] # NoState /\ saved[p].id = s THEN NoState ELSE saved[p]]
    /\ UNCHANGED <<live, begun, steps, sealed, requests, stamp, crashes,
                   crashed>>

Kept(p) == {s \in Sessions : stored[p][s] # NoState}

\* Slip: the oldest row is taken.
BugNewest(p) ==
    {s \in Kept(p) : \A t \in Kept(p) : stored[p][s].at =< stored[p][t].at}

\* ORDER BY updated_at DESC LIMIT 1
Newest(p) ==
    {s \in Kept(p) : \A t \in Kept(p) : stored[p][s].at >= stored[p][t].at}

Crash(p) ==
    /\ live[p] # NoState /\ crashes < MaxCrashes
    /\ crashes' = crashes + 1
    /\ crashed' = [crashed EXCEPT ![p] = live[p]]
    /\ live' = [live EXCEPT ![p] = NoState]
    /\ UNCHANGED <<begun, steps, sealed, requests, stored, stamp, saved>>

\* get_encryption_session, after a restart; without a row it is not found.
Restore(p) ==
    /\ live[p] = NoState
    /\ \E s \in Newest(p) : live' = [live EXCEPT ![p] = stored[p][s].keys]
    /\ UNCHANGED <<begun, steps, sealed, requests, stored, stamp, crashes,
                   saved, crashed>>

----------------------------------------------------------------------------
KeysNext ==
    \/ \E p \in Parties :
          \/ \E s \in Sessions : Begin(p, s)
          \/ Step(p) \/ Seal(p) \/ Ask(p) \/ Crash(p) \/ Restore(p)
    \/ \E q \in requests : Store(q)
    \/ \E s \in Sessions : Delete(s)

KeysSpec == KeysInit /\ [][KeysNext]_keysVars

----------------------------------------------------------------------------
\* A message opens, however late and in whatever order it comes and whatever
\* steps and restarts its receiver has been through, exactly when it is of
\* the session the receiver works with and was sealed with keys that have no
\* step of its sender in them: before its first step in that session, or after
\* a restart that took it back to keys stored before that.
OpensIffSealedEarly ==
    \A m \in sealed : LET p == Peer(m.from) IN
       live[p] # NoState => (Opens(p, m) <=> m.early /\ m.id = live[p].id)

\* A party whose keys were the last to be stored for it before it stopped
\* gets all of them back, and not those of another session; its counters too
\* if it had stored that session once.
Counted(k) == [k EXCEPT !.steps = 0]
Resumed(p) ==
    (/\ live[p] = NoState /\ live'[p] # NoState
     /\ begun'[p] = begun[p]
     /\ saved[p] # NoState /\ crashed[p] # NoState
     /\ Counted(saved[p]) = Counted(crashed[p]))
       => /\ Counted(live'[p]) = Counted(crashed[p])
          /\ stored[p][saved[p].id].once => live'[p] = saved[p]
RestartResumes == [][\A p \in Parties : Resumed(p)]_keysVars
=============================================================================

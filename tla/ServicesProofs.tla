--------------------------- MODULE ServicesProofs ---------------------------
(***************************************************************************)
(* Proofs about the auth service, for any registrations and logins, and    *)
(* then about the four services together.                                  *)
(***************************************************************************)
EXTENDS Services, ModerationProofs, SessionKeysProofs, PresenceProofs, TLAPS

\* A request is a registration or a login.
Disjoint == Registrations \cap Logins = {}

\* Why nobody is signed out by another device: a session is there before a
\* login can see it, its user never changes after that, and a login that is
\* about to revoke holds a session of its own user and device, not its own.
SessionsArePlaced ==
    \A l \in sessions \cap Logins :
       step[l] \notin {"new", "look", "revoke", "insert"}

LooksArePast ==
    \A l \in Logins :
       /\ looked[l] \subseteq sessions
       /\ step[l] \in {"new", "look"} => looked[l] = {}

RevokesOwnDevice ==
    \A l \in Logins : step[l] = "revoke" =>
       /\ found[l] \in looked[l] /\ found[l] # l
       /\ UserOf(found[l]) = account[l] /\ DeviceOf[found[l]] = DeviceOf[l]

\* Why clashing accounts overlap: an account, or a registration about to make
\* one, clashes with none it has seen.
AccountsArePlaced == \A r \in accounts : step[r] = "ok"

NoneSeenClash ==
    \A r \in Registrations : (r \in accounts \/ step[r] = "insert") =>
       \A q \in noted[r] : ~Clash(r, q)

AuthInv ==
    /\ AuthTypeOK
    /\ SessionsArePlaced /\ LooksArePast /\ RevokesOwnDevice
    /\ RevokedByLaterLogin
    /\ AccountsArePlaced /\ NoneSeenClash

----------------------------------------------------------------------------
\* Every action keeps the types; a revocation, because what it revokes was
\* seen.
LEMMA AuthTypeStep ==
    ASSUME AuthTypeOK, LooksArePast, RevokesOwnDevice, [AuthNext]_authVars
    PROVE  AuthTypeOK'
<1>1. CASE UNCHANGED authVars
  BY <1>1 DEF AuthTypeOK, authVars
<1>2. ASSUME NEW q \in Requests, Fail(q) PROVE AuthTypeOK'
  BY <1>2 DEF AuthTypeOK, Fail, Goto
<1>3. ASSUME NEW r \in Registrations,
             Deactivate(r) \/ CheckUser(r) \/ CreateUser(r)
      PROVE  AuthTypeOK'
  <2>1. CASE Deactivate(r)
    BY <2>1 DEF AuthTypeOK, Deactivate
  <2>2. CASE CheckUser(r)
    BY <2>2 DEF AuthTypeOK, CheckUser, Goto, Requests
  <2>3. CASE CreateUser(r)
    BY <2>3 DEF AuthTypeOK, CreateUser, Goto, Requests
  <2>4. QED BY <1>3, <2>1, <2>2, <2>3
<1>4. ASSUME NEW l \in Logins, Authenticate(l) PROVE AuthTypeOK'
  BY <1>4 DEF AuthTypeOK, Authenticate, Goto, Requests
<1>5. ASSUME NEW l \in Logins, LookForSession(l) PROVE AuthTypeOK'
  BY <1>5 DEF AuthTypeOK, LookForSession, OnDevice, Goto, Requests
<1>6. ASSUME NEW l \in Logins, RevokeOld(l) PROVE AuthTypeOK'
  <2>1. found[l] \in Requests
    BY <1>6 DEF RevokeOld, RevokesOwnDevice, LooksArePast, AuthTypeOK
  <2>2. QED BY <1>6, <2>1 DEF AuthTypeOK, RevokeOld, Goto, Requests
<1>7. ASSUME NEW l \in Logins, CreateSession(l) \/ TouchUser(l)
      PROVE  AuthTypeOK'
  BY <1>7 DEF AuthTypeOK, CreateSession, TouchUser, Goto, Requests
<1>8. QED BY <1>1, <1>2, <1>3, <1>4, <1>5, <1>6, <1>7 DEF AuthNext

\* What a step leaves alone: the user of a session that is there, and what is
\* there already.
LEMMA UsersStay ==
    ASSUME AuthInv, [AuthNext]_authVars, Disjoint
    PROVE  /\ \A s \in sessions : UserOf(s)' = UserOf(s)
           /\ \A l \in Logins : step[l] # "new" => account'[l] = account[l]
           /\ sessions \subseteq sessions'
           /\ accounts \subseteq accounts'
<1>1. \A l \in Logins : step[l] # "new" => account'[l] = account[l]
  <2>1. ASSUME NEW l \in Logins, NEW k \in Logins, step[l] # "new",
               Authenticate(k)
        PROVE  account'[l] = account[l]
    BY <2>1 DEF Authenticate, AuthInv, AuthTypeOK
  <2>2. QED
    BY <2>1 DEF AuthNext, authVars, Fail, Deactivate, CheckUser, CreateUser,
       LookForSession, RevokeOld, CreateSession, TouchUser
<1>2. sessions \subseteq sessions' /\ accounts \subseteq accounts'
  BY DEF AuthNext, authVars, Fail, Deactivate, CheckUser, CreateUser,
     Authenticate, LookForSession, RevokeOld, CreateSession, TouchUser
<1>3. ASSUME NEW s \in sessions PROVE UserOf(s)' = UserOf(s)
  <2>1. CASE s \in Registrations
    BY <2>1 DEF UserOf
  <2>2. CASE s \in Logins
    BY <1>1, <2>2 DEF UserOf, AuthInv, SessionsArePlaced
  <2>3. QED BY <2>1, <2>2 DEF AuthInv, AuthTypeOK, Requests
<1>4. QED BY <1>1, <1>2, <1>3

\* One request moves, and the session and the account it may have made are
\* its own.
LEMMA PlacedMove ==
    ASSUME AuthTypeOK, SessionsArePlaced, AccountsArePlaced,
           NEW q \in Requests, NEW place,
           step' = [step EXCEPT ![q] = place],
           sessions' \subseteq sessions \cup {q},
           accounts' \subseteq accounts \cup {q},
           q \in sessions' \cap Logins =>
              place \notin {"new", "look", "revoke", "insert"},
           q \in accounts' => place = "ok"
    PROVE  SessionsArePlaced' /\ AccountsArePlaced'
<1>1. \A p \in Requests : p # q => step'[p] = step[p]
  BY DEF AuthTypeOK
<1>2. step'[q] = place
  BY DEF AuthTypeOK
<1>3. SessionsArePlaced'
  BY <1>1, <1>2 DEF SessionsArePlaced, Requests
<1>4. AccountsArePlaced'
  BY <1>1, <1>2 DEF AccountsArePlaced, AuthTypeOK, Requests
<1>5. QED BY <1>3, <1>4

\* A session stays where a login cannot start again.
LEMMA PlacedStep ==
    ASSUME AuthInv, [AuthNext]_authVars, Disjoint
    PROVE  SessionsArePlaced' /\ AccountsArePlaced'
<1>1. CASE UNCHANGED authVars
  BY <1>1 DEF authVars, AuthInv, SessionsArePlaced, AccountsArePlaced
<1>2. ASSUME NEW q \in Requests, Fail(q)
      PROVE  SessionsArePlaced' /\ AccountsArePlaced'
  <2>1. q \notin accounts
    BY <1>2 DEF Fail, AuthInv, AccountsArePlaced
  <2>2. QED BY <1>2, <2>1, PlacedMove DEF Fail, Goto, AuthInv
<1>3. ASSUME NEW r \in Registrations, Deactivate(r)
      PROVE  SessionsArePlaced' /\ AccountsArePlaced'
  BY <1>3 DEF Deactivate, AuthInv, SessionsArePlaced, AccountsArePlaced
<1>4. ASSUME NEW r \in Registrations, CheckUser(r)
      PROVE  SessionsArePlaced' /\ AccountsArePlaced'
  <2>1. r \in Requests /\ r \notin Logins /\ r \notin accounts
    BY <1>4 DEF Disjoint, Requests, CheckUser, AuthInv, AccountsArePlaced
  <2>2. /\ sessions' = sessions /\ accounts' = accounts
        /\ \/ step' = [step EXCEPT ![r] = "refused"]
           \/ step' = [step EXCEPT ![r] = "insert"]
    BY <1>4, Zenon DEF CheckUser, Goto
  <2>3. QED BY <2>1, <2>2, PlacedMove DEF AuthInv
<1>5. ASSUME NEW r \in Registrations, CreateUser(r)
      PROVE  SessionsArePlaced' /\ AccountsArePlaced'
  <2>1. r \in Requests /\ r \notin Logins
    BY DEF Disjoint, Requests
  <2>2. QED BY <1>5, <2>1, PlacedMove DEF CreateUser, Goto, AuthInv
<1>6. ASSUME NEW l \in Logins
      PROVE  l \in Requests /\ l \notin accounts
  BY DEF Disjoint, Requests, AuthInv, AuthTypeOK
<1>7. ASSUME NEW l \in Logins, Authenticate(l)
      PROVE  SessionsArePlaced' /\ AccountsArePlaced'
  <2>1. l \notin sessions
    BY <1>7 DEF Authenticate, AuthInv, SessionsArePlaced
  <2>2. /\ sessions' = sessions /\ accounts' = accounts
        /\ \/ step' = [step EXCEPT ![l] = "look"]
           \/ step' = [step EXCEPT ![l] = "refused"]
    BY <1>7, Zenon DEF Authenticate, Goto
  <2>3. QED BY <1>6, <2>1, <2>2, PlacedMove DEF AuthInv
<1>8. ASSUME NEW l \in Logins, LookForSession(l)
      PROVE  SessionsArePlaced' /\ AccountsArePlaced'
  <2>1. l \notin sessions
    BY <1>8 DEF LookForSession, AuthInv, SessionsArePlaced
  <2>2. /\ sessions' = sessions /\ accounts' = accounts
        /\ \/ step' = [step EXCEPT ![l] = "revoke"]
           \/ step' = [step EXCEPT ![l] = "insert"]
    BY <1>8, Zenon DEF LookForSession, Goto
  <2>3. QED BY <1>6, <2>1, <2>2, PlacedMove DEF AuthInv
<1>9. ASSUME NEW l \in Logins, RevokeOld(l)
      PROVE  SessionsArePlaced' /\ AccountsArePlaced'
  <2>1. l \notin sessions
    BY <1>9 DEF RevokeOld, AuthInv, SessionsArePlaced
  <2>2. QED BY <1>6, <1>9, <2>1, PlacedMove DEF RevokeOld, Goto, AuthInv
<1>10. ASSUME NEW l \in Logins, CreateSession(l) \/ TouchUser(l)
       PROVE  SessionsArePlaced' /\ AccountsArePlaced'
  BY <1>6, <1>10, PlacedMove DEF CreateSession, TouchUser, Goto, AuthInv
<1>11. QED
  BY <1>1, <1>2, <1>3, <1>4, <1>5, <1>7, <1>8, <1>9, <1>10 DEF AuthNext

\* What a login has seen is there and was there before it, and what it is
\* about to revoke it has seen on its own device.
LEMMA LookStep ==
    ASSUME AuthInv, [AuthNext]_authVars, Disjoint
    PROVE  LooksArePast' /\ RevokesOwnDevice'
<1>0. /\ \A s \in sessions : UserOf(s)' = UserOf(s)
      /\ \A l \in Logins : step[l] # "new" => account'[l] = account[l]
      /\ sessions \subseteq sessions'
  BY UsersStay
<1> USE DEF AuthInv, Goto
\* Nothing of l changes, or l itself takes the step.
<1>1. ASSUME NEW l \in Logins, looked'[l] = looked[l], found'[l] = found[l],
             step'[l] = "revoke" => step[l] = "revoke",
             step'[l] \in {"new", "look"} => step[l] \in {"new", "look"}
      PROVE  /\ looked'[l] \subseteq sessions'
             /\ step'[l] \in {"new", "look"} => looked'[l] = {}
             /\ step'[l] = "revoke" =>
                  /\ found'[l] \in looked'[l] /\ found'[l] # l
                  /\ UserOf(found[l])' = account'[l]
                  /\ DeviceOf[found'[l]] = DeviceOf[l]
  <2>1. looked[l] \subseteq sessions
    BY DEF LooksArePast
  <2>2. ASSUME step'[l] = "revoke"
        PROVE  /\ found[l] \in sessions
               /\ UserOf(found[l])' = UserOf(found[l])
               /\ account'[l] = account[l]
    BY <1>0, <1>1, <2>1, <2>2 DEF RevokesOwnDevice
  <2>3. step'[l] \in {"new", "look"} => looked'[l] = {}
    BY <1>1 DEF LooksArePast
  <2>4. QED BY <1>0, <1>1, <2>1, <2>2, <2>3 DEF RevokesOwnDevice
<1>2. ASSUME NEW l \in Logins, LookForSession(l)
      PROVE  /\ looked'[l] \subseteq sessions'
             /\ step'[l] \notin {"new", "look"}
             /\ step'[l] = "revoke" =>
                  /\ found'[l] \in looked'[l] /\ found'[l] # l
                  /\ UserOf(found[l])' = account'[l]
                  /\ DeviceOf[found'[l]] = DeviceOf[l]
  <2>1. looked'[l] = sessions /\ sessions' = sessions /\ account' = account
    BY <1>2 DEF LookForSession, AuthTypeOK
  <2>2. /\ step'[l] = "revoke" => found'[l] \in OnDevice(l)
        /\ step'[l] \in {"revoke", "insert"}
    BY <1>2 DEF LookForSession, AuthTypeOK, Requests
  <2>3. l \notin sessions
    BY <1>2 DEF LookForSession, SessionsArePlaced
  <2>4. \A s : UserOf(s)' = UserOf(s)
    BY <2>1 DEF UserOf
  <2>5. QED BY <2>1, <2>2, <2>3, <2>4 DEF OnDevice, UserOf, Disjoint
<1>3. ASSUME NEW l \in Logins, ~LookForSession(l)
      PROVE  /\ looked'[l] = looked[l] /\ found'[l] = found[l]
             /\ step'[l] = "revoke" => step[l] = "revoke"
             /\ step'[l] \in {"new", "look"} => step[l] \in {"new", "look"}
  <2> DEFINE Unmoved ==
        /\ looked'[l] = looked[l] /\ found'[l] = found[l]
        /\ step'[l] = "revoke" => step[l] = "revoke"
        /\ step'[l] \in {"new", "look"} => step[l] \in {"new", "look"}
  <2>1. CASE UNCHANGED authVars
    BY <2>1 DEF authVars
  <2>2. ASSUME NEW q \in Requests, Fail(q) PROVE Unmoved
    BY <2>2 DEF Fail, AuthTypeOK, Requests
  <2>3. ASSUME NEW r \in Registrations,
               Deactivate(r) \/ CheckUser(r) \/ CreateUser(r)
        PROVE  Unmoved
    BY <2>3 DEF Deactivate, CheckUser, CreateUser, AuthTypeOK, Requests
  <2>4. ASSUME NEW k \in Logins, LookForSession(k) PROVE Unmoved
    <3>1. k # l
      BY <1>3, <2>4
    <3>2. looked'[l] = looked[l] /\ step'[l] = step[l]
      BY <2>4, <3>1 DEF LookForSession, AuthTypeOK, Requests
    <3>3. found'[l] = found[l]
      BY <2>4, <3>1 DEF LookForSession, AuthTypeOK
    <3>4. QED BY <3>2, <3>3
  <2>5. ASSUME NEW k \in Logins, Authenticate(k) PROVE Unmoved
    <3>1. step[k] = "new" /\ looked' = looked /\ found' = found
      BY <2>5 DEF Authenticate
    <3>2. \/ step' = [step EXCEPT ![k] = "look"]
          \/ step' = [step EXCEPT ![k] = "refused"]
      BY <2>5, Zenon DEF Authenticate, Goto
    <3>3. QED BY <3>1, <3>2 DEF AuthTypeOK, Requests
  <2>6. ASSUME NEW k \in Logins,
               RevokeOld(k) \/ CreateSession(k) \/ TouchUser(k)
        PROVE  Unmoved
    BY <2>6 DEF RevokeOld, CreateSession, TouchUser, AuthTypeOK, Requests
  <2> HIDE DEF Unmoved
  <2>7. Unmoved
    BY <2>1, <2>2, <2>3, <2>4, <2>5, <2>6 DEF AuthNext, Unmoved
  <2>8. QED BY <2>7 DEF Unmoved
<1>4. QED BY <1>1, <1>2, <1>3 DEF LooksArePast, RevokesOwnDevice

\* A revoked session was seen by the login that revoked it, and a later step
\* changes neither what that login saw nor the users of the two.
LEMMA RevokedStep ==
    ASSUME AuthInv, [AuthNext]_authVars, Disjoint
    PROVE  RevokedByLaterLogin'
<1>0. /\ \A s \in sessions : UserOf(s)' = UserOf(s)
      /\ \A l \in Logins : step[l] # "new" => account'[l] = account[l]
  BY UsersStay
<1> USE DEF AuthInv
<1>1. ASSUME NEW l \in Logins, looked[l] # {}
      PROVE  looked'[l] = looked[l] /\ account'[l] = account[l]
  <2>1. step[l] \notin {"new", "look"}
    BY <1>1 DEF LooksArePast
  <2>2. ASSUME NEW k \in Logins, LookForSession(k)
        PROVE  looked'[l] = looked[l]
    BY <2>1, <2>2 DEF LookForSession, AuthTypeOK
  <2>3. looked'[l] = looked[l]
    BY <2>2 DEF AuthNext, authVars, Fail, Deactivate, CheckUser, CreateUser,
       Authenticate, RevokeOld, CreateSession, TouchUser
  <2>4. QED BY <1>0, <2>1, <2>3
<1>2. ASSUME NEW s \in revoked
      PROVE  \E l \in Logins :
                /\ s \in looked'[l] /\ l # s
                /\ UserOf(l)' = UserOf(s)' /\ DeviceOf[l] = DeviceOf[s]
  <2>1. PICK l \in Logins :
               /\ s \in looked[l] /\ l # s
               /\ UserOf(l) = UserOf(s) /\ DeviceOf[l] = DeviceOf[s]
    BY DEF RevokedByLaterLogin
  <2>2. s \in sessions
    BY <2>1 DEF LooksArePast
  <2>3. looked'[l] = looked[l] /\ account'[l] = account[l]
    BY <1>1, <2>1
  <2>4. UserOf(l)' = UserOf(l)
    BY <2>3 DEF UserOf
  <2>5. QED BY <1>0, <2>1, <2>2, <2>3, <2>4
<1>3. ASSUME NEW l \in Logins, RevokeOld(l)
      PROVE  /\ revoked' = revoked \cup {found[l]}
             /\ found[l] \in looked'[l] /\ l # found[l]
             /\ UserOf(l)' = UserOf(found[l])'
             /\ DeviceOf[l] = DeviceOf[found[l]]
  <2>1. /\ step[l] = "revoke" /\ looked' = looked /\ account' = account
        /\ found' = found /\ revoked' = revoked \cup {found[l]}
    BY <1>3 DEF RevokeOld
  <2>2. UserOf(l) = account[l]
    BY DEF UserOf, Disjoint
  <2>3. QED BY <2>1, <2>2 DEF RevokesOwnDevice, UserOf
<1>4. \/ revoked' = revoked
      \/ \E l \in Logins : RevokeOld(l)
  BY DEF AuthNext, authVars, Fail, Deactivate, CheckUser, CreateUser,
     Authenticate, LookForSession, CreateSession, TouchUser
<1>5. CASE revoked' = revoked
  BY <1>2, <1>5 DEF RevokedByLaterLogin
<1>6. CASE \E l \in Logins : RevokeOld(l)
  <2>1. PICK l \in Logins : RevokeOld(l)
    BY <1>6
  <2>2. ASSUME NEW s \in revoked'
        PROVE  \E m \in Logins :
                  /\ s \in looked'[m] /\ m # s
                  /\ UserOf(m)' = UserOf(s)' /\ DeviceOf[m] = DeviceOf[s]
    <3>1. CASE s \in revoked
      BY <1>2, <3>1
    <3>2. CASE s = found[l]
      <4>1. found' = found
        BY <2>1 DEF RevokeOld
      <4>2. QED BY <1>3, <2>1, <3>2, <4>1
    <3>3. QED BY <1>3, <2>1, <2>2, <3>1, <3>2
  <2>3. QED BY <2>2 DEF RevokedByLaterLogin
<1>7. QED BY <1>4, <1>5, <1>6

\* An account never clashes with one its registration saw.
LEMMA SeenStep ==
    ASSUME AuthInv, [AuthNext]_authVars, Disjoint
    PROVE  NoneSeenClash'
<1> USE DEF AuthInv
<1>1. ASSUME NEW r \in Registrations, noted'[r] = noted[r],
             (r \in accounts' \/ step'[r] = "insert") =>
                (r \in accounts \/ step[r] = "insert"),
             r \in accounts' \/ step'[r] = "insert"
      PROVE  \A q \in noted'[r] : ~Clash(r, q)
  BY <1>1 DEF NoneSeenClash
<1>2. ASSUME NEW r \in Registrations, CheckUser(r), step'[r] = "insert"
      PROVE  \A q \in noted'[r] : ~Clash(r, q)
  <2>1. noted'[r] = accounts
    BY <1>2 DEF CheckUser, AuthTypeOK
  <2>2. ~\E q \in accounts : Clash(r, q)
    BY <1>2 DEF CheckUser, Goto, AuthTypeOK, Requests
  <2>3. QED BY <2>1, <2>2
<1>3. ASSUME NEW r \in Registrations
      PROVE  \/ CheckUser(r) /\ accounts' = accounts /\ r \notin accounts
             \/ /\ noted'[r] = noted[r]
                /\ (r \in accounts' \/ step'[r] = "insert") =>
                      (r \in accounts \/ step[r] = "insert")
  <2> DEFINE Unmoved == /\ noted'[r] = noted[r]
                        /\ (r \in accounts' \/ step'[r] = "insert") =>
                              (r \in accounts \/ step[r] = "insert")
  <2>0. r \in Requests /\ r \notin Logins
    BY DEF Requests, Disjoint
  <2>1. CASE UNCHANGED authVars
    BY <2>1 DEF authVars
  <2>2. ASSUME NEW q \in Requests, Fail(q) PROVE Unmoved
    BY <2>0, <2>2 DEF Fail, Goto, AuthTypeOK
  <2>3. ASSUME NEW q \in Registrations, Deactivate(q) PROVE Unmoved
    BY <2>3 DEF Deactivate
  <2>4. ASSUME NEW q \in Registrations, q # r, CheckUser(q) PROVE Unmoved
    <3>1. step'[r] = step[r]
      BY <2>0, <2>4 DEF CheckUser, Goto, AuthTypeOK
    <3>2. noted'[r] = noted[r] /\ accounts' = accounts
      BY <2>4 DEF CheckUser, AuthTypeOK
    <3>3. QED BY <3>1, <3>2
  <2>5. ASSUME NEW q \in Registrations, CreateUser(q) PROVE Unmoved
    BY <2>0, <2>5 DEF CreateUser, Goto, AuthTypeOK, Requests
  <2>6. ASSUME NEW l \in Logins, \/ Authenticate(l) \/ LookForSession(l)
               \/ RevokeOld(l) \/ CreateSession(l) \/ TouchUser(l)
        PROVE  Unmoved
    <3>1. step'[r] = step[r]
      BY <2>0, <2>6 DEF Authenticate, LookForSession, RevokeOld,
         CreateSession, TouchUser, Goto, AuthTypeOK
    <3>2. noted' = noted /\ accounts' = accounts
      BY <2>6 DEF Authenticate, LookForSession, RevokeOld, CreateSession,
         TouchUser
    <3>3. QED BY <3>1, <3>2
  <2>7. CASE CheckUser(r)
    BY <2>7 DEF CheckUser, AccountsArePlaced
  <2> HIDE DEF Unmoved
  <2>8. ASSUME NEW q \in Registrations,
               Deactivate(q) \/ CheckUser(q) \/ CreateUser(q)
        PROVE  CheckUser(r) \/ Unmoved
    BY <2>3, <2>4, <2>5, <2>8
  <2>9. ASSUME AuthNext PROVE CheckUser(r) \/ Unmoved
    <3>1. CASE \E q \in Requests : Fail(q)
      BY <2>2, <3>1
    <3>2. CASE \E q \in Registrations :
                  Deactivate(q) \/ CheckUser(q) \/ CreateUser(q)
      BY <2>8, <3>2
    <3>3. CASE \E l \in Logins :
                  \/ Authenticate(l) \/ LookForSession(l) \/ RevokeOld(l)
                  \/ CreateSession(l) \/ TouchUser(l)
      BY <2>6, <3>3
    <3>4. QED BY <2>9, <3>1, <3>2, <3>3, Zenon DEF AuthNext
  <2>10. QED BY <2>1, <2>7, <2>9 DEF Unmoved
<1>4. QED BY <1>1, <1>2, <1>3 DEF NoneSeenClash

----------------------------------------------------------------------------
\* The invariant from which both properties follow.
LEMMA AuthInvariant ==
    ASSUME Disjoint
    PROVE  AuthSpec => []AuthInv
<1>1. AuthInit => AuthInv
  BY DEF AuthInit, AuthInv, AuthTypeOK, SessionsArePlaced, LooksArePast,
     RevokesOwnDevice, RevokedByLaterLogin, AccountsArePlaced, NoneSeenClash,
     Requests
<1>2. AuthInv /\ [AuthNext]_authVars => AuthInv'
  BY AuthTypeStep, PlacedStep, LookStep, RevokedStep, SeenStep DEF AuthInv
<1>3. QED BY <1>1, <1>2, PTL DEF AuthSpec

\* The tables of the auth service are well typed: a revocation always names a
\* session that exists.
THEOREM AuthTypeCorrect ==
    ASSUME Disjoint
    PROVE  AuthSpec => []AuthTypeOK
<1>1. AuthInv => AuthTypeOK
  BY DEF AuthInv
<1>2. QED BY <1>1, AuthInvariant, PTL

\* A session is revoked only by a login of its own user on its own device
\* that looked when it was there, however many registrations and logins run
\* side by side and fail.
THEOREM RevocationsCorrect ==
    ASSUME Disjoint
    PROVE  AuthSpec => []RevokedByLaterLogin
<1>1. AuthInv => RevokedByLaterLogin
  BY DEF AuthInv
<1>2. QED BY <1>1, AuthInvariant, PTL

\* Accounts that share a name or an email come from overlapping registrations.
THEOREM ClashesCorrect ==
    ASSUME Disjoint
    PROVE  AuthSpec => []ClashesNeedOverlap
<1>1. AuthInv => ClashesNeedOverlap
  BY DEF AuthInv, NoneSeenClash, ClashesNeedOverlap, Clash, AuthTypeOK
<1>2. QED BY <1>1, AuthInvariant, PTL

----------------------------------------------------------------------------
(* The four services together.                                             *)

LEMMA EachStarts ==
    ServicesInit => ModInit /\ AuthInit /\ KeysInit /\ PresenceInit
BY DEF ServicesInit

\* A step of one service is a step of its own specification, and a stutter of
\* each of the others.
LEMMA EachSteps ==
    [ServicesNext]_<<service, modVars, authVars, keysVars, presenceVars>> =>
       /\ [ModNext]_modVars
       /\ [AuthNext]_authVars
       /\ [KeysNext]_keysVars
       /\ [PresenceNext]_presenceVars
BY DEF ServicesNext

\* The services share nothing: each behaviour of all of them together is one
\* of each, so that what is proved of a service holds beside the others.
THEOREM EachServiceRuns ==
    ServicesSpec => ModSpec /\ AuthSpec /\ KeysSpec /\ PresenceSpec
BY EachStarts, EachSteps, PTL
   DEF ServicesSpec, ModSpec, AuthSpec, KeysSpec, PresenceSpec

\* The tables, requests, rows and keys of the four services stay well typed.
THEOREM ServicesTypeCorrect ==
    ASSUME Sane, Disjoint
    PROVE  ServicesSpec => []ServicesTypeOK
<1>1. ModSpec => []ModTypeOK
  BY ModerationTypeCorrect
<1>2. AuthSpec => []AuthTypeOK
  BY AuthTypeCorrect
<1>3. ModTypeOK /\ AuthTypeOK /\ KeysTypeOK /\ PresenceTypeOK
         => ServicesTypeOK
  BY DEF ServicesTypeOK
<1>4. QED
  BY <1>1, <1>2, <1>3, EachServiceRuns, KeysTypeCorrect, PresenceTypeCorrect,
     PTL

=============================================================================

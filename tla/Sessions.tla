------------------------------ MODULE Sessions ------------------------------
(***************************************************************************)
(* The auth service (auth/src/main.rs) as far as it is written: register   *)
(* and login, HTTP handlers that run concurrently over the tables users    *)
(* and sessions.  Registration inserts the account and its first session   *)
(* in a transaction; a login makes its statements one by one, without one. *)
(*                                                                         *)
(* Registrations and Logins are requests.  Each makes at most one session, *)
(* which bears its name, and a registration names the account it makes.    *)
(***************************************************************************)
EXTENDS Naturals, FiniteSets

CONSTANTS
    Registrations, Logins,
    NameOf, EmailOf,    \* what a registration asks for
    IdentOf,            \* the name or email a login gives
    DeviceOf,           \* the device a login names, or a registration makes up
    None

Requests == Registrations \cup Logins

VARIABLES
    step,       \* where a request is
    accounts,   \* users: the registrations that made one
    inactive,   \* accounts with is_active = false
    account,    \* a login's user, once found
    found,      \* the session a login found on its device
    sessions,   \* rows of sessions
    revoked,    \* those with revoked_at set
    noted,      \* history: accounts there when a registration looked
    looked      \* history: sessions there when a login looked

authVars == <<step, accounts, inactive, account, found, sessions, revoked,
              noted, looked>>

AuthTypeOK ==
    /\ step \in [Requests -> {"new", "look", "revoke", "insert", "touch",
                              "ok", "refused", "failed"}]
    /\ accounts \in SUBSET Registrations
    /\ inactive \in SUBSET Registrations
    /\ account \in [Logins -> Registrations \cup {None}]
    /\ found \in [Logins -> Requests \cup {None}]
    /\ sessions \in SUBSET Requests
    /\ revoked \in SUBSET Requests
    /\ noted \in [Registrations -> SUBSET Registrations]
    /\ looked \in [Logins -> SUBSET Requests]

AuthInit ==
    /\ step = [q \in Requests |-> "new"]
    /\ accounts = {} /\ inactive = {}
    /\ account = [l \in Logins |-> None]
    /\ found = [l \in Logins |-> None]
    /\ sessions = {} /\ revoked = {}
    /\ noted = [r \in Registrations |-> {}]
    /\ looked = [l \in Logins |-> {}]

\* The user of a session.
UserOf(s) == IF s \in Registrations THEN s ELSE account[s]

Goto(q, place) == step' = [step EXCEPT ![q] = place]

\* A statement fails, or the server ends: what was written before stays.
Fail(q) ==
    /\ step[q] \notin {"ok", "refused", "failed"}
    /\ Goto(q, "failed")
    /\ UNCHANGED <<accounts, inactive, account, found, sessions, revoked,
                   noted, looked>>

\* The owner of is_active, outside this service.
Deactivate(r) ==
    /\ r \in accounts \ inactive
    /\ inactive' = inactive \cup {r}
    /\ UNCHANGED <<step, accounts, account, found, sessions, revoked, noted,
                   looked>>

----------------------------------------------------------------------------
(* register.                                                               *)

\* Slip: only the name is looked up.
BugSameName(r, q) == NameOf[r] = NameOf[q]

Clash(r, q) == NameOf[r] = NameOf[q] \/ EmailOf[r] = EmailOf[q]

CheckUser(r) ==
    /\ step[r] = "new"
    /\ noted' = [noted EXCEPT ![r] = accounts]
    /\ IF \E q \in accounts : Clash(r, q) THEN Goto(r, "refused")
                                         ELSE Goto(r, "insert")
    /\ UNCHANGED <<accounts, inactive, account, found, sessions, revoked,
                   looked>>

\* The transaction; with a unique index, which is not in the repository, a
\* clash makes it Fail.
CreateUser(r) ==
    /\ step[r] = "insert"
    /\ accounts' = accounts \cup {r}
    /\ sessions' = sessions \cup {r}
    /\ Goto(r, "ok")
    /\ UNCHANGED <<inactive, account, found, revoked, noted, looked>>

----------------------------------------------------------------------------
(* login.                                                                  *)

\* The user is found by name or email, and may be refused for being inactive
\* or for the password; nothing is written.
Authenticate(l) ==
    /\ step[l] = "new"
    /\ \/ \E r \in accounts \ inactive :
             /\ IdentOf[l] \in {NameOf[r], EmailOf[r]}
             /\ account' = [account EXCEPT ![l] = r]
             /\ Goto(l, "look")
       \/ Goto(l, "refused") /\ UNCHANGED account
    /\ UNCHANGED <<accounts, inactive, found, sessions, revoked, noted,
                   looked>>

\* Slip: the sessions of the user, on whichever device.
BugOnAnyDevice(l) == {s \in sessions : UserOf(s) = account[l]}

\* The sessions of the user on the device, revoked ones included.
OnDevice(l) ==
    {s \in sessions : UserOf(s) = account[l] /\ DeviceOf[s] = DeviceOf[l]}

\* One row is fetched, and no order is asked for.
LookForSession(l) ==
    /\ step[l] = "look"
    /\ looked' = [looked EXCEPT ![l] = sessions]
    /\ \/ \E s \in OnDevice(l) :
             /\ found' = [found EXCEPT ![l] = s]
             /\ Goto(l, "revoke")
       \/ /\ OnDevice(l) = {}
          /\ Goto(l, "insert")
          /\ UNCHANGED found
    /\ UNCHANGED <<accounts, inactive, account, sessions, revoked, noted>>

RevokeOld(l) ==
    /\ step[l] = "revoke"
    /\ revoked' = revoked \cup {found[l]}
    /\ Goto(l, "insert")
    /\ UNCHANGED <<accounts, inactive, account, found, sessions, noted,
                   looked>>

CreateSession(l) ==
    /\ l \in Logins
    /\ step[l] = "insert"
    /\ sessions' = sessions \cup {l}
    /\ Goto(l, "touch")
    /\ UNCHANGED <<accounts, inactive, account, found, revoked, noted,
                   looked>>

\* last_seen, and the answer with the tokens.
TouchUser(l) ==
    /\ step[l] = "touch"
    /\ Goto(l, "ok")
    /\ UNCHANGED <<accounts, inactive, account, found, sessions, revoked,
                   noted, looked>>

----------------------------------------------------------------------------
AuthNext ==
    \/ \E q \in Requests : Fail(q)
    \/ \E r \in Registrations : Deactivate(r) \/ CheckUser(r) \/ CreateUser(r)
    \/ \E l \in Logins :
          \/ Authenticate(l) \/ LookForSession(l) \/ RevokeOld(l)
          \/ CreateSession(l) \/ TouchUser(l)

AuthSpec == AuthInit /\ [][AuthNext]_authVars

----------------------------------------------------------------------------
\* Two accounts share a name or an email only if neither was there when the
\* other's registration looked: it takes two requests that overlap.
ClashesNeedOverlap ==
    \A r, q \in accounts :
       (/\ r # q
        /\ NameOf[r] = NameOf[q] \/ EmailOf[r] = EmailOf[q])
          => r \notin noted[q] /\ q \notin noted[r]

\* A session is taken from a device only by another login of the same user on
\* the same device, one whose look-up found the session there, though the two
\* logins may overlap: signing in elsewhere, or unseen by the look-up, does
\* not sign anyone out.
RevokedByLaterLogin ==
    \A s \in revoked : \E l \in Logins :
       /\ s \in looked[l] /\ l # s
       /\ UserOf(l) = UserOf(s) /\ DeviceOf[l] = DeviceOf[s]

\* "Check for existing session on this device ... Revoke old session": when
\* every login came after the one before it was answered, a device is left
\* with one session.
Live(s) == s \in sessions \ revoked
InTurn == \A l, m \in Logins \cap sessions :
             l # m => l \in looked[m] \/ m \in looked[l]
OneSessionPerDevice ==
    (InTurn /\ \A q \in Requests : step[q] \in {"new", "ok"}) =>
       \A s, t \in Requests :
          (/\ Live(s) /\ Live(t)
           /\ UserOf(s) = UserOf(t) /\ DeviceOf[s] = DeviceOf[t]) => s = t
=============================================================================

------------------------------ MODULE Presence ------------------------------
(***************************************************************************)
(* The presence service (presence/src/main.rs): gRPC handlers that run     *)
(* concurrently over Redis (a key with a lifetime for each device and a    *)
(* set of a user's keys), PostgreSQL (history), an in-memory table behind  *)
(* a RwLock, one broadcast channel per user and the Kafka topic            *)
(* "presence-events".                                                      *)
(*                                                                         *)
(* A member of Calls is one UpdatePresence request and a member of Readers *)
(* one GetPresence request for one user; a request for several users fails *)
(* as soon as one of them does, and BulkPresenceUpdate makes its calls one *)
(* after the other.  Redis drops a key at the end of its lifetime, so a    *)
(* key is there as long as its deadline lies in the future.                *)
(***************************************************************************)
EXTENDS Naturals, Sequences, FiniteSets

CONSTANTS
    Users, Devices, Statuses,
    Calls, CallUser, CallDevice, CallStatus,
    Readers, ReaderUser,
    Watchers, WatcherUser,
    Absent,
    TTL,           \* lifetime of a key, in ticks
    Capacity,      \* of a broadcast channel
    MayFail,       \* calls of Redis, PostgreSQL and Kafka may fail
    MaxCopies,     \* bound: records that one send leaves in the topic
    MaxTime

ASSUME PresenceAssumption ==
    /\ CallUser \in [Calls -> Users]
    /\ CallDevice \in [Calls -> Devices]
    /\ CallStatus \in [Calls -> Statuses]
    /\ ReaderUser \in [Readers -> Users]
    /\ WatcherUser \in [Watchers -> Users]
    /\ Absent \notin Calls
    /\ {"online", "offline"} \subseteq Statuses
    /\ TTL \in Nat \ {0} /\ Capacity \in Nat \ {0}
    /\ MayFail \in BOOLEAN
    /\ MaxCopies \in Nat \ {0}
    /\ MaxTime \in Nat

Times == 0 .. MaxTime
Deadlines == 0 .. MaxTime + TTL
Slots == Users \X Devices
Entries == [status : Statuses, active : Times, until : Deadlines]

ASSUME EntryAssumption == Absent \notin Entries

VARIABLES
    now,
    \* --- a call: its step and the clock it read ---
    pc, at,
    \* --- Redis: presence:{user}:{device} and user_presence:{user} ---
    key, keyUntil, devices, devicesUntil,
    recorded,     \* PostgreSQL: calls in user_presence_history
    active,       \* active_users
    writer,       \* the call that holds its write lock
    cleanAt,      \* the clock that the cleanup read, Absent between rounds
    events,       \* Kafka: presence-events
    \* --- a reader: its step, its clock, the keys it got, its answer ---
    rpc, readAt, keys, answer,
    \* --- a subscriber ---
    watching,     \* has subscribed
    backlog,      \* updates it has not received yet
    got,          \* history: what it received
    since,        \* history: updates applied when it subscribed
    applied       \* history: calls in the order they were applied

callVars   == <<pc, at>>
redisVars  == <<key, keyUntil, devices, devicesUntil>>
readVars   == <<rpc, readAt, keys, answer>>
watchVars  == <<watching, backlog, got, since>>
presenceVars == <<now, callVars, redisVars, recorded, active, writer, cleanAt,
                  events, readVars, watchVars, applied>>

Slot(c) == <<CallUser[c], CallDevice[c]>>
Answers == [status : Statuses, devices : Nat]

PresenceTypeOK ==
    /\ now \in Times
    /\ pc \in [Calls -> {"new", "set", "add", "renew", "record", "apply",
                         "publish", "ok", "failed"}]
    /\ at \in [Calls -> Times]
    /\ key \in [Slots -> Entries \cup {Absent}]
    /\ keyUntil \in [Slots -> Deadlines]
    /\ devices \in [Users -> SUBSET Devices]
    /\ devicesUntil \in [Users -> Deadlines]
    /\ recorded \in SUBSET Calls
    /\ active \in [Slots -> Entries \cup {Absent}]
    /\ writer \in Calls \cup {Absent}
    /\ cleanAt \in Times \cup {Absent}
    /\ events \in Seq(Calls)
    /\ rpc \in [Readers -> {"new", "data", "ok", "failed"}]
    /\ readAt \in [Readers -> Times]
    /\ keys \in [Readers -> SUBSET Devices]
    /\ answer \in [Readers -> Answers \cup {Absent}]
    /\ watching \in SUBSET Watchers
    /\ backlog \in [Watchers -> Seq(Calls)]
    /\ got \in [Watchers -> Seq(Calls)]
    /\ since \in [Watchers -> Nat]
    /\ applied \in Seq(Calls)

PresenceInit ==
    /\ now = 0
    /\ pc = [c \in Calls |-> "new"] /\ at = [c \in Calls |-> 0]
    /\ key = [k \in Slots |-> Absent] /\ keyUntil = [k \in Slots |-> 0]
    /\ devices = [u \in Users |-> {}] /\ devicesUntil = [u \in Users |-> 0]
    /\ recorded = {}
    /\ active = [k \in Slots |-> Absent]
    /\ writer = Absent /\ cleanAt = Absent
    /\ events = <<>>
    /\ rpc = [r \in Readers |-> "new"]
    /\ readAt = [r \in Readers |-> 0]
    /\ keys = [r \in Readers |-> {}]
    /\ answer = [r \in Readers |-> Absent]
    /\ watching = {}
    /\ backlog = [w \in Watchers |-> <<>>]
    /\ got = [w \in Watchers |-> <<>>]
    /\ since = [w \in Watchers |-> 0]
    /\ applied = <<>>

Tick ==
    /\ now < MaxTime
    /\ now' = now + 1
    /\ UNCHANGED <<callVars, redisVars, recorded, active, writer, cleanAt,
                   events, readVars, watchVars, applied>>

----------------------------------------------------------------------------
(* What Redis still holds.                                                 *)

Held(u, d) == key[<<u, d>>] # Absent /\ keyUntil[<<u, d>>] > now
Members(u) == IF devicesUntil[u] > now THEN devices[u] ELSE {}

----------------------------------------------------------------------------
(* update_presence.                                                        *)

Advance(c, step) == pc' = [pc EXCEPT ![c] = step]

Entry(c) == [status |-> CallStatus[c], active |-> at[c],
             until |-> at[c] + TTL]

\* The connection to Redis is made and the clock is read.
Start(c) ==
    /\ pc[c] = "new"
    /\ \/ Advance(c, "set") /\ at' = [at EXCEPT ![c] = now]
       \/ MayFail /\ Advance(c, "failed") /\ UNCHANGED at
    /\ UNCHANGED <<now, redisVars, recorded, active, writer, cleanAt, events,
                   readVars, watchVars, applied>>

\* The results of the three Redis commands are dropped: SETEX, SADD, EXPIRE.
SetKey(c) ==
    /\ pc[c] = "set"
    /\ Advance(c, "add")
    /\ \/ /\ key' = [key EXCEPT ![Slot(c)] = Entry(c)]
          /\ keyUntil' = [keyUntil EXCEPT ![Slot(c)] = now + TTL]
       \/ MayFail /\ UNCHANGED <<key, keyUntil>>
    /\ UNCHANGED <<now, at, devices, devicesUntil, recorded, active, writer,
                   cleanAt, events, readVars, watchVars, applied>>

\* A set made anew has no lifetime until the EXPIRE that follows.
AddKey(c) ==
    LET u == CallUser[c]
    IN  /\ pc[c] = "add"
        /\ Advance(c, "renew")
        /\ \/ /\ devices' = [devices EXCEPT ![u] =
                               Members(u) \cup {CallDevice[c]}]
              /\ devicesUntil' = [devicesUntil EXCEPT ![u] =
                    IF Members(u) = {} THEN MaxTime + TTL ELSE @]
           \/ MayFail /\ UNCHANGED <<devices, devicesUntil>>
        /\ UNCHANGED <<now, at, key, keyUntil, recorded, active, writer,
                       cleanAt, events, readVars, watchVars, applied>>

RenewSet(c) ==
    LET u == CallUser[c]
    IN  /\ pc[c] = "renew"
        /\ Advance(c, "record")
        /\ \/ devicesUntil' = [devicesUntil EXCEPT ![u] =
                 IF Members(u) = {} THEN @ ELSE now + TTL]
           \/ MayFail /\ UNCHANGED devicesUntil
        /\ UNCHANGED <<now, at, key, keyUntil, devices, recorded, active,
                       writer, cleanAt, events, readVars, watchVars, applied>>

\* The INSERT into the history; when it fails so does the call, and Redis has
\* the new status already.
Record(c) ==
    /\ pc[c] = "record"
    /\ \/ Advance(c, "apply") /\ recorded' = recorded \cup {c}
       \/ MayFail /\ Advance(c, "failed") /\ UNCHANGED recorded
    /\ UNCHANGED <<now, at, redisVars, active, writer, cleanAt, events,
                   readVars, watchVars, applied>>

\* Slips: a full channel refuses the newest update; the newest goes first;
\* entries dropped a tick early, or kept for good.
BugDropNewest(s, c) == IF Len(s) < Capacity THEN Append(s, c) ELSE s
BugNewestFirst(s, c) == <<c>> \o (IF Len(s) < Capacity THEN s ELSE Tail(s))
BugKeepsLess(e, t) == e # Absent /\ e.until > t + 1
BugKeepsAll(e, t) == e # Absent

\* A channel that is full gives up its oldest update.
Pushed(s, c) == IF Len(s) < Capacity THEN Append(s, c)
                                     ELSE Append(Tail(s), c)

\* What retain(|state| state.expires_at > t) leaves.
Keeps(e, t) == e # Absent /\ e.until > t

\* Slip: the lock is given back before the event is published.
BugUnlocked(c) == writer = Absent /\ UNCHANGED writer

Locked(c) == writer = Absent /\ writer' = c

\* Under the write lock: the device's state is replaced or added, the user's
\* stale states go, and the update is broadcast.  The lock is kept until the
\* end of the function, the Kafka send included.
Apply(c) ==
    /\ pc[c] = "apply"
    /\ Locked(c)
    /\ active' = [k \in Slots |->
          CASE k = Slot(c) -> Entry(c)
            [] k # Slot(c) /\ k[1] = CallUser[c] ->
                  IF Keeps(active[k], at[c]) THEN active[k] ELSE Absent
            [] OTHER -> active[k]]
    /\ backlog' = [w \in Watchers |->
          IF w \in watching /\ WatcherUser[w] = CallUser[c]
            THEN Pushed(backlog[w], c) ELSE backlog[w]]
    /\ applied' = Append(applied, c)
    /\ Advance(c, "publish")
    /\ UNCHANGED <<now, at, redisVars, recorded, cleanAt, events, readVars,
                   watching, got, since>>

\* The producer is not idempotent: what it tries again within one send may
\* be in the topic already.
Sent(c) == \E n \in 1 .. MaxCopies : events' = events \o [k \in 1 .. n |-> c]

\* publish_presence_update; a send that reports a failure may have arrived.
Publish(c) ==
    /\ pc[c] = "publish"
    /\ \/ Advance(c, "ok") /\ Sent(c)
       \/ MayFail /\ Advance(c, "failed") /\ Sent(c)
       \/ MayFail /\ Advance(c, "failed") /\ UNCHANGED events
    /\ writer' = Absent
    /\ UNCHANGED <<now, at, redisVars, recorded, active, cleanAt, readVars,
                   watchVars, applied>>

----------------------------------------------------------------------------
(* get_presence for one user.                                              *)

\* SMEMBERS; no member at all is an answer, "offline".
ReadKeys(r) ==
    LET u == ReaderUser[r]
    IN  /\ rpc[r] = "new"
        /\ readAt' = [readAt EXCEPT ![r] = now]
        /\ \/ /\ keys' = [keys EXCEPT ![r] = Members(u)]
              /\ IF Members(u) = {}
                   THEN /\ rpc' = [rpc EXCEPT ![r] = "ok"]
                        /\ answer' = [answer EXCEPT ![r] =
                             [status |-> "offline", devices |-> 0]]
                   ELSE rpc' = [rpc EXCEPT ![r] = "data"] /\ UNCHANGED answer
           \/ /\ MayFail
              /\ rpc' = [rpc EXCEPT ![r] = "failed"]
              /\ UNCHANGED <<keys, answer>>
        /\ UNCHANGED <<now, callVars, redisVars, recorded, active, writer,
                       cleanAt, events, watchVars, applied>>

\* The devices the loop takes for present, by the clock t of the request.
Present(u, ds, t) == {d \in ds : key[<<u, d>>].until > t}

\* The loop stops at the first online device; with none it is left with the
\* last device in the order of the reply, which is the order of the set.
Summary(u, ds, t) ==
    LET seen == {key[<<u, d>>].status : d \in Present(u, ds, t)}
    IN  CASE "online" \in seen -> {"online"}
          [] seen = {} -> {"offline"}
          [] OTHER -> seen

\* MGET into strings: a key that is gone is a nil in the reply, which does
\* not convert, and the request fails.
ReadData(r) ==
    LET u == ReaderUser[r]
    IN  /\ rpc[r] = "data"
        /\ \/ /\ \A d \in keys[r] : Held(u, d)
              /\ rpc' = [rpc EXCEPT ![r] = "ok"]
              /\ \E status \in Summary(u, keys[r], readAt[r]) :
                    answer' = [answer EXCEPT ![r] =
                      [status |-> status, devices |-> Cardinality(keys[r])]]
           \/ /\ MayFail \/ \E d \in keys[r] : ~Held(u, d)
              /\ rpc' = [rpc EXCEPT ![r] = "failed"]
              /\ UNCHANGED answer
        /\ UNCHANGED <<now, callVars, readAt, keys, redisVars, recorded,
                       active, writer, cleanAt, events, watchVars, applied>>

----------------------------------------------------------------------------
(* subscribe_presence and its stream; a lag is not reported.               *)

Subscribe(w) ==
    /\ w \notin watching
    /\ watching' = watching \cup {w}
    /\ since' = [since EXCEPT ![w] = Len(applied)]
    /\ UNCHANGED <<now, callVars, redisVars, recorded, active, writer,
                   cleanAt, events, readVars, backlog, got, applied>>

Receive(w) ==
    /\ backlog[w] # <<>>
    /\ got' = [got EXCEPT ![w] = Append(@, Head(backlog[w]))]
    /\ backlog' = [backlog EXCEPT ![w] = Tail(@)]
    /\ UNCHANGED <<now, callVars, redisVars, recorded, active, writer,
                   cleanAt, events, readVars, watching, since, applied>>

----------------------------------------------------------------------------
(* start_cleanup_task: one round after another, every two ticks or so.     *)

StartCleanup ==
    /\ cleanAt = Absent
    /\ cleanAt' = now
    /\ UNCHANGED <<now, callVars, redisVars, recorded, active, writer, events,
                   readVars, watchVars, applied>>

\* Once it has the write lock it drops what had expired by its clock, which
\* may be behind.
Cleanup ==
    /\ cleanAt # Absent
    /\ writer = Absent
    /\ active' = [k \in Slots |->
                    IF Keeps(active[k], cleanAt) THEN active[k] ELSE Absent]
    /\ cleanAt' = Absent
    /\ UNCHANGED <<now, callVars, redisVars, recorded, writer, events,
                   readVars, watchVars, applied>>

----------------------------------------------------------------------------
Update(c) ==
    \/ Start(c) \/ SetKey(c) \/ AddKey(c) \/ RenewSet(c) \/ Record(c)
    \/ Apply(c) \/ Publish(c)

PresenceNext ==
    \/ Tick
    \/ \E c \in Calls : Update(c)
    \/ \E r \in Readers : ReadKeys(r) \/ ReadData(r)
    \/ \E w \in Watchers : Subscribe(w) \/ Receive(w)
    \/ StartCleanup \/ Cleanup

PresenceSpec == PresenceInit /\ [][PresenceNext]_presenceVars

\* A call that has begun goes on, and every await in it returns; the cleanup
\* task runs for ever.
Fairness ==
    /\ \A c \in Calls : WF_presenceVars(pc[c] # "new" /\ Update(c))
    /\ WF_presenceVars(StartCleanup) /\ WF_presenceVars(Cleanup)

FairPresenceSpec == PresenceSpec /\ Fairness
=============================================================================

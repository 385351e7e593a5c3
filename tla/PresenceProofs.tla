--------------------------- MODULE PresenceProofs ---------------------------
(***************************************************************************)
(* Theorems about the presence service, for any users, devices, calls,     *)
(* subscribers, lifetimes and capacities, and whether calls fail or not.   *)
(***************************************************************************)
EXTENDS PresenceProperties, FiniteSetTheorems, TLAPS

----------------------------------------------------------------------------
(* Sequences.                                                              *)

LEMMA AppendType ==
    ASSUME NEW S, NEW q \in Seq(S), NEW x \in S
    PROVE  /\ Append(q, x) \in Seq(S)
           /\ Len(q) \in Nat /\ Len(Append(q, x)) = Len(q) + 1
           /\ Append(q, x)[Len(q) + 1] = x
           /\ \A k \in 1 .. Len(q) : Append(q, x)[k] = q[k]
OBVIOUS

LEMMA TailType ==
    ASSUME NEW S, NEW q \in Seq(S), q # <<>>
    PROVE  /\ Head(q) \in S /\ Head(q) = q[1]
           /\ Tail(q) \in Seq(S)
           /\ Len(q) \in Nat \ {0} /\ Len(Tail(q)) = Len(q) - 1
           /\ \A k \in 1 .. Len(q) - 1 : Tail(q)[k] = q[k + 1]
OBVIOUS

\* What a push leaves of a backlog: its end, and the new update after it.
LEMMA PushedShape ==
    ASSUME NEW q \in Seq(Calls), NEW c \in Calls
    PROVE  /\ Pushed(q, c) \in Seq(Calls)
           /\ Len(Pushed(q, c)) \in Nat \ {0}
           /\ Pushed(q, c)[Len(Pushed(q, c))] = c
           /\ \E skip \in {0, 1} :
                 /\ Len(Pushed(q, c)) = Len(q) + 1 - skip
                 /\ \A k \in 1 .. Len(q) - skip :
                       Pushed(q, c)[k] = q[k + skip]
<1>1. CASE Len(q) < Capacity
  <2>1. Pushed(q, c) = Append(q, c)
    BY <1>1 DEF Pushed
  <2> QED  BY <2>1, AppendType
<1>2. CASE ~(Len(q) < Capacity)
  <2>1. Pushed(q, c) = Append(Tail(q), c)
    BY <1>2 DEF Pushed
  <2>2. q # <<>>
    BY <1>2, PresenceAssumption
  <2>3. PICK t \in Seq(Calls) :
           /\ t = Tail(q) /\ Len(t) = Len(q) - 1
           /\ \A k \in 1 .. Len(q) - 1 : t[k] = q[k + 1]
    BY <2>2, TailType
  <2>4. /\ Append(t, c) \in Seq(Calls)
        /\ Len(t) \in Nat /\ Len(Append(t, c)) = Len(t) + 1
        /\ Append(t, c)[Len(t) + 1] = c
        /\ \A k \in 1 .. Len(t) : Append(t, c)[k] = t[k]
    BY AppendType
  <2>5. Len(q) \in Nat
    OBVIOUS
  <2> QED  BY <2>1, <2>3, <2>4, <2>5
<1> QED  BY <1>1, <1>2

----------------------------------------------------------------------------
(* Types.                                                                  *)

\* The sets of devices are finite, and clocks show no time to come.
Bounded ==
    /\ \A u \in Users : IsFiniteSet(devices[u])
    /\ \A r \in Readers : IsFiniteSet(keys[r])
    /\ \A c \in Calls : at[c] =< now
    /\ cleanAt # Absent => cleanAt =< now
    /\ \A w \in Watchers : since[w] =< Len(applied)

TypeInv == PresenceTypeOK /\ Bounded

LEMMA TypeStart == PresenceInit => TypeInv
<1> SUFFICES ASSUME PresenceInit PROVE TypeInv
  OBVIOUS
<1>1. PresenceTypeOK
  BY PresenceAssumption DEF PresenceInit, PresenceTypeOK, Times, Deadlines
<1>2. IsFiniteSet({})
  BY FS_EmptySet
<1> QED  BY <1>1, <1>2 DEF TypeInv, Bounded, PresenceInit

LEMMA CallTimes ==
    TypeInv => /\ \A c \in Calls : /\ at[c] \in Nat /\ at[c] \in Times
                                   /\ at[c] + TTL \in Deadlines
               /\ now \in Nat /\ now + TTL \in Deadlines
               /\ MaxTime + TTL \in Deadlines
               /\ \A c \in Calls : Slot(c) \in Slots
BY PresenceAssumption DEF TypeInv, PresenceTypeOK, Times, Deadlines, Slot,
                          Slots

LEMMA EntryType ==
    TypeInv => \A c \in Calls : Entry(c) \in Entries /\ Entry(c) # Absent
BY CallTimes, EntryAssumption, PresenceAssumption DEF Entry, Entries

LEMMA TickType == TypeInv /\ Tick => TypeInv'
<1> SUFFICES ASSUME TypeInv, Tick PROVE TypeInv'
  OBVIOUS
<1>1. /\ UNCHANGED <<callVars, redisVars, recorded, active, writer, cleanAt,
                     events, readVars, watchVars, applied>>
      /\ now' \in Times /\ now \in Nat /\ now' = now + 1
  BY PresenceAssumption DEF Tick, TypeInv, PresenceTypeOK, Times
<1>2. /\ \A c \in Calls : at'[c] =< now'
      /\ cleanAt' # Absent => cleanAt' =< now'
  <2>1. \A t \in Times : t \in Nat /\ (t =< now => t =< now')
    BY <1>1 DEF Times
  <2>2. /\ \A c \in Calls : at[c] \in Times /\ at[c] =< now
        /\ cleanAt # Absent => cleanAt \in Times /\ cleanAt =< now
    BY DEF TypeInv, PresenceTypeOK, Bounded
  <2> QED  BY <1>1, <2>1, <2>2 DEF callVars
<1> QED
  BY <1>1, <1>2
     DEF TypeInv, PresenceTypeOK, Bounded, callVars, redisVars, readVars,
         watchVars

\* The steps of a call before it is applied.
LEMMA CallType ==
    ASSUME TypeInv, NEW c \in Calls,
           Start(c) \/ SetKey(c) \/ AddKey(c) \/ RenewSet(c) \/ Record(c)
    PROVE  TypeInv'
<1>0. pc' \in [Calls -> {"new", "set", "add", "renew", "record", "apply",
                         "publish", "ok", "failed"}]
  BY DEF Start, SetKey, AddKey, RenewSet, Record, Advance, TypeInv,
         PresenceTypeOK
<1>u. CallUser[c] \in Users /\ CallDevice[c] \in Devices
  BY PresenceAssumption
<1>1. CASE Start(c)
  <2>1. at' \in [Calls -> Times] /\ \A d \in Calls : at'[d] =< now
    <3>1. at' = [at EXCEPT ![c] = now] \/ at' = at
      BY <1>1 DEF Start
    <3>2. /\ at \in [Calls -> Times] /\ now \in Times /\ now \in Nat
          /\ \A d \in Calls : at[d] =< now
      BY CallTimes DEF TypeInv, PresenceTypeOK, Bounded
    <3> QED  BY <3>1, <3>2
  <2> QED
    BY <1>0, <1>1, <2>1
       DEF Start, TypeInv, PresenceTypeOK, Bounded, redisVars, readVars,
           watchVars
<1>2. CASE SetKey(c)
  <2>1. /\ key' \in [Slots -> Entries \cup {Absent}]
        /\ keyUntil' \in [Slots -> Deadlines]
    BY <1>2, CallTimes, EntryType DEF SetKey, TypeInv, PresenceTypeOK
  <2> QED
    BY <1>0, <1>2, <2>1
       DEF SetKey, TypeInv, PresenceTypeOK, Bounded, readVars, watchVars
<1>3. CASE AddKey(c)
  <2>1. Members(CallUser[c]) \in SUBSET Devices
        /\ IsFiniteSet(Members(CallUser[c]))
    BY <1>u, FS_EmptySet DEF Members, TypeInv, PresenceTypeOK, Bounded
  <2>2. /\ Members(CallUser[c]) \cup {CallDevice[c]} \in SUBSET Devices
        /\ IsFiniteSet(Members(CallUser[c]) \cup {CallDevice[c]})
    BY <1>u, <2>1, FS_AddElement
  <2>3. /\ devices' \in [Users -> SUBSET Devices]
        /\ \A u \in Users : IsFiniteSet(devices'[u])
    BY <1>3, <1>u, <2>2 DEF AddKey, TypeInv, PresenceTypeOK, Bounded
  <2>4. devicesUntil' \in [Users -> Deadlines]
    BY <1>3, <1>u, CallTimes DEF AddKey, TypeInv, PresenceTypeOK
  <2> QED
    BY <1>0, <1>3, <2>3, <2>4
       DEF AddKey, TypeInv, PresenceTypeOK, Bounded, readVars, watchVars
<1>4. CASE RenewSet(c)
  <2>1. devicesUntil' \in [Users -> Deadlines]
    BY <1>4, <1>u, CallTimes DEF RenewSet, TypeInv, PresenceTypeOK
  <2> QED
    BY <1>0, <1>4, <2>1
       DEF RenewSet, TypeInv, PresenceTypeOK, Bounded, readVars, watchVars
<1>5. CASE Record(c)
  BY <1>0, <1>5
     DEF Record, TypeInv, PresenceTypeOK, Bounded, redisVars, readVars,
         watchVars
<1> QED  BY <1>1, <1>2, <1>3, <1>4, <1>5

LEMMA ApplyType ==
    ASSUME TypeInv, NEW c \in Calls, Apply(c)
    PROVE  TypeInv'
<1>1. pc' \in [Calls -> {"new", "set", "add", "renew", "record", "apply",
                         "publish", "ok", "failed"}]
  BY DEF Apply, Advance, TypeInv, PresenceTypeOK
<1>2. active' \in [Slots -> Entries \cup {Absent}]
  <2>1. Entry(c) \in Entries /\ active \in [Slots -> Entries \cup {Absent}]
    BY EntryType DEF TypeInv, PresenceTypeOK
  <2>2. active' = [k \in Slots |->
          CASE k = Slot(c) -> Entry(c)
            [] k # Slot(c) /\ k[1] = CallUser[c] ->
                  IF Keeps(active[k], at[c]) THEN active[k] ELSE Absent
            [] OTHER -> active[k]]
    BY DEF Apply
  <2> QED  BY <2>1, <2>2
<1>3. backlog' \in [Watchers -> Seq(Calls)]
  <2>1. \A w \in Watchers : backlog[w] \in Seq(Calls)
                            /\ Pushed(backlog[w], c) \in Seq(Calls)
    BY PushedShape DEF TypeInv, PresenceTypeOK
  <2> QED  BY <2>1 DEF Apply
<1>4. applied' \in Seq(Calls) /\ \A w \in Watchers : since[w] =< Len(applied')
  <2>1. applied' = Append(applied, c) /\ applied \in Seq(Calls)
    BY DEF Apply, TypeInv, PresenceTypeOK
  <2>2. \A w \in Watchers : since[w] \in Nat /\ since[w] =< Len(applied)
    BY DEF TypeInv, PresenceTypeOK, Bounded
  <2> QED  BY <2>1, <2>2, AppendType
<1>5. writer' = c
  BY DEF Apply, Locked
<1>6. UNCHANGED <<now, at, redisVars, recorded, cleanAt, events, readVars,
                  watching, got, since>>
  BY DEF Apply
<1> QED
  BY <1>1, <1>2, <1>3, <1>4, <1>5, <1>6
     DEF TypeInv, PresenceTypeOK, Bounded, redisVars, readVars

LEMMA IsASeq ==
    ASSUME NEW S, NEW n \in Nat, NEW f \in [1 .. n -> S]
    PROVE  f \in Seq(S)
OBVIOUS

\* What a send leaves in the topic: the call, once or more, after the rest.
LEMMA SentShape ==
    ASSUME TypeInv, NEW c \in Calls, Sent(c)
    PROVE  /\ events' \in Seq(Calls)
           /\ Len(events) \in Nat /\ Len(events') \in Nat
           /\ Len(events) =< Len(events')
           /\ \A k \in 1 .. Len(events') :
                 \/ k \in 1 .. Len(events) /\ events'[k] = events[k]
                 \/ k > Len(events) /\ events'[k] = c
<1>1. PICK n \in 1 .. MaxCopies : events' = events \o [k \in 1 .. n |-> c]
  BY DEF Sent
<1>2. n \in Nat /\ events \in Seq(Calls)
  BY <1>1, PresenceAssumption DEF TypeInv, PresenceTypeOK
<1>3. [k \in 1 .. n |-> c] \in Seq(Calls)
  BY <1>2, IsASeq
<1>4. /\ Len([k \in 1 .. n |-> c]) = n
      /\ \A k \in 1 .. n : [i \in 1 .. n |-> c][k] = c
  BY <1>2
<1>5. PICK t \in Seq(Calls) :
         Len(t) = n /\ (\A k \in 1 .. n : t[k] = c) /\ events' = events \o t
  BY <1>1, <1>3, <1>4
<1> QED  BY <1>2, <1>5

LEMMA PublishType ==
    ASSUME TypeInv, NEW c \in Calls, Publish(c)
    PROVE  TypeInv'
<1>1. pc' \in [Calls -> {"new", "set", "add", "renew", "record", "apply",
                         "publish", "ok", "failed"}]
  BY DEF Publish, Advance, TypeInv, PresenceTypeOK
<1>2. events' \in Seq(Calls)
  <2>1. events \in Seq(Calls)
    BY DEF TypeInv, PresenceTypeOK
  <2>2. Sent(c) \/ events' = events
    BY DEF Publish
  <2> QED  BY <2>1, <2>2, SentShape
<1> QED
  BY <1>1, <1>2
     DEF Publish, TypeInv, PresenceTypeOK, Bounded, redisVars, readVars,
         watchVars

LEMMA ReadType ==
    ASSUME TypeInv, NEW r \in Readers, ReadKeys(r) \/ ReadData(r)
    PROVE  TypeInv'
<1>0. ReaderUser[r] \in Users /\ "offline" \in Statuses /\ 0 \in Nat
      /\ "online" \in Statuses
  BY PresenceAssumption
<1>1. CASE ReadKeys(r)
  <2>1. Members(ReaderUser[r]) \in SUBSET Devices
        /\ IsFiniteSet(Members(ReaderUser[r]))
    BY <1>0, FS_EmptySet DEF Members, TypeInv, PresenceTypeOK, Bounded
  <2>2. /\ keys' \in [Readers -> SUBSET Devices]
        /\ \A e \in Readers : IsFiniteSet(keys'[e])
    BY <1>1, <2>1 DEF ReadKeys, TypeInv, PresenceTypeOK, Bounded
  <2>3. [status |-> "offline", devices |-> 0] \in Answers
    BY <1>0 DEF Answers
  <2>4. answer' \in [Readers -> Answers \cup {Absent}]
    BY <1>1, <2>3 DEF ReadKeys, TypeInv, PresenceTypeOK
  <2>5. rpc' \in [Readers -> {"new", "data", "ok", "failed"}]
        /\ readAt' \in [Readers -> Times]
    BY <1>1 DEF ReadKeys, TypeInv, PresenceTypeOK
  <2> QED
    BY <1>1, <2>2, <2>4, <2>5
       DEF ReadKeys, TypeInv, PresenceTypeOK, Bounded, callVars, redisVars,
           watchVars
<1>2. CASE ReadData(r)
  <2>1. rpc' \in [Readers -> {"new", "data", "ok", "failed"}]
    BY <1>2 DEF ReadData, TypeInv, PresenceTypeOK
  <2>2. answer' \in [Readers -> Answers \cup {Absent}]
    <3>1. CASE UNCHANGED answer
      BY <3>1 DEF TypeInv, PresenceTypeOK
    <3>2. ASSUME \A d \in keys[r] : Held(ReaderUser[r], d),
                 NEW status \in Summary(ReaderUser[r], keys[r], readAt[r]),
                 answer' = [answer EXCEPT ![r] =
                    [status |-> status, devices |-> Cardinality(keys[r])]]
          PROVE  answer' \in [Readers -> Answers \cup {Absent}]
      <4>1. \A d \in keys[r] : key[<<ReaderUser[r], d>>] \in Entries
        BY <1>0, <3>2 DEF Held, TypeInv, PresenceTypeOK, Slots
      <4>2. \A d \in keys[r] : key[<<ReaderUser[r], d>>].status \in Statuses
        BY <4>1 DEF Entries
      <4>3. status \in Statuses
        BY <1>0, <3>2, <4>2 DEF Summary, Present
      <4>4. Cardinality(keys[r]) \in Nat
        BY FS_CardinalityType DEF TypeInv, Bounded
      <4>5. [status |-> status, devices |-> Cardinality(keys[r])] \in Answers
        BY <4>3, <4>4 DEF Answers
      <4> QED  BY <3>2, <4>5 DEF TypeInv, PresenceTypeOK
    <3> QED  BY <1>2, <3>1, <3>2 DEF ReadData
  <2> QED
    BY <1>2, <2>1, <2>2
       DEF ReadData, TypeInv, PresenceTypeOK, Bounded, callVars, redisVars,
           watchVars
<1> QED  BY <1>1, <1>2

LEMMA WatchType ==
    ASSUME TypeInv, NEW w \in Watchers, Subscribe(w) \/ Receive(w)
    PROVE  TypeInv'
<1>1. CASE Subscribe(w)
  <2>1. Len(applied) \in Nat
    BY DEF TypeInv, PresenceTypeOK
  <2>2. /\ since' \in [Watchers -> Nat] /\ watching' \in SUBSET Watchers
        /\ \A v \in Watchers : since'[v] =< Len(applied)
    BY <1>1, <2>1 DEF Subscribe, TypeInv, PresenceTypeOK, Bounded
  <2> QED
    BY <1>1, <2>2
       DEF Subscribe, TypeInv, PresenceTypeOK, Bounded, callVars, redisVars,
           readVars
<1>2. CASE Receive(w)
  <2>1. /\ backlog[w] \in Seq(Calls) /\ got[w] \in Seq(Calls)
        /\ backlog[w] # <<>>
    BY <1>2 DEF Receive, TypeInv, PresenceTypeOK
  <2>2. Tail(backlog[w]) \in Seq(Calls)
        /\ Append(got[w], Head(backlog[w])) \in Seq(Calls)
    BY <2>1, TailType, AppendType
  <2>3. /\ backlog' \in [Watchers -> Seq(Calls)]
        /\ got' \in [Watchers -> Seq(Calls)]
    BY <1>2, <2>2 DEF Receive, TypeInv, PresenceTypeOK
  <2> QED
    BY <1>2, <2>3
       DEF Receive, TypeInv, PresenceTypeOK, Bounded, callVars, redisVars,
           readVars
<1> QED  BY <1>1, <1>2

LEMMA CleanupType == TypeInv /\ (StartCleanup \/ Cleanup) => TypeInv'
<1> SUFFICES ASSUME TypeInv, StartCleanup \/ Cleanup PROVE TypeInv'
  OBVIOUS
<1>1. CASE StartCleanup
  <2>1. now \in Times /\ now =< now
    BY CallTimes DEF TypeInv, PresenceTypeOK
  <2> QED
    BY <1>1, <2>1
       DEF StartCleanup, TypeInv, PresenceTypeOK, Bounded, callVars,
           redisVars, readVars, watchVars
<1>2. CASE Cleanup
  <2>1. active' \in [Slots -> Entries \cup {Absent}]
    BY <1>2 DEF Cleanup, TypeInv, PresenceTypeOK
  <2> QED
    BY <1>2, <2>1
       DEF Cleanup, TypeInv, PresenceTypeOK, Bounded, callVars, redisVars,
           readVars, watchVars
<1> QED  BY <1>1, <1>2

LEMMA PresenceTypeStep == TypeInv /\ [PresenceNext]_presenceVars => TypeInv'
<1> SUFFICES ASSUME TypeInv, [PresenceNext]_presenceVars PROVE TypeInv'
  OBVIOUS
<1>1. CASE UNCHANGED presenceVars
  BY <1>1
     DEF TypeInv, PresenceTypeOK, Bounded, presenceVars, callVars, redisVars,
         readVars, watchVars
<1>2. CASE PresenceNext
  BY <1>2, TickType, CallType, ApplyType, PublishType, ReadType, WatchType,
     CleanupType DEF PresenceNext, Update
<1> QED  BY <1>1, <1>2

\* Every variable keeps the values that its declaration names.
THEOREM PresenceTypeCorrect == PresenceSpec => []PresenceTypeOK
BY TypeStart, PresenceTypeStep, PTL DEF PresenceSpec, TypeInv

LEMMA Typed == PresenceSpec => []TypeInv
BY TypeStart, PresenceTypeStep, PTL DEF PresenceSpec

----------------------------------------------------------------------------
(* The calls applied and the write lock.                                   *)

\* A call has been applied once its step is one of these.
After == {"publish", "ok", "failed"}

\* What is applied is past that step, and no call was applied twice; the lock
\* is held by the call that was applied last, until it is published.
AppliedOnce ==
    /\ \A i \in 1 .. Len(applied) : pc[applied[i]] \in After
    /\ \A i, j \in 1 .. Len(applied) : applied[i] = applied[j] => i = j

LockHeld ==
    /\ \A c \in Calls : pc[c] = "publish" => writer = c
    /\ writer # Absent =>
          /\ pc[writer] = "publish"
          /\ applied # <<>> /\ applied[Len(applied)] = writer

\* The event of a call is not out before the lock is given back.
EventsOut ==
    \A k \in 1 .. Len(events) :
       /\ pc[events[k]] \in {"ok", "failed"}
       /\ \E i \in 1 .. Len(applied) : applied[i] = events[k]

ApplyInv == AppliedOnce /\ LockHeld /\ EventsOut /\ EventsInApplyOrder

LEMMA ApplyStart == PresenceInit => ApplyInv
BY DEF PresenceInit, ApplyInv, AppliedOnce, LockHeld, EventsOut,
       EventsInApplyOrder

\* What a step does to the log of applied calls.
LEMMA ApplySteps ==
    ASSUME TypeInv, [PresenceNext]_presenceVars
    PROVE  \/ UNCHANGED <<applied, writer, events>>
              /\ \A c \in Calls : /\ pc'[c] = "publish" => pc[c] = "publish"
                                  /\ pc[c] \in After => pc'[c] = pc[c]
           \/ \E c \in Calls : Apply(c) \/ Publish(c)
<1>1. CASE UNCHANGED <<applied, writer, events, pc>>
  BY <1>1
<1>2. ASSUME NEW d \in Calls,
             Start(d) \/ SetKey(d) \/ AddKey(d) \/ RenewSet(d) \/ Record(d)
      PROVE  /\ UNCHANGED <<applied, writer, events>>
             /\ \A c \in Calls : /\ pc'[c] = "publish" => pc[c] = "publish"
                                 /\ pc[c] \in After => pc'[c] = pc[c]
  <2>1. UNCHANGED <<applied, writer, events>>
    BY <1>2 DEF Start, SetKey, AddKey, RenewSet, Record
  <2>2. PICK s \in {"set", "add", "renew", "record", "apply", "failed"} :
           pc' = [pc EXCEPT ![d] = s] /\ pc[d] \notin After
    BY <1>2 DEF Start, SetKey, AddKey, RenewSet, Record, Advance, After
  <2>3. pc \in [Calls -> {"new", "set", "add", "renew", "record", "apply",
                          "publish", "ok", "failed"}]
    BY DEF TypeInv, PresenceTypeOK
  <2> QED  BY <2>1, <2>2, <2>3
<1>3. \/ UNCHANGED <<applied, writer, events, pc>>
      \/ \E d \in Calls : \/ Start(d) \/ SetKey(d) \/ AddKey(d)
                          \/ RenewSet(d) \/ Record(d)
      \/ \E d \in Calls : Apply(d) \/ Publish(d)
  BY DEF PresenceNext, Update, Tick, ReadKeys, ReadData, Subscribe, Receive,
         StartCleanup, Cleanup, callVars, presenceVars
<1> QED  BY <1>1, <1>2, <1>3

\* Applying a call, in the terms of the log.
LEMMA ApplyShape ==
    ASSUME TypeInv, AppliedOnce, NEW c \in Calls, Apply(c)
    PROVE  /\ Len(applied) \in Nat /\ Len(applied') = Len(applied) + 1
           /\ applied'[Len(applied) + 1] = c
           /\ \A i \in 1 .. Len(applied) :
                 applied'[i] = applied[i] /\ applied[i] \in Calls \ {c}
           /\ pc'[c] = "publish" /\ pc[c] = "apply"
           /\ \A d \in Calls \ {c} : pc'[d] = pc[d]
<1>1. /\ applied \in Seq(Calls) /\ applied' = Append(applied, c)
      /\ pc' = [pc EXCEPT ![c] = "publish"] /\ pc[c] = "apply"
      /\ pc \in [Calls -> {"new", "set", "add", "renew", "record", "apply",
                           "publish", "ok", "failed"}]
  BY DEF TypeInv, PresenceTypeOK, Apply, Advance
<1>2. \A i \in 1 .. Len(applied) : applied[i] \in Calls
  BY <1>1
<1>3. \A i \in 1 .. Len(applied) : applied[i] # c
  BY <1>1 DEF AppliedOnce, After
<1> QED  BY <1>1, <1>2, <1>3, AppendType

\* The order among what was applied stays as the log grows.
LEMMA BeforeStays ==
    ASSUME TypeInv, AppliedOnce, [PresenceNext]_presenceVars, NEW a, NEW b,
           Before(applied, a, b)
    PROVE  Before(applied', a, b)
<1>1. PICK i \in 1 .. Len(applied), j \in 1 .. Len(applied) :
         i < j /\ applied[i] = a /\ applied[j] = b
  BY DEF Before
<1>2. CASE applied' = applied
  BY <1>1, <1>2 DEF Before
<1>3. ASSUME NEW c \in Calls, Apply(c)
      PROVE  Before(applied', a, b)
  <2>1. i \in 1 .. Len(applied') /\ j \in 1 .. Len(applied')
        /\ applied'[i] = a /\ applied'[j] = b
    BY <1>1, <1>3, ApplyShape
  <2> QED  BY <1>1, <2>1 DEF Before
<1> QED  BY <1>2, <1>3, ApplySteps DEF Publish

LEMMA ApplyStep ==
    ASSUME TypeInv, ApplyInv, [PresenceNext]_presenceVars
    PROVE  ApplyInv'
<1>0. /\ applied \in Seq(Calls) /\ events \in Seq(Calls)
      /\ Len(applied) \in Nat /\ Len(events) \in Nat
      /\ writer \in Calls \cup {Absent}
      /\ \A i \in 1 .. Len(applied) : applied[i] \in Calls
      /\ \A k \in 1 .. Len(events) : events[k] \in Calls
  BY DEF TypeInv, PresenceTypeOK
<1>i. AppliedOnce /\ LockHeld /\ EventsOut /\ EventsInApplyOrder
  BY DEF ApplyInv
<1>1. CASE UNCHANGED <<applied, writer, events>>
           /\ \A c \in Calls : /\ pc'[c] = "publish" => pc[c] = "publish"
                               /\ pc[c] \in After => pc'[c] = pc[c]
  <2>1. AppliedOnce'
    BY <1>0, <1>1, <1>i DEF AppliedOnce
  <2>2. LockHeld'
    BY <1>0, <1>1, <1>i DEF LockHeld, After
  <2>3. EventsOut'
    BY <1>0, <1>1, <1>i DEF EventsOut, After
  <2>4. EventsInApplyOrder'
    BY <1>1, <1>i DEF EventsInApplyOrder, Before
  <2> QED  BY <2>1, <2>2, <2>3, <2>4 DEF ApplyInv
<1>2. ASSUME NEW c \in Calls, Apply(c)
      PROVE  ApplyInv'
  <2>1. /\ Len(applied') = Len(applied) + 1
        /\ applied'[Len(applied) + 1] = c
        /\ \A i \in 1 .. Len(applied) :
              applied'[i] = applied[i] /\ applied[i] \in Calls \ {c}
        /\ pc'[c] = "publish" /\ pc[c] = "apply"
        /\ \A d \in Calls \ {c} : pc'[d] = pc[d]
    BY <1>2, <1>i, ApplyShape
  <2>2. writer = Absent /\ writer' = c /\ events' = events
    BY <1>2 DEF Apply, Locked
  <2>3. \A i \in 1 .. Len(applied') :
           \/ /\ i \in 1 .. Len(applied) /\ applied'[i] = applied[i]
              /\ applied[i] \in Calls \ {c}
           \/ i = Len(applied) + 1 /\ applied'[i] = c
    BY <1>0, <2>1
  <2>4. AppliedOnce'
    <3>1. \A i \in 1 .. Len(applied') : pc'[applied'[i]] \in After
      BY <1>i, <2>1, <2>3 DEF AppliedOnce, After
    <3>2. ASSUME NEW i \in 1 .. Len(applied'), NEW j \in 1 .. Len(applied'),
                 applied'[i] = applied'[j]
          PROVE  i = j
      BY <1>i, <2>3, <3>2 DEF AppliedOnce
    <3> QED  BY <3>1, <3>2 DEF AppliedOnce
  <2>5. LockHeld'
    <3>1. \A d \in Calls : pc'[d] = "publish" => d = c
      BY <1>i, <2>1, <2>2, PresenceAssumption DEF LockHeld
    <3>2. applied' # <<>> /\ applied'[Len(applied')] = c
      BY <1>0, <2>1
    <3> QED  BY <2>1, <2>2, <3>1, <3>2 DEF LockHeld
  <2>6. EventsOut'
    <3> SUFFICES ASSUME NEW k \in 1 .. Len(events)
                 PROVE  /\ pc'[events[k]] \in {"ok", "failed"}
                        /\ \E i \in 1 .. Len(applied') :
                              applied'[i] = events[k]
      BY <2>2 DEF EventsOut
    <3>1. pc[events[k]] \in {"ok", "failed"} /\ events[k] \in Calls \ {c}
      BY <1>0, <1>i, <2>1 DEF EventsOut
    <3>2. PICK i \in 1 .. Len(applied) : applied[i] = events[k]
      BY <1>i DEF EventsOut
    <3>3. i \in 1 .. Len(applied') /\ applied'[i] = events[k]
      BY <1>0, <2>1, <3>2
    <3> QED  BY <2>1, <3>1, <3>3
  <2>7. EventsInApplyOrder'
    BY <1>i, <2>2, BeforeStays DEF EventsInApplyOrder
  <2> QED  BY <2>4, <2>5, <2>6, <2>7 DEF ApplyInv
<1>3. ASSUME NEW c \in Calls, Publish(c)
      PROVE  ApplyInv'
  <2>1. /\ pc[c] = "publish" /\ writer' = Absent /\ applied' = applied
        /\ events' = events \/ Sent(c)
    BY <1>3 DEF Publish
  <2>2. pc'[c] \in {"ok", "failed"} /\ \A d \in Calls \ {c} : pc'[d] = pc[d]
    BY <1>3 DEF Publish, Advance, TypeInv, PresenceTypeOK
  <2>3. writer = c /\ applied # <<>> /\ applied[Len(applied)] = c
    BY <1>i, <2>1, PresenceAssumption DEF LockHeld
  <2>4. AppliedOnce'
    BY <1>0, <1>i, <2>1, <2>2 DEF AppliedOnce, After
  <2>5. LockHeld'
    BY <1>i, <2>1, <2>2, <2>3 DEF LockHeld
  <2>6. Len(applied) \in 1 .. Len(applied)
    BY <1>0, <2>3
  <2>7. /\ Len(events') \in Nat
        /\ \A k \in 1 .. Len(events') :
              \/ k \in 1 .. Len(events) /\ events'[k] = events[k]
              \/ k > Len(events) /\ events'[k] = c
    BY <1>0, <2>1, SentShape
  <2>8. ASSUME NEW k \in 1 .. Len(events)
        PROVE  /\ events[k] \in Calls \ {c}
               /\ \E i \in 1 .. Len(applied) :
                     applied[i] = events[k] /\ i < Len(applied)
    <3>1. pc[events[k]] \in {"ok", "failed"} /\ events[k] \in Calls
      BY <1>0, <1>i DEF EventsOut
    <3>2. PICK i \in 1 .. Len(applied) : applied[i] = events[k]
      BY <1>i DEF EventsOut
    <3>3. i # Len(applied)
      BY <2>1, <2>3, <3>1, <3>2
    <3> QED  BY <1>0, <2>1, <3>1, <3>2, <3>3
  <2>9. EventsOut'
    <3> SUFFICES ASSUME NEW k \in 1 .. Len(events')
                 PROVE  /\ pc'[events'[k]] \in {"ok", "failed"}
                        /\ \E i \in 1 .. Len(applied) :
                              applied[i] = events'[k]
      BY <2>1 DEF EventsOut
    <3>1. CASE k \in 1 .. Len(events) /\ events'[k] = events[k]
      BY <1>i, <2>2, <2>8, <3>1 DEF EventsOut
    <3>2. CASE events'[k] = c
      BY <2>2, <2>3, <2>6, <3>2
    <3> QED  BY <2>7, <3>1, <3>2
  <2>10. EventsInApplyOrder'
    <3> SUFFICES ASSUME NEW i \in 1 .. Len(events'),
                        NEW j \in 1 .. Len(events'), i < j
                 PROVE  \/ events'[i] = events'[j]
                        \/ Before(applied, events'[i], events'[j])
      BY <2>1 DEF EventsInApplyOrder
    <3>1. CASE j \in 1 .. Len(events) /\ events'[j] = events[j]
      <4>1. i \in 1 .. Len(events) /\ events'[i] = events[i]
        BY <1>0, <2>7, <3>1
      <4> QED  BY <1>i, <3>1, <4>1 DEF EventsInApplyOrder
    <3>2. CASE events'[j] = c /\ events'[i] = c
      BY <3>2
    <3>3. CASE /\ events'[j] = c
               /\ i \in 1 .. Len(events) /\ events'[i] = events[i]
      BY <2>3, <2>6, <2>8, <3>3 DEF Before
    <3> QED  BY <2>7, <3>1, <3>2, <3>3
  <2> QED  BY <2>4, <2>5, <2>9, <2>10 DEF ApplyInv
<1> QED  BY <1>1, <1>2, <1>3, ApplySteps

LEMMA Applies == PresenceSpec => []ApplyInv
BY ApplyStart, ApplyStep, Typed, PTL DEF PresenceSpec

\* Other services see the updates in the order in which they were applied, and
\* one again only next to itself: the write lock is kept until the event is
\* out, and with it what the producer tries again.
THEOREM EventsOrdered == PresenceSpec => []EventsInApplyOrder
BY Applies, PTL DEF ApplyInv

----------------------------------------------------------------------------
(* What a subscriber sees.                                                 *)

\* What it has or is to receive was applied, in this order.
Sighted(s) ==
    \A k \in 1 .. Len(s) : \E i \in 1 .. Len(applied) : applied[i] = s[k]

SeenInOrder(w) ==
    /\ Sighted(got[w]) /\ Sighted(backlog[w])
    /\ InApplyOrder(got[w]) /\ InApplyOrder(backlog[w])
    /\ \A i \in 1 .. Len(got[w]), j \in 1 .. Len(backlog[w]) :
          Before(applied, got[w][i], backlog[w][j])

\* The last that it has or is to receive.
LastIs(w, c) ==
    IF backlog[w] # <<>> THEN backlog[w][Len(backlog[w])] = c
    ELSE got[w] # <<>> /\ got[w][Len(got[w])] = c

\* It is the last that was applied to its user since it subscribed.
Latest(w) ==
    LET new == AppliedSince(since[w], WatcherUser[w])
    IN  new # {} => \E i \in new : /\ \A j \in new : j =< i
                                   /\ LastIs(w, applied[i])

WatchInv ==
    /\ \A w \in Watchers : SeenInOrder(w)
    /\ \A w \in watching : Latest(w)

LEMMA WatchStart == PresenceInit => WatchInv
BY DEF PresenceInit, WatchInv, SeenInOrder, Sighted, InApplyOrder

LEMMA WatchSteps ==
    ASSUME [PresenceNext]_presenceVars
    PROVE  \/ UNCHANGED <<applied, watchVars>>
           \/ \E c \in Calls : Apply(c)
           \/ \E w \in Watchers : Subscribe(w) \/ Receive(w)
BY DEF PresenceNext, Update, Tick, Start, SetKey, AddKey, RenewSet, Record,
       Publish, ReadKeys, ReadData, StartCleanup, Cleanup, presenceVars

\* Applying one more call: what is pushed comes after what is there.
LEMMA PushKeepsOrder ==
    ASSUME TypeInv, ApplyInv, NEW w \in Watchers, SeenInOrder(w),
           NEW c \in Calls, Apply(c)
    PROVE  SeenInOrder(w)'
<1>0. /\ got[w] \in Seq(Calls) /\ backlog[w] \in Seq(Calls)
      /\ Len(got[w]) \in Nat /\ Len(backlog[w]) \in Nat
      /\ Len(applied) \in Nat
  BY DEF TypeInv, PresenceTypeOK
<1>1. /\ Len(applied') = Len(applied) + 1
      /\ applied'[Len(applied) + 1] = c
      /\ \A i \in 1 .. Len(applied) : applied'[i] = applied[i]
  BY ApplyShape DEF ApplyInv
<1>2. got' = got /\ [PresenceNext]_presenceVars
  BY DEF Apply, PresenceNext, Update
<1>3. backlog'[w] = backlog[w] \/ backlog'[w] = Pushed(backlog[w], c)
  BY DEF Apply, TypeInv, PresenceTypeOK
<1>4. \A a, b : Before(applied, a, b) => Before(applied', a, b)
  BY <1>2, BeforeStays DEF ApplyInv
<1>5. ASSUME NEW i \in 1 .. Len(applied)
      PROVE  /\ \E j \in 1 .. Len(applied') : applied'[j] = applied[i]
             /\ Before(applied', applied[i], c)
  <2>1. i \in 1 .. Len(applied') /\ Len(applied) + 1 \in 1 .. Len(applied')
        /\ i < Len(applied) + 1
    BY <1>0, <1>1
  <2> QED  BY <1>1, <2>1 DEF Before
<1>6. \E j \in 1 .. Len(applied') : applied'[j] = c
  BY <1>0, <1>1
<1>9. Sighted(got[w])' /\ InApplyOrder(got[w])'
  BY <1>2, <1>4, <1>5 DEF SeenInOrder, Sighted, InApplyOrder
<1>7. CASE backlog'[w] = backlog[w]
  <2>1. Sighted(backlog[w])' /\ InApplyOrder(backlog[w])'
    BY <1>4, <1>5, <1>7 DEF SeenInOrder, Sighted, InApplyOrder
  <2>2. \A i \in 1 .. Len(got[w]), j \in 1 .. Len(backlog[w]) :
           Before(applied', got[w][i], backlog[w][j])
    BY <1>4 DEF SeenInOrder
  <2> QED  BY <1>2, <1>7, <1>9, <2>1, <2>2 DEF SeenInOrder
<1>8. CASE backlog'[w] = Pushed(backlog[w], c)
  <2>0. PICK q \in Seq(Calls) : q = backlog[w]
    BY <1>0
  <2>b. /\ Pushed(q, c) \in Seq(Calls)
        /\ Len(Pushed(q, c)) \in Nat \ {0}
        /\ Pushed(q, c)[Len(Pushed(q, c))] = c
        /\ \E skip \in {0, 1} :
              /\ Len(Pushed(q, c)) = Len(q) + 1 - skip
              /\ \A k \in 1 .. Len(q) - skip : Pushed(q, c)[k] = q[k + skip]
    BY ZenonT(30), <2>0, PushedShape
  <2>1. PICK b \in Seq(Calls) : b = backlog'[w] /\ b = Pushed(q, c)
    BY <1>8, <2>0, <2>b
  <2>a. /\ Len(b) \in Nat \ {0} /\ b[Len(b)] = c
        /\ \E skip \in {0, 1} :
              /\ Len(b) = Len(q) + 1 - skip
              /\ \A k \in 1 .. Len(q) - skip : b[k] = q[k + skip]
    BY <2>1, <2>b
  <2>2. PICK skip \in {0, 1} :
           /\ Len(b) = Len(backlog[w]) + 1 - skip
           /\ \A k \in 1 .. Len(backlog[w]) - skip :
                 b[k] = backlog[w][k + skip]
    BY <2>0, <2>a
  <2>3. Len(b) \in Nat \ {0} /\ b[Len(b)] = c
    BY <2>a
  <2>4. \A k \in 1 .. Len(b) :
           \/ k = Len(b) /\ b[k] = c
           \/ /\ k < Len(b) /\ k + skip \in 1 .. Len(backlog[w])
              /\ b[k] = backlog[w][k + skip]
    BY SMTT(30), <1>0, <2>2, <2>3
  <2>5. \A k \in 1 .. Len(backlog[w]) :
           /\ \E i \in 1 .. Len(applied) : applied[i] = backlog[w][k]
           /\ \E i \in 1 .. Len(applied') : applied'[i] = backlog[w][k]
           /\ Before(applied', backlog[w][k], c)
    BY <1>5 DEF SeenInOrder, Sighted
  <2>6. Sighted(backlog[w])'
    <3>1. \A k \in 1 .. Len(b) :
             \E i \in 1 .. Len(applied') : applied'[i] = b[k]
      BY <1>6, <2>4, <2>5
    <3> QED  BY <2>1, <3>1 DEF Sighted
  <2>7. ASSUME NEW i \in 1 .. Len(b), NEW j \in 1 .. Len(b), i < j
        PROVE  Before(applied', b[i], b[j])
    <3>1. i + skip \in 1 .. Len(backlog[w]) /\ b[i] = backlog[w][i + skip]
      BY <2>3, <2>4, <2>7
    <3>2. CASE b[j] = c
      BY <2>5, <3>1, <3>2
    <3>3. CASE j + skip \in 1 .. Len(backlog[w])
               /\ b[j] = backlog[w][j + skip]
      <4>1. i + skip < j + skip
        BY <2>2, <2>7
      <4>2. Before(applied, backlog[w][i + skip], backlog[w][j + skip])
        BY <3>1, <3>3, <4>1 DEF SeenInOrder, InApplyOrder
      <4> QED  BY <1>4, <3>1, <3>3, <4>2
    <3> QED  BY <2>4, <3>2, <3>3
  <2>8. ASSUME NEW i \in 1 .. Len(got[w]), NEW j \in 1 .. Len(b)
        PROVE  Before(applied', got[w][i], b[j])
    <3>1. CASE b[j] = c
      BY <1>5, <3>1 DEF SeenInOrder, Sighted
    <3>2. CASE j + skip \in 1 .. Len(backlog[w])
               /\ b[j] = backlog[w][j + skip]
      BY <1>4, <3>2 DEF SeenInOrder
    <3> QED  BY <2>4, <3>1, <3>2
  <2>10. InApplyOrder(backlog[w])'
    BY <2>1, <2>7 DEF InApplyOrder
  <2> QED  BY <1>2, <1>9, <2>1, <2>6, <2>8, <2>10 DEF SeenInOrder
<1> QED  BY <1>3, <1>7, <1>8

\* A receive moves the oldest update over.
LEMMA ReceiveShape ==
    ASSUME TypeInv, NEW w \in Watchers, Receive(w)
    PROVE  \E x \in Calls, b \in Seq(Calls), g \in Seq(Calls) :
              /\ b = backlog'[w] /\ g = got'[w]
              /\ Len(backlog[w]) \in Nat \ {0} /\ x = backlog[w][1]
              /\ Len(b) = Len(backlog[w]) - 1
              /\ \A k \in 1 .. Len(backlog[w]) - 1 : b[k] = backlog[w][k + 1]
              /\ Len(got[w]) \in Nat /\ Len(g) = Len(got[w]) + 1
              /\ g[Len(got[w]) + 1] = x
              /\ \A k \in 1 .. Len(got[w]) : g[k] = got[w][k]
<1>1. /\ backlog[w] \in Seq(Calls) /\ got[w] \in Seq(Calls)
      /\ backlog[w] # <<>>
      /\ got'[w] = Append(got[w], Head(backlog[w]))
      /\ backlog'[w] = Tail(backlog[w])
  BY DEF Receive, TypeInv, PresenceTypeOK
<1>2. PICK x \in Calls : x = Head(backlog[w])
  BY <1>1, TailType
<1>3. PICK b \in Seq(Calls) : b = Tail(backlog[w])
  BY <1>1, TailType
<1>4. PICK g \in Seq(Calls) : g = Append(got[w], x)
  BY <1>1, <1>2, AppendType
<1>5. /\ Len(backlog[w]) \in Nat \ {0} /\ x = backlog[w][1]
      /\ Len(b) = Len(backlog[w]) - 1
      /\ \A k \in 1 .. Len(backlog[w]) - 1 : b[k] = backlog[w][k + 1]
  BY <1>1, <1>2, <1>3, TailType
<1>6. /\ Len(got[w]) \in Nat /\ Len(g) = Len(got[w]) + 1
      /\ g[Len(got[w]) + 1] = x
      /\ \A k \in 1 .. Len(got[w]) : g[k] = got[w][k]
  BY <1>1, <1>2, <1>4, AppendType
<1> QED  BY <1>1, <1>2, <1>3, <1>4, <1>5, <1>6

LEMMA ReceiveKeepsOrder ==
    ASSUME TypeInv, NEW w \in Watchers, SeenInOrder(w), Receive(w)
    PROVE  SeenInOrder(w)'
<1>1. PICK x \in Calls, b \in Seq(Calls), g \in Seq(Calls) :
         /\ b = backlog'[w] /\ g = got'[w]
         /\ Len(backlog[w]) \in Nat \ {0} /\ x = backlog[w][1]
         /\ Len(b) = Len(backlog[w]) - 1
         /\ \A k \in 1 .. Len(backlog[w]) - 1 : b[k] = backlog[w][k + 1]
         /\ Len(got[w]) \in Nat /\ Len(g) = Len(got[w]) + 1
         /\ g[Len(got[w]) + 1] = x
         /\ \A k \in 1 .. Len(got[w]) : g[k] = got[w][k]
  BY ReceiveShape
<1>2. applied' = applied
  BY DEF Receive
<1>3. 1 \in 1 .. Len(backlog[w])
  BY <1>1
<1>4. \A k \in 1 .. Len(b) : /\ k + 1 \in 1 .. Len(backlog[w]) /\ 1 < k + 1
                             /\ b[k] = backlog[w][k + 1]
  BY <1>1
<1>5. \A k \in 1 .. Len(g) :
         \/ k \in 1 .. Len(got[w]) /\ g[k] = got[w][k]
         \/ k = Len(got[w]) + 1 /\ g[k] = backlog[w][1]
  BY <1>1
<1>6. \A i \in 1 .. Len(backlog[w]), j \in 1 .. Len(backlog[w]) :
         i < j => Before(applied, backlog[w][i], backlog[w][j])
  BY DEF SeenInOrder, InApplyOrder
<1>7. /\ \A k \in 1 .. Len(b) : \E i \in 1 .. Len(applied) :
            applied[i] = b[k]
      /\ \A k \in 1 .. Len(g) : \E i \in 1 .. Len(applied) :
            applied[i] = g[k]
  BY <1>3, <1>4, <1>5 DEF SeenInOrder, Sighted
<1>8. ASSUME NEW i \in 1 .. Len(b), NEW j \in 1 .. Len(b), i < j
      PROVE  Before(applied, b[i], b[j])
  <2>1. i + 1 < j + 1
    BY <1>8
  <2> QED  BY <1>4, <1>6, <2>1
<1>9. ASSUME NEW i \in 1 .. Len(g), NEW j \in 1 .. Len(g), i < j
      PROVE  Before(applied, g[i], g[j])
  <2>1. i \in 1 .. Len(got[w]) /\ g[i] = got[w][i]
    BY <1>1, <1>9
  <2> QED  BY <1>3, <1>5, <1>9, <2>1 DEF SeenInOrder, InApplyOrder
<1>10. ASSUME NEW i \in 1 .. Len(g), NEW j \in 1 .. Len(b)
       PROVE  Before(applied, g[i], b[j])
  BY <1>3, <1>4, <1>5, <1>6 DEF SeenInOrder
<1> QED
  BY <1>1, <1>2, <1>7, <1>8, <1>9, <1>10
     DEF SeenInOrder, Sighted, InApplyOrder

LEMMA LatestStep ==
    ASSUME TypeInv, ApplyInv, [PresenceNext]_presenceVars, NEW w \in Watchers,
           w \in watching => Latest(w), w \in watching'
    PROVE  Latest(w)'
<1>0. /\ since[w] \in Nat /\ since[w] =< Len(applied) /\ Len(applied) \in Nat
      /\ \A i \in 1 .. Len(applied) : applied[i] \in Calls
      /\ got[w] \in Seq(Calls) /\ backlog[w] \in Seq(Calls)
      /\ Len(got[w]) \in Nat /\ Len(backlog[w]) \in Nat
  BY DEF TypeInv, PresenceTypeOK, Bounded
<1>1. CASE UNCHANGED <<applied, watchVars>>
  BY <1>1 DEF watchVars, Latest, AppliedSince, LastIs
<1>2. ASSUME NEW v \in Watchers, Subscribe(v)
      PROVE  Latest(w)'
  <2>1. CASE v = w
    <3>1. applied' = applied /\ since'[w] = Len(applied)
      BY <1>2, <2>1 DEF Subscribe, TypeInv, PresenceTypeOK
    <3>2. AppliedSince(since[w], WatcherUser[w])' = {}
      BY <1>0, <3>1 DEF AppliedSince
    <3> QED  BY <3>2 DEF Latest
  <2>2. CASE v # w
    <3>1. /\ applied' = applied /\ since'[w] = since[w] /\ w \in watching
          /\ got' = got /\ backlog' = backlog
      BY <1>2, <2>2 DEF Subscribe, TypeInv, PresenceTypeOK
    <3> QED  BY <3>1 DEF Latest, AppliedSince, LastIs
  <2> QED  BY <2>1, <2>2
<1>3. ASSUME NEW v \in Watchers, Receive(v)
      PROVE  Latest(w)'
  <2>1. /\ applied' = applied /\ since' = since /\ watching' = watching
        /\ v # w => got'[w] = got[w] /\ backlog'[w] = backlog[w]
    BY <1>3 DEF Receive, TypeInv, PresenceTypeOK
  <2>2. ASSUME NEW c, LastIs(w, c)
        PROVE  LastIs(w, c)'
    <3>1. CASE v # w
      BY <2>1, <2>2, <3>1 DEF LastIs
    <3>2. CASE v = w
      <4>1. PICK x \in Calls, b \in Seq(Calls), g \in Seq(Calls) :
               /\ b = backlog'[w] /\ g = got'[w]
               /\ Len(backlog[w]) \in Nat \ {0} /\ x = backlog[w][1]
               /\ Len(b) = Len(backlog[w]) - 1
               /\ \A k \in 1 .. Len(backlog[w]) - 1 :
                     b[k] = backlog[w][k + 1]
               /\ Len(got[w]) \in Nat /\ Len(g) = Len(got[w]) + 1
               /\ g[Len(got[w]) + 1] = x
               /\ \A k \in 1 .. Len(got[w]) : g[k] = got[w][k]
        BY <1>3, <3>2, ReceiveShape
      <4>2. backlog[w][Len(backlog[w])] = c
        BY <2>2, <4>1 DEF LastIs
      <4>3. CASE Len(backlog[w]) = 1
        <5>1. b = <<>> /\ g # <<>> /\ g[Len(g)] = c
          BY <4>1, <4>2, <4>3
        <5> QED  BY <4>1, <5>1 DEF LastIs
      <4>4. CASE Len(backlog[w]) # 1
        <5>1. b # <<>> /\ b[Len(b)] = c
          <6>1. /\ Len(b) \in 1 .. Len(backlog[w]) - 1
                /\ Len(b) + 1 = Len(backlog[w])
            <7>1. PICK n \in Nat \ {0} : n = Len(backlog[w])
              BY <4>1
            <7>2. Len(b) = n - 1 /\ n # 1
              BY <4>1, <4>4, <7>1
            <7>3. n - 1 \in 1 .. n - 1 /\ (n - 1) + 1 = n
              BY <7>2
            <7> QED  BY <7>1, <7>2, <7>3
          <6>2. b[Len(b)] = backlog[w][Len(b) + 1]
            BY <4>1, <6>1
          <6> QED  BY <4>2, <6>1, <6>2
        <5> QED  BY <4>1, <5>1 DEF LastIs
      <4> QED  BY <4>3, <4>4
    <3> QED  BY <3>1, <3>2
  <2> QED  BY <2>1, <2>2 DEF Latest, AppliedSince
<1>4. ASSUME NEW c \in Calls, Apply(c)
      PROVE  Latest(w)'
  <2>1. /\ Len(applied') = Len(applied) + 1
        /\ applied'[Len(applied) + 1] = c
        /\ \A i \in 1 .. Len(applied) : applied'[i] = applied[i]
    BY <1>4, ApplyShape DEF ApplyInv
  <2>2. /\ got' = got /\ since' = since /\ w \in watching
        /\ backlog'[w] = IF WatcherUser[w] = CallUser[c]
                           THEN Pushed(backlog[w], c) ELSE backlog[w]
    BY <1>4 DEF Apply, TypeInv, PresenceTypeOK
  <2>3. \A i \in since[w] + 1 .. Len(applied') :
           \/ /\ i \in since[w] + 1 .. Len(applied)
              /\ applied'[i] = applied[i]
           \/ i = Len(applied) + 1 /\ applied'[i] = c
    BY <1>0, <2>1
  <2>4. Len(applied) + 1 \in since[w] + 1 .. Len(applied')
        /\ \A i \in since[w] + 1 .. Len(applied') : i =< Len(applied) + 1
    BY <1>0, <2>1
  <2>5. CASE WatcherUser[w] = CallUser[c]
    <3>1. LastIs(w, c)'
      <4>1. Pushed(backlog[w], c) # <<>>
            /\ Pushed(backlog[w], c)[Len(Pushed(backlog[w], c))] = c
        BY <1>0, PushedShape
      <4> QED  BY <2>2, <2>5, <4>1 DEF LastIs
    <3>2. Len(applied) + 1 \in AppliedSince(since[w], WatcherUser[w])'
      BY <2>1, <2>2, <2>4, <2>5 DEF AppliedSince
    <3>3. \A i \in AppliedSince(since[w], WatcherUser[w])' :
             i =< Len(applied) + 1
      BY <2>2, <2>4 DEF AppliedSince
    <3> QED
      BY <2>1, <3>1, <3>2, <3>3 DEF Latest, LastIs
  <2>6. CASE WatcherUser[w] # CallUser[c]
    <3>1. AppliedSince(since[w], WatcherUser[w])'
             = AppliedSince(since[w], WatcherUser[w])
      <4>1. \A i \in since[w] + 1 .. Len(applied) :
               /\ i \in since[w] + 1 .. Len(applied')
               /\ applied'[i] = applied[i]
        BY <1>0, <2>1
      <4> QED  BY <2>2, <2>3, <2>6, <4>1 DEF AppliedSince
    <3>2. \A i \in AppliedSince(since[w], WatcherUser[w]) :
             applied'[i] = applied[i]
      BY <1>0, <2>1 DEF AppliedSince
    <3>3. backlog'[w] = backlog[w] /\ got'[w] = got[w]
      BY <2>2, <2>6
    <3> QED  BY <2>2, <3>1, <3>2, <3>3 DEF Latest, LastIs
  <2> QED  BY <2>5, <2>6
<1> QED  BY <1>1, <1>2, <1>3, <1>4, WatchSteps

LEMMA WatchStep ==
    ASSUME TypeInv, ApplyInv, WatchInv, [PresenceNext]_presenceVars
    PROVE  WatchInv'
<1>1. ASSUME NEW w \in Watchers
      PROVE  SeenInOrder(w)'
  <2>0. SeenInOrder(w)
    BY DEF WatchInv
  <2>1. CASE applied' = applied /\ got'[w] = got[w] /\ backlog'[w] = backlog[w]
    BY <2>0, <2>1 DEF SeenInOrder, Sighted, InApplyOrder
  <2>2. ASSUME NEW v \in Watchers \ {w}, Receive(v)
        PROVE  /\ applied' = applied /\ got'[w] = got[w]
               /\ backlog'[w] = backlog[w]
    BY <2>2 DEF Receive, TypeInv, PresenceTypeOK
  <2>3. CASE UNCHANGED <<applied, watchVars>>
             \/ \E v \in Watchers : Subscribe(v)
    BY <2>1, <2>3 DEF watchVars, Subscribe
  <2> QED
    BY <2>0, <2>1, <2>2, <2>3, WatchSteps, PushKeepsOrder, ReceiveKeepsOrder
<1>2. ASSUME NEW w \in watching'
      PROVE  Latest(w)'
  <2>1. w \in Watchers
    BY PresenceTypeStep DEF TypeInv, PresenceTypeOK
  <2> QED  BY <1>2, <2>1, LatestStep DEF WatchInv
<1> QED  BY <1>1, <1>2 DEF WatchInv

LEMMA Watches == PresenceSpec => []WatchInv
BY WatchStart, WatchStep, Typed, Applies, PTL DEF PresenceSpec

\* One sequence after another, in terms of each.
LEMMA Joined ==
    ASSUME NEW S, NEW g \in Seq(S), NEW b \in Seq(S)
    PROVE  /\ Len(g \o b) = Len(g) + Len(b) /\ Len(g) \in Nat /\ Len(b) \in Nat
           /\ \A k \in 1 .. Len(g \o b) :
                 \/ k \in 1 .. Len(g) /\ (g \o b)[k] = g[k]
                 \/ /\ k > Len(g) /\ k - Len(g) \in 1 .. Len(b)
                    /\ (g \o b)[k] = b[k - Len(g)]
OBVIOUS

\* A subscriber sees updates in the order in which they were applied, and none
\* twice, also when it lags.
THEOREM SeesInOrder == PresenceSpec => []WatcherInOrder
<1>1. TypeInv /\ WatchInv => WatcherInOrder
  <2> SUFFICES ASSUME TypeInv, WatchInv, NEW w \in Watchers
               PROVE  InApplyOrder(got[w] \o backlog[w])
    BY DEF WatcherInOrder
  <2>1. PICK g \in Seq(Calls), b \in Seq(Calls) :
           g = got[w] /\ b = backlog[w]
    BY DEF TypeInv, PresenceTypeOK
  <2>2. PICK s : s = g \o b
    OBVIOUS
  <2>3. /\ Len(g) \in Nat /\ Len(s) = Len(g) + Len(b) /\ Len(b) \in Nat
        /\ \A k \in 1 .. Len(s) :
              \/ k \in 1 .. Len(g) /\ s[k] = g[k]
              \/ /\ k > Len(g) /\ k - Len(g) \in 1 .. Len(b)
                 /\ s[k] = b[k - Len(g)]
    BY <2>2, Joined
  <2>4. SeenInOrder(w)
    BY DEF WatchInv
  <2>5. ASSUME NEW i \in 1 .. Len(s), NEW j \in 1 .. Len(s), i < j
        PROVE  Before(applied, s[i], s[j])
    <3>1. CASE i \in 1 .. Len(g) /\ s[i] = g[i]
      BY <2>1, <2>3, <2>4, <2>5, <3>1 DEF SeenInOrder, InApplyOrder
    <3>2. CASE /\ i > Len(g) /\ i - Len(g) \in 1 .. Len(b)
               /\ s[i] = b[i - Len(g)]
      <4>1. /\ j - Len(g) \in 1 .. Len(b) /\ s[j] = b[j - Len(g)]
            /\ i - Len(g) < j - Len(g)
        BY <2>3, <2>5, <3>2
      <4> QED
        BY <2>1, <2>4, <3>2, <4>1 DEF SeenInOrder, InApplyOrder
    <3> QED  BY <2>3, <3>1, <3>2
  <2> QED  BY <2>1, <2>2, <2>5 DEF InApplyOrder
<1> QED  BY <1>1, Typed, Watches, PTL

\* A subscriber that has read all it was sent knows the latest update of its
\* user since it subscribed: the channel gives up the oldest when it is full.
THEOREM SeesLatest == PresenceSpec => []WatcherSeesLatest
<1>1. WatchInv => WatcherSeesLatest
  BY DEF WatchInv, Latest, LastIs, WatcherSeesLatest
<1> QED  BY <1>1, Watches, PTL

\* No update twice: what is seen in the order of a log without repetitions has
\* none itself.
NoneTwice ==
    \A w \in Watchers : \A i, j \in 1 .. Len(got[w]) :
       got[w][i] = got[w][j] => i = j

\* A subscriber receives no update twice.
THEOREM SeesNoneTwice == PresenceSpec => []NoneTwice
<1>1. TypeInv /\ ApplyInv /\ WatchInv => NoneTwice
  <2> SUFFICES ASSUME TypeInv, ApplyInv, WatchInv, NEW w \in Watchers,
                      NEW i \in 1 .. Len(got[w]), NEW j \in 1 .. Len(got[w]),
                      got[w][i] = got[w][j]
               PROVE  i = j
    BY DEF NoneTwice
  <2>1. i < j \/ j < i \/ i = j
    OBVIOUS
  <2>2. ASSUME NEW a PROVE ~Before(applied, a, a)
    BY DEF ApplyInv, AppliedOnce, Before
  <2> QED
    BY <2>1, <2>2 DEF WatchInv, SeenInOrder, InApplyOrder
<1> QED  BY <1>1, Typed, Applies, Watches, PTL

----------------------------------------------------------------------------
(* The table in memory.                                                    *)

LEMMA UnexpiredStep ==
    ASSUME TypeInv, ApplyInv, UnexpiredStaysActive, [PresenceNext]_presenceVars
    PROVE  UnexpiredStaysActive'
<1>0. /\ Len(applied) \in Nat /\ now \in Nat
      /\ \A i \in 1 .. Len(applied) : applied[i] \in Calls
      /\ active \in [Slots -> Entries \cup {Absent}]
  BY CallTimes DEF TypeInv, PresenceTypeOK
<1>1. ASSUME NEW i \in 1 .. Len(applied),
             \A j \in i + 1 .. Len(applied) :
                Slot(applied[j]) # Slot(applied[i]),
             now < at[applied[i]] + TTL
      PROVE  active[Slot(applied[i])] = Entry(applied[i])
  BY <1>1 DEF UnexpiredStaysActive
<1>2. ASSUME applied' = applied, now' = now \/ now' = now + 1,
             \A i \in 1 .. Len(applied) :
                /\ at'[applied[i]] = at[applied[i]]
                /\ now < at[applied[i]] + TTL =>
                      \/ active'[Slot(applied[i])] = active[Slot(applied[i])]
                      \/ active[Slot(applied[i])] # Entry(applied[i])
      PROVE  UnexpiredStaysActive'
  <2> SUFFICES ASSUME NEW i \in 1 .. Len(applied),
                      \A j \in i + 1 .. Len(applied) :
                         Slot(applied[j]) # Slot(applied[i]),
                      now' < at[applied[i]] + TTL
               PROVE  active'[Slot(applied[i])] = Entry(applied[i])
    BY <1>2 DEF UnexpiredStaysActive, Entry, Slot
  <2>1. at[applied[i]] + TTL \in Nat
    BY <1>0, CallTimes, PresenceAssumption
  <2>2. now < at[applied[i]] + TTL
    BY <1>0, <1>2, <2>1
  <2> QED  BY <1>1, <1>2, <2>2
<1>3. CASE UNCHANGED <<now, at, active, applied>>
  BY <1>2, <1>3
<1>4. CASE Tick
  BY <1>2, <1>4 DEF Tick, callVars
<1>5. ASSUME NEW c \in Calls, Start(c)
      PROVE  UnexpiredStaysActive'
  <2>1. UNCHANGED <<now, active, applied>> /\ pc[c] = "new"
        /\ \A d \in Calls \ {c} : at'[d] = at[d]
    BY <1>5 DEF Start, TypeInv, PresenceTypeOK
  <2>2. \A i \in 1 .. Len(applied) : applied[i] \in Calls \ {c}
    BY <1>0, <2>1 DEF ApplyInv, AppliedOnce, After
  <2> QED  BY <1>2, <2>1, <2>2
<1>6. CASE Cleanup
  <2>1. UNCHANGED <<now, at, applied>>
    BY <1>6 DEF Cleanup, callVars
  <2>2. ASSUME NEW i \in 1 .. Len(applied), now < at[applied[i]] + TTL,
               active[Slot(applied[i])] = Entry(applied[i])
        PROVE  active'[Slot(applied[i])] = active[Slot(applied[i])]
    <3>1. /\ Slot(applied[i]) \in Slots
          /\ Entry(applied[i]) # Absent
          /\ Entry(applied[i]).until = at[applied[i]] + TTL
      BY <1>0, CallTimes, EntryType DEF Entry
    <3>c. cleanAt \in Nat /\ cleanAt =< now
      BY <1>6 DEF Cleanup, TypeInv, PresenceTypeOK, Bounded, Times
    <3>2. at[applied[i]] + TTL \in Nat
      BY <1>0, CallTimes, PresenceAssumption
    <3>3. Keeps(active[Slot(applied[i])], cleanAt)
      BY <1>0, <2>2, <3>1, <3>c, <3>2 DEF Keeps
    <3> QED  BY <1>6, <3>1, <3>3 DEF Cleanup
  <2> QED  BY <1>2, <2>1, <2>2
<1>7. ASSUME NEW c \in Calls, Apply(c)
      PROVE  UnexpiredStaysActive'
  <2>1. /\ Len(applied') = Len(applied) + 1
        /\ applied'[Len(applied) + 1] = c
        /\ \A i \in 1 .. Len(applied) : applied'[i] = applied[i]
    BY <1>7, ApplyShape DEF ApplyInv
  <2>2. UNCHANGED <<now, at>> /\ Slot(c) \in Slots
    BY <1>7, CallTimes DEF Apply
  <2>3. active'[Slot(c)] = Entry(c)
    BY <1>7, <2>2 DEF Apply
  <2>4. ASSUME NEW d \in Calls, Slot(d) # Slot(c), now < at[d] + TTL,
               active[Slot(d)] = Entry(d)
        PROVE  active'[Slot(d)] = Entry(d)
    <3>1. /\ Slot(d) \in Slots /\ Entry(d) # Absent
          /\ Entry(d).until = at[d] + TTL
      BY CallTimes, EntryType DEF Entry
    <3>2. at[c] =< now /\ at[c] \in Nat /\ at[d] + TTL \in Nat
      BY CallTimes, PresenceAssumption DEF TypeInv, Bounded
    <3>3. Keeps(active[Slot(d)], at[c])
      BY <1>0, <2>4, <3>1, <3>2 DEF Keeps
    <3> QED  BY <1>7, <2>4, <3>1, <3>3 DEF Apply
  <2> SUFFICES ASSUME NEW i \in 1 .. Len(applied'),
                      \A j \in i + 1 .. Len(applied') :
                         Slot(applied'[j]) # Slot(applied'[i]),
                      now < at[applied'[i]] + TTL
               PROVE  active'[Slot(applied'[i])] = Entry(applied'[i])
    BY <2>2 DEF UnexpiredStaysActive, Entry, Slot
  <2>5. CASE i = Len(applied) + 1
    BY <2>1, <2>3, <2>5
  <2>6. CASE i \in 1 .. Len(applied)
    <3>1. \A j \in i + 1 .. Len(applied) : Slot(applied[j]) # Slot(applied[i])
      <4>1. \A j \in i + 1 .. Len(applied) :
               j \in i + 1 .. Len(applied') /\ applied'[j] = applied[j]
        BY <1>0, <2>1, <2>6
      <4> QED  BY <2>1, <2>6, <4>1
    <3>2. Slot(applied[i]) # Slot(c)
      <4>1. Len(applied) + 1 \in i + 1 .. Len(applied')
        BY <1>0, <2>1, <2>6
      <4> QED  BY <2>1, <2>6, <4>1
    <3>3. active[Slot(applied[i])] = Entry(applied[i])
      BY <1>1, <2>1, <2>6, <3>1
    <3> QED  BY <1>0, <2>1, <2>4, <2>6, <3>2, <3>3
  <2> QED  BY <1>0, <2>1, <2>5, <2>6
<1>8. \/ UNCHANGED <<now, at, active, applied>>
      \/ Tick \/ Cleanup \/ \E c \in Calls : Start(c) \/ Apply(c)
  BY DEF PresenceNext, Update, SetKey, AddKey, RenewSet, Record, Publish,
         ReadKeys, ReadData, Subscribe, Receive, StartCleanup, callVars,
         presenceVars
<1> QED  BY <1>3, <1>4, <1>5, <1>6, <1>7, <1>8

\* The latest update of a device is in memory until it expires, although calls
\* of other devices and the cleanup drop entries around it, each by the clock
\* that it read before it waited for the lock.
THEOREM UnexpiredKept == PresenceSpec => []UnexpiredStaysActive
<1>1. PresenceInit => UnexpiredStaysActive
  BY DEF PresenceInit, UnexpiredStaysActive
<1> QED  BY <1>1, UnexpiredStep, Typed, Applies, PTL DEF PresenceSpec
=============================================================================

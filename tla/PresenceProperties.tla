------------------------- MODULE PresenceProperties -------------------------
(* What the presence service promises.                                     *)
EXTENDS Presence

\* a comes before b among the elements of s.
Before(s, a, b) ==
    \E i, j \in 1 .. Len(s) : i < j /\ s[i] = a /\ s[j] = b

\* The order of s agrees with the order in which the calls were applied.
InApplyOrder(s) ==
    \A i, j \in 1 .. Len(s) : i < j => Before(applied, s[i], s[j])

\* The calls applied to u after the first n.
AppliedSince(n, u) ==
    {i \in n + 1 .. Len(applied) : CallUser[applied[i]] = u}

----------------------------------------------------------------------------
\* "Publish to Kafka for other services": other services see the updates in
\* the order in which this one applied them, whatever calls run side by side;
\* an update is there again only next to itself, by a retry within its send.
EventsInApplyOrder ==
    \A i, j \in 1 .. Len(events) :
       i < j => \/ events[i] = events[j]
                \/ Before(applied, events[i], events[j])

\* A subscriber sees updates in the order in which they were applied, and none
\* twice, also when it lags.
WatcherInOrder ==
    \A w \in Watchers : InApplyOrder(got[w] \o backlog[w])

\* A subscriber that has read all it was sent knows the latest update of its
\* user since it subscribed: a lag costs it older ones only.
WatcherSeesLatest ==
    \A w \in watching :
       LET new == AppliedSince(since[w], WatcherUser[w])
       IN  (backlog[w] = <<>> /\ new # {}) =>
              /\ got[w] # <<>>
              /\ \E i \in new :
                    /\ \A j \in new : j =< i
                    /\ got[w][Len(got[w])] = applied[i]

\* The latest update of a device is in memory until it expires, although calls
\* of other devices and the cleanup drop entries around it, each by the clock
\* that it read before it waited for the lock.
UnexpiredStaysActive ==
    \A i \in 1 .. Len(applied) :
       LET c == applied[i]
       IN  (/\ \A j \in i + 1 .. Len(applied) : Slot(applied[j]) # Slot(c)
            /\ now < at[c] + TTL)
              => active[Slot(c)] = Entry(c)

\* "Clean up stale entries": what has expired leaves the memory.
ExpiredLeavesMemory ==
    \A k \in Slots :
       (active[k] # Absent /\ active[k].until =< now) ~>
          (active[k] = Absent \/ active[k].until > now)

----------------------------------------------------------------------------
\* "letting TTL handle it automatically": with a Redis that does not fail and
\* no update under way, a request for a user with a live device, served within
\* a tick, is answered, although another device's key has expired.
ReaderAnswered ==
    [][\A r \in Readers :
          (/\ rpc[r] = "data" /\ readAt[r] = now
           /\ \E d \in keys[r] : Held(ReaderUser[r], d)
           /\ \A c \in Calls : pc[c] \in {"new", "ok"})
             => rpc'[r] # "failed"]_presenceVars
=============================================================================

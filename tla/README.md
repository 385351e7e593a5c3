# A verification model of the messaging platform

TLA+ modules, TLC configurations and TLAPS proofs for the services under
`src/messaging-platform/` and the chat page `src/chat.html`. A module is
translated from the source and names, in PROJECT.json, the lines each of its
definitions stands for. Part 1 is the inventory of the system, part 2 says what
each module models, part 3 what the runs check, part 4 what is proved, part 5
what is left and in which order it is to be done.

## 1. Inventory

```
 chat clients --WebSocket--> gateway --"messages"--> messaging service
      ^                       |  ^                    | ScyllaDB: messages, delivery_status
      |   fan-out             |  |                    | PostgreSQL: group_members, conversations
      +-----------------------+  +-"processed-messages"
                              | Redis: presence:{user}
 gRPC clients --> presence service --"presence-events"--> (nobody: the gateway
      listens to "presence-updates")
 HTTP clients --> auth, moderation, encryption service --> PostgreSQL, Redis
```

| component | state | operations | interacts with |
|---|---|---|---|
| WebSocket gateway, `gateway/src/main.rs` | a DashMap from user to `Vec<Connection>`; per socket a handler, a send task with an unbounded channel, a receive task | connect, the five kinds of frame, disconnect, stale sweep, fan-out of messages and typing | Redis (presence), Kafka in both directions, the clients |
| messaging service, `messaging/src/main.rs` | the envelope in hand; ScyllaDB and PostgreSQL rows | `process_messages`, `process_message` and the calls it makes | Kafka group `message-processor`, both databases |
| presence service, `presence/src/main.rs` | `active_users` behind a `RwLock`, a broadcast channel per user | UpdatePresence, GetPresence, SubscribePresence, BulkPresenceUpdate, GetOnlineFriends, cleanup | Redis (key per device, set per user), PostgreSQL, Kafka |
| moderation service, `moderation/src/main.rs` | tables `reports`, `user_restrictions` | create, list, update, resolve a report; moderation actions; automated ban | PostgreSQL, Kafka |
| auth service, `auth/src/main.rs` | tables `users`, `sessions` | register, login (the file ends inside `refresh_token`) | PostgreSQL, Redis |
| encryption service, `encryption-service/src/main.rs` | table `encryption_sessions` | store, get, rotate, delete a session | PostgreSQL |
| ratchet and ciphers, `shared/src/crypto/mod.rs` | root, sending and receiving chain keys | ratchet step, encrypt, decrypt | used by the SDK |
| client SDK, `client-sdk/src/` | socket, handlers, heartbeat tasks; key files | connect, reconnect, send, receive | the gateway, the file system |
| chat page, `src/chat.html` | the message list of the page, a cooldown | load, realtime insert, send | Supabase |
| shared models, site pages, placeholders | none of their own | - | - |

What is hard to get right, and hard to test, in each:

* **Gateway.** Three tasks per socket, a sweep and one consumer share the map.
  DashMap locks are synchronous and per shard, and an iteration holds the lock
  of the shard it is in. `select!` detaches the task that did not end. A new
  socket of a device comes while the old one is being cleaned up. Correct means:
  an entry belongs to a live handler, is removed only for a reason, a broadcast
  neither misses nor repeats nor reorders for a socket that stays, a user never
  hears himself, a closed socket is torn down.
* **Messaging service.** Eight or more calls to three stores per message without a
  transaction; offsets are committed in the background, and a partition without a
  commit is read from its end; an error ends the process; a rebalance hands a
  partition over while a message of it is in hand; the producer may repeat a record
  within one send. Correct means: nothing an instance has taken is skipped in
  silence, order within an assignment, no announcement without the rows it promises,
  replays converge.
* **Presence service.** Concurrent calls write four stores one after the other
  and only the last two under a lock; keys and sets expire by themselves; a
  broadcast channel drops its oldest update. Correct means: one order of updates
  in memory, for watchers and on Kafka; no unexpired state lost and no expired
  state kept; a reader is answered.
* **Moderation, auth.** Check-then-act on tables without transactions or unique
  constraints; events after commits that may fail; strings compared in two
  spellings. Correct means: resolved reports are closed consistently, duplicates
  need overlapping calls, one session per device when logins do not overlap.
* **Encryption store, ratchet.** Rows are replaced by requests that may overtake
  each other, and the newest row of a pair of users is taken, whichever session
  it is of; two chains must agree on both sides while each side replaces one.
  Correct means: a party that stored its keys before it stopped gets them back,
  and a message opens when its receiver has the chain it was sealed with.
* **SDK.** Every connection leaves three tasks behind that nothing stops, and
  they meet at the locks of the handler lists. Correct means: handlers agree on
  one order and miss nothing, `receive_message` leaves no gap, what was accepted
  is written.
* **Chat page.** Callbacks of realtime inserts run beside the first load; a
  timer reopens the button while a send is under way. Correct means: a row is
  shown once unless it raced with the load, a text is stored once unless the
  button was pressed again during its send.
* **Gateways together.** Replicas are in one consumer group, commit what they have
  taken, and lose it in a crash; clients move between them, and one that is
  connected may have no entry. Correct means: a message reaches a member with an
  entry unless another replica took it, one assignment is in order, and what is
  announced is broadcast by someone.

PROJECT.json lists every one of these as a hazard, with its line and the
properties that watch it or the reason why none does.

The repository does not build as it stands (for instance the consumer loops await a
call that is not asynchronous, a struct is built from a variable of another
name, a handler of "presence-updates" is called and not defined). The models
take the code at its word: a call does what its text says.

## 2. The modules

| module | role |
|---|---|
| `Gateway` | the gateway: variables, actions, `Spec`, `FairSpec` |
| `FanOut` | abstract: what a gateway promises of the topic it fans out |
| `GatewayProperties` | its invariants, action properties, liveness, and the refinement of `FanOut` |
| `GatewayProofs` | theorems, checked by TLAPS |
| `MessageLifecycle` | abstract: what the messaging service promises about a message |
| `Processor` | the messaging service: consumer group, instances, one call per step |
| `ProcessorProperties` | its properties, and the refinement of `MessageLifecycle` |
| `ProcessorProofs` | theorems, checked by TLAPS |
| `Presence` | the presence service: concurrent calls over Redis, the table, channels |
| `PresenceProperties` | its properties |
| `PresenceProofs` | theorems, checked by TLAPS |
| `Moderation` | the moderation service: concurrent requests over `reports`, with its properties |
| `ModerationProofs` | theorems, checked by TLAPS |
| `Sessions` | the auth service: register and login, with its properties |
| `SessionKeys` | the encryption service and the ratchets of two parties who keep their keys in it, with its properties |
| `SessionKeysProofs` | theorems, checked by TLAPS |
| `SdkClient` | the client SDK: the calls of the application beside the tasks they spawn, with its properties |
| `ChatPage` | the chat page beside the database and its realtime channel, with its properties |
| `Platform` | several gateways between `MessageLifecycle` and the clients, with its properties |
| `PlatformProofs` | theorems, checked by TLAPS |
| `ClientsProofs` | theorems about `SdkClient`, `ChatPage` and `MCClients`, checked by TLAPS |
| `Services` | the four services that do not meet, one of them chosen at the start |
| `ServicesProofs` | theorems about `Sessions` and `Services`, checked by TLAPS |
| `MCGateway`, `MCProcessor`, `MCPresence`, `MCServices`, `MCClients` | small instances for TLC |

Definitions named `Bug...` are slips: a plausible mistake in the definition
that follows them. They are used by no specification. Each property has one
that breaks it, which shows that the property can tell this code from another.

### Gateway

One action per step between two points where another task can run: an `.await`,
or the acquisition of a shard's lock. A socket is a model value used for one
connection, with a handler (`pc`), a send task, a receive task and a channel
(`queue`); `out` is what the client was sent. The map is the set `registered`
with, per entry, its heartbeat time (`beat`) and the entries pushed before it
(`ahead`), because the heartbeat handler refreshes the first entry of its device (`Found`).
Five variables are history that no guard reads: `out` and `joined`, `late` (who wrote
a presence after it departed), `heard` (when a socket's own task last took a heartbeat)
and `unsaid` (the users whose last presence write was lost).
`lock` is a shard that stays locked when a handler blocks holding it. A
broadcast (`bcast`) visits the shards in order, one step per shard, as the
iterator does; so does the sweep, with the time it read when it started.

`Disconnect` holds the most subtle code. `handle_socket` (gateway/src/main.rs:213-219) calls
`connections.remove` while the `RefMut` returned by `get_mut` is alive. If the
entry became empty the handler waits for a lock it holds itself: the action
sets `pc` to "stuck" and the shard's `lock` to the socket, for ever. A wait for a
shard blocks the worker thread it runs on, not only its task, so that after the first
lock every task that comes to that shard takes a thread along: the sweep, the
consumer, heartbeats. `Wedged` is that state, and fairness ends with it.

`FanOut` is the gateway without shards, locks, tasks and channels: a socket is
connected or not, joined at some place of the topic, and was handed a set of
messages. `Deliver` hands one message to any number of sockets at once, to each
only if it is somebody else's, later than all it has, and the next that a
connected socket misses. `Leave` takes any number of sockets out, and only one that is out
may `Lose` what it was handed. `KeepsFanOut` in `GatewayProperties` is its
refinement: a socket is in when it has an entry and its client is there (`Place`),
and was handed what is in its channel or was sent (`Handed`).

Abstracted: the check of the token, the text of frames, the content of messages
(a message is its sender and its place in the topic). Time is a count of sweep periods of
30 seconds. The runs take `Timeout` as 1 where the code has 60 seconds, since
only the order of the three events (refresh, expiry, sweep) matters.

### Processor and MessageLifecycle

A conversation is a partition and a message is a conversation and an offset, because
the gateway keys envelopes by conversation. The consumer group is modelled from how
the service configures it: `Assign`, `Revoke`, `AutoCommit` with offsets that are
stored when an envelope is handed out. The consumer sets no `auto.offset.reset`, so
an owner begins at the committed offset or, where there is none, at the end
(`Beginning`), and what lies before that is history `skipped`; an assignment that
has given nothing yet commits nothing (`CommitPoint`). An instance has one envelope
in `hand` with the stage it is at, and each stage is one database or Kafka call. Any
call may fail (`Error`: the process ends, and its consumer commits what it has
stored) or the host may die (`Crash`: it does not). `Resend` is the producer's own
retry inside one send, which may leave the record in the topic twice since
idempotence is not enabled (`resent`). `ChangeMember` is the owner of
`group_members`, outside this repository.

`MessageLifecycle` says that a message is announced to an audience only after
it was sent, stored, and given a delivery record for every member of that
audience, and that none of this is undone. `KeepsPromise` in
`ProcessorProperties` is its refinement by the service, whatever fails.

### Presence

One action per await point of `update_presence`: SETEX, SADD, EXPIRE, INSERT, the
locked section, the Kafka send (the lock is held until the end of the
function, so `writer` is set in `Apply` and cleared in `Publish`). One send may leave up to
`MaxCopies` copies in the topic (`Sent`). A round of the cleanup task reads the
clock (`StartCleanup`, `cleanAt`), waits for the lock, and drops by that clock
(`Cleanup`). Readers make
SMEMBERS and MGET in two steps. A key lives until a deadline. A channel
(`backlog`) holds `Capacity` updates and drops the oldest. A request for several
users, or a bulk update, is a sequence of requests of the model.

### Moderation

A filing is a request to create a report, and a review is a request of a
moderator to update or to resolve one. A request makes one statement per step,
as the handlers do, with no transaction around them, and any statement may fail
(`Break`) with what was written before left in place. `Announce` is the Kafka send
at the end of a handler: one that reports an error may have arrived. `Demote` is
the owner of the roles, who may act between `Verify` and `Write`. The two
spellings of the source are kept: `Updated` takes the status as `format!("{:?}")`
spells it and compares it with 'resolved', and `SpamReports` compares the stored
"User" with 'user'.

Abstracted: descriptions, the text of the action taken, expiry of a ban. Reading
handlers (list, get, user status, statistics) change nothing and are left out;
so is `take_moderation_action`: every action in it is a comment, and it sends one
event on a topic of its own.

### Sessions

A registration is a look at `users` and a transaction that inserts the account
and its first session. A login is one step per statement. A request makes at
most one session, so the session bears its name. Two history variables remember
what a request saw when it looked (`noted`, `looked`): the properties use them
to tell requests that overlap from requests that do not. A unique index on
`users` is not in the repository (there are no migrations); with one, the
transaction of a clash would fail, which `Fail` allows.

Abstracted: passwords, tokens, salts, validation of the payload, the expiry of
a session after 30 days, which no query here looks at.

### SessionKeys

Two parties with a ratchet each. Keys are symbols: a ratchet key is its owner and
a number, a Diffie-Hellman secret is the set of the two keys that make it, a root
key is the sequence of secrets that went into it, and a chain key is the party
it was made for or, after a step, what the step derived. A ciphertext opens
with the chain key it was sealed with. `Step` is `perform_ratchet_step` of both
crates: the shared one takes the key it has, the SDK's is given one, and neither
gives its fresh public key out, so a caller can know only those that sessions
began with. `Seal` and `Opens` leave the state alone because `encrypt` and
`decrypt` advance no chain.

`Ask` sends a request to the key store and `Store` is its arrival, in any order;
`Rewritten` is the row of the `ON CONFLICT` clause, which sets keys and leaves
counters. `Crash` loses the ratchet and `Restore` takes the newest row.

Abstracted: ciphers, hashes, nonces. The two chains of a new session are given
crosswise to the parties, since `new` takes them as arguments and no code says
where they come from.

### SdkClient

The `MessagingClient` of one application, which calls it from one task. Each
`Connect` adds a connection with a sender, a receiver and a heartbeat task, and
replaces the two channel ends the client holds; the tasks of the connection before
stay. A receiver task that takes a message or a presence update waits for the lock
of the list (`LockHandlers`), calls the handlers one after the other while it holds
it (`CallHandler`), and gives it back (`EndCalls`). `AddHandler` returns before the
task it spawns has pushed the handler (`PushHandler`). A link is up, down, or
stalled: then the peer is there and does not read (`PeerStalls`), as a gateway whose
receive task waits at a locked shard, and a write to it waits (`WriteFrame`).

Abstracted: content of frames, the HTTP requests (`SignIn` is one that succeeds).
`send_message` looks for a session of the conversation in a map that no code
writes to, so it returns its error and changes nothing.

### ChatPage

One browser. Callbacks and continuations of a script do not overlap, so each is
one step; between two of them the database answers, other people post and the
channel delivers. A text is one state of the input in which the user left it,
since the questions are whether a text is stored twice and whether one is lost.

### Platform

`Life` is an instance of `MessageLifecycle`: the messaging service appears here as
what it promises, and `Processor` shows that it keeps the promise. An announcement
is appended to the log of its conversation (`feed`), which is a partition of
"processed-messages" and is assigned to one gateway of the group at a time
(`Assign`, `Reassign`, `CommitTaken`). An owner begins at the committed offset, or
at the end where nothing is committed (`Beginning`, `begun`, history `skipped`). A
gateway takes one announcement, then broadcasts it to the clients in its map except
the sender. Being connected (`socket`) and being in the map (`listed`) are two
things: `Attach` does both, unless the map is locked; `Sweep` takes an entry out for
an old heartbeat; and each `Detach` leaves a handler behind (`leaving`) whose
`Cleanup` takes out every entry of the device, the present socket's too, and may
lock the map (`wedged`). A broadcast is one step as long as the map is not locked,
because `Gateway` shows what it does to a socket while it is under way; on a locked
map it serves some and waits for ever with what it holds (`Falter`, `stuck`).
`CrashGateway` loses the sockets, the map with its lock and the announcement in
hand.

Abstracted: shards and their locks but for a map that locked itself (any `Cleanup`
may, where `Gateway` says which does), the age of heartbeats (any entry may be
swept), the devices of a client (an older handler of the client stands for one of
the same device), typing (sent to the gateway's own sockets and not through the
group), presence. Only the clients in `Listeners` connect; an author need not.

### Instances of several parts

`Services` extends `Moderation`, `Sessions`, `SessionKeys` and `Presence`, whose
names do not meet; `MCClients` extends `ChatPage`, `SdkClient` and `Platform`. The
initial state chooses one part and only that part moves, so that one run explores all
of them and their spaces add up. Both are modules a theorem can be about, and
`MCServices` only gives `Services` its constants. A part that was not chosen
has one initial state, in which no step that fairness asks for is possible.

## 3. The runs

| run | instance | shows |
|---|---|---|
| `gateway_devices` | 3 sockets of one user (2 of one device, symmetric), 1 shard, 1 tick, 1 frame (heartbeat or presence), Redis may fail | `RegistryMatchesHandlers`: no handler leaves its entry behind. `WedgeShape`: what a locked shard looks like. `OnlyLateFramesUndoDeparture`: who can undo the last "offline". `HeartbeatOnlyLostToOlder`: which entry a heartbeat renews instead of its own. `RemovalJustified`: who may remove an entry |
| `gateway_traffic` | 2 sockets of 2 users, both in the second of 2 shards, 2 messages, 1 frame of any kind | `DeliveredInOrder`, `NoGapWhileRegistered`, `LockedShardIsFrozen`, the refinement `KeepsFanOut`, `TypeOK` |
| `gateway_live` | a socket and its reconnection, 2 shards, 1 tick, 1 message, Redis may fail | under fairness, unless a shard is locked, `SocketTornDown`, `FanOutCompletes`, `StaleEntrySwept` |
| `gateway_wedge` | 1 socket | violation of `DisconnectCompletes` |
| `processor_replay` | 2 instances, 2 envelopes, 2 assignments, 1 ban or return, 1 record sent twice | `NoSilentSkip`, `OrderedPerAssignment`, the refinement `KeepsPromise` |
| `processor_single` | 1 instance, 2 envelopes, 3 assignments, 1 ban or return, 1 record sent twice | `LastMessageSettles`, `TypeOK`, under fairness `HandledEventually` |
| `processor_sender` | 1 instance, 1 envelope, 1 ban | violation of `SenderTracked` |
| `presence_updates` | 3 calls from 2 devices of one user, a watcher, capacity 2, 1 tick, up to 2 copies of a record | `EventsInApplyOrder`, `WatcherInOrder`, `WatcherSeesLatest`, `UnexpiredStaysActive`, under fairness `ExpiredLeavesMemory` |
| `presence_nil` | 2 calls, a reader, lifetime 2 | violation of `ReaderAnswered` |
| `services` | moderation: 3 filings (2 of one user and target, 1 of a group that does not exist), 2 reviews of one report, 2 ticks, windows of 1 and 2 ticks; auth: 2 registrations with one email, 3 logins from one phone; keys: 2 sessions, 2 steps, 1 message, 2 stores, 1 crash; presence: 2 calls, a reader, a watcher, every store may fail | `ClosedTogether`, `RepeatsNeedOverlap`, `ClashesNeedOverlap`, `RevokedByLaterLogin`, `OpensIffSealedEarly`, `RestartResumes`, and the types `ServicesTypeOK` |
| `services_sessions` | the auth part of the same | violation of `OneSessionPerDevice` |
| `clients` | chat page: 3 rows, 2 texts, 2 sends; SDK: 2 connections, 2 frames of 3 kinds, 2 handlers of messages, 1 frame to write; platform: 2 gateways, 2 clients of whom 1 connects, 1 conversation, 1 message announced up to twice, 2 assignments, 1 crash, 2 connections | `AnomaliesNeedLoading` and `TextsAccountedFor`; `HandlersAgree`, `NoGapInReceived` and under fairness `QueuedIsWritten`; `MissedOnlyElsewhere`, `InOrderPerTurn` and under fairness `BroadcastInTheEnd`; the types `ClientsTypeOK` |

**Bounds.** Every unbounded thing has a named bound: `MaxTime` ticks, `MaxTopic`
messages, `MaxFrames` frames, `MaxLog` envelopes, `MaxEpochs` assignments,
`MaxChanges` of members, `MaxResends` and `MaxCopies` of a record, `Capacity` of a
channel. They are the smallest for which the interesting cases occur. Three sockets
of one user give a reconnection of a device beside a second device; one user needs
one shard, and the two sockets of one device may be exchanged, since the order in
which they come is a choice of the steps. Two messages give an order; two shards
give an iteration that can be overtaken, and both users in the last shard make the
broadcast pass an empty one first. Two assignments and two instances give an owner
that works on after it lost its partition; three assignments of one instance give a
replay of a replay. Three calls over a channel of two give a lag, two of them from
one device give a state that is replaced, one tick gives an expiry. Two filings of
one user and a window of two ticks give a refusal, a repeat that overlaps and a
repeat that is late enough, and the shorter window is one tick so that the two can
be told apart; two reviews give an update after a resolution. Three logins are what
it takes to find a row that was revoked already. Two sessions and two requests give
rows of which the wrong one could be the newest, or a row that is rewritten; two
steps give one of each party, or a second on one side; the message may be of either
party, before or after a step. Three rows give one before, one during and one after
the load; two texts and two sends give a text typed while another is sent. Two
connections give tasks that outlive their connection, two frames an order, two
handlers of messages a lock that is held from one call to the next, with a frame
that only the first has seen and a handler that is pushed between two frames. One
record sent twice stands for any, since a repetition lies next to what it repeats.
One message announced twice gives a log of two places; two gateways, two assignments
and two connections give a client whose partition, or who himself, moves to the
other gateway between the two. In `gateway_traffic` no time passes, so there the
part of `LockedShardIsFrozen` about refreshing and sweeping has nothing to look at;
its theorem, `LockedStaysFrozen`, has no such bound. Deadlock is not checked:
clients stop, every counter is bounded, and a wedged shard is a state the code can
be in.

**Fairness.** Tokio runs every ready task, so each step of a handler, send task,
broadcast and sweep that is not waiting for a client is weakly fair, as long as no
shard is locked. Then it is not, of any shard: whoever waits for a DashMap lock
blocks a worker thread, and when the threads are gone no task runs. So every
liveness property of the gateway has the one exception `Wedged`. A client owes
nothing: no fairness on frames, on closing, or on noticing that a silent peer is
gone (`RecvClose`). The consumer loop, the calls of `process_message` and the group
coordinator are fair; a restart after a crash is not, hence the exception in
`HandledEventually` of a partition that is left without an instance again and again
(`[]<>Stranded`); an error or two do not excuse it. A presence call that began goes
on and the cleanup loop never ends. In the SDK only the sender tasks are fair, and
only while the peer reads, since a write waits for it. In `Platform` a gateway's
consumer task is, while its map is not locked (`Consume`), and the assignment of a
partition to some gateway that runs; a handler of the application owes no return, a
gateway no restart, a client no connection. Strong fairness is used nowhere.

**What disagrees with the repository's own words**, each shown by a run:

* `gateway_wedge`: the last connection of a user never reaches "Update presence
  to offline", and its shard is locked from then on, so the liveness properties
  above hold only up to a locked shard.
* `processor_sender`: the sender banned between the two reads of the members.
* `presence_nil`: a live user whose presence cannot be read.
* `services_sessions`: login looks for "existing session on this device" among
  revoked rows too, so logins that never overlap leave two live sessions. What
  does hold, and is proved, is the other direction: a login revokes nothing but
  a session of its own user and device that its look-up found (`RevokedByLaterLogin`).

Others, that need no interleaving or have no run of their own: `select!` drops only
the handle of the task that has not ended, so a receive task may outlive its handler
and set a departed user online (gateway/src/main.rs:208;
`OnlyLateFramesUndoDeparture` says that nothing else can); a heartbeat renews the
first entry of the device, an old socket's after a reconnection
(gateway/src/main.rs:252), and the socket in use goes stale
(`HeartbeatOnlyLostToOlder` says that only such an older entry can take it); the
unread update binds its values in the wrong order (messaging/src/main.rs:157, the
model has the row that results in `UnreadRow`); message ids are cut to 64 bits
(messaging/src/main.rs:105); "most recent status" is the last device's
(presence/src/main.rs:213); a set may expire between SADD and EXPIRE, and is for
ever without the second (presence/src/main.rs:86); presence changes are published on
a topic the gateway does not read (presence/src/main.rs:419,
gateway/src/main.rs:431); a message goes to every connected user but its sender
(gateway/src/main.rs:484); a report updated to "Resolved" gets no resolver and is
not counted as resolved (moderation/src/main.rs:293), and the automated ban counts
reports of type 'user' where "User" is stored, so it never comes
(moderation/src/main.rs:554).

From the modules of the clients and their keys: a ratchet step replaces the sending
chain and no code replaces the receiving one (shared/src/crypto/mod.rs:127,
client-sdk/src/crypto/mod.rs:82), so a party is not understood after its first step;
`OpensIffSealedEarly` is that statement, and it is proved. A session stored again
takes new keys and keeps its old counters (encryption-service/src/main.rs:46), hence
the exception in `RestartResumes`. `send_message` of the SDK cannot succeed
(client-sdk/src/lib.rs:256). The SDK writes a heartbeat as a bare name and the
gateway reads a tag and a content (client-sdk/src/lib.rs:475), so as the two stand
no heartbeat is understood and every entry of an SDK client goes stale; `Gateway`
models heartbeats as its own code reads them. "Broadcast to all participants"
(gateway/src/main.rs:437) reaches those on one gateway, since the gateways share a
group and so each message goes to one of them; `MissedOnlyElsewhere` says what else
is missed by a member who has an entry: what a crash took, what waits at a lock, and
what was announced before the group's first commit. That last, and the same for the
messaging service, comes of consumers that do not set `auto.offset.reset`
(gateway/src/main.rs:423, messaging/src/main.rs:44): a group that begins, begins at
the end. A client that is connected without an entry, since the sweep or an older
socket of its device took it out, hears nothing and is not told. The chat page never
sends its typing updates (no one awaits the queries), and empties the input after an
insert that was refused (src/chat.html:122).

## 4. What is proved

Every invariant and every action property that a passing run checks is a
theorem for all values of the constants, and so are both refinements; one of them
under the hypothesis that the comment of the property names
(`LastMessageSettles`: a single instance). The liveness properties are only
model-checked, as the end of this part says.

Where a theorem needs an assumption of its own, it is stated with it. What the
modules assume of their constants is little: functions have the domains their
names say, bounds are numbers, and `None` or `Nobody` is not a member of the set
it is told apart from. `HandAssumption`, `EntryAssumption` and `HoldAssumption`
say that of a set of records: nothing in hand is no envelope, no entry of
the table is no entry.

`GatewayProofs`, for any users, devices, sockets, shards and bounds:

* `TypeCorrect`: `Spec => []TypeOK`. It is inductive as it stands; one lemma
  per group of actions.
* `RegistryCorrect`: `Spec => []RegistryMatchesHandlers`. The property is
  inductive: the only steps out of "announce" or "serving" are `Announce`, which
  stays inside, and `Disconnect`, which removes the entries of the socket's
  device, its own among them; nothing but `Connect` adds an entry.
* `WedgeCorrect`: `Spec => []WedgeShape`. Inductive together with `TypeOK`: no
  action changes a lock but the `Disconnect` that finds it free and empties the
  entry, and `Connect` of another socket of that user needs the lock to be free.
  That last step is why the lock and the empty entry have to be one invariant.
* `LockedStaysFrozen` (`LockedShardIsFrozen`) and `RemovalOnlyJustified`
  (`RemovalJustified`), the action properties. The first follows from the type
  invariant once it is known what a step may do to a channel (`ChannelCut`,
  `ChannelSent` and an item pushed by a broadcast that visits the shard, which waits
  for the lock). The second needs that the clock the sweep started with is never
  ahead (`SweepBehind`): an entry stale then is stale now.
* `DepartureLasts` (`OnlyLateFramesUndoDeparture`), whether Redis keeps what it is
  given or not: a lost write of "offline" leaves whatever was there, and the property
  excepts it by the history `unsaid`, the users whose last write was lost. The
  invariant adds that the tasks of a socket exist only after its handler announced it
  (`TasksFollow`), so that a socket that has not begun sends nothing.
* `DeliveryOrdered` (`DeliveredInOrder`), with what is under way (`InFlight`:
  sockets broadcast typing and nothing else, the consumer the message it took
  last) and what a channel may hold (`TakenBefore`: messages taken, and only
  earlier ones where the broadcast has yet to come by). A client that goes takes
  the next item or the queue with it: what is left is the channel thinned out, and
  a thinned channel keeps its order (`Thinned`).
* `NoGap` (`NoGapWhileRegistered`), with the same about the message under way:
  a socket that stays has it once the iterator is past its shard (`NoGapYet`), and
  its send task does not end while its client is there.
* `HeartbeatsAccountedFor` (`HeartbeatOnlyLostToOlder`), inductive with three
  more: of two entries of a user one was pushed before the other (`Pushed`), so that an
  entry found instead of that of `s` is older; its handler has not left
  (`RegistryMatchesHandlers`); and no heartbeat was heard in the future
  (`HeardBehind`), so that a renewed entry lags behind none. When the
  older handler leaves it takes the entry of `s` along, and when the sweep drops the older
  entry its handler is still there: that is why the property speaks of handlers.
* `FanOutKept` (`KeepsFanOut`): `Spec => Promise!Spec`, the refinement of `FanOut`.
  A visit of a shard by the consumer is a `Deliver` to the sockets reached there, and
  the guard of `Deliver` is what `TakenBefore` and `NoGapYet` say of the message under
  way (with `JoinedBehind`: nobody joined later than the consumer has come). A
  disconnection, a sweep and a client that goes are `Leave`, a send task that ends
  is `Lose`; a frame sent on, a typing update and all other steps are stutters.

`ProcessorProofs`, for any instances, conversations, users and bounds:

* `ProcessorTypeCorrect` (`TypeOK`; with it, a partition that is owned was
  assigned).
* `PublishedInOrder` (`OrderedPerAssignment`), from `OrderInv`: committed is at most
  taken, taken at most written (`TakenInOrder`); an envelope in hand is later than
  all that was published of its assignment, but for its own record if the producer
  repeated that, no other instance has one of the same assignment, and it is of the
  current one only if nobody else was given the partition since (`HandsFit`); what
  was published was taken (`PublishedTaken`). The property alone is not inductive:
  an instance that lost the partition may publish at any time, and only `HandsFit`
  says that it is then alone with an older assignment.
* `NothingSkipped` (`NoSilentSkip`), from `TakenAccounted`: everything up to where an
  owner has got to, and not only what is committed, is settled, in hand, or was
  skipped as an owner began behind it with nothing committed. A commit then only
  moves within it.
* `Lifecycle` (`KeepsPromise`): `Spec => Promise!Spec`, the refinement of
  `MessageLifecycle`. A stage of `process_message` maps to a step of the abstract
  specification or a stutter, since at each stage the rows are there that the
  stages before wrote (`HandsWritten`), whoever wrote them first.
* `SingleInstanceSettles` (`LastMessageSettles`), for one instance
  (`Workers = {w}`), which is what the property is about: with two, an older run
  may write last. `LastInv` adds that nothing later than the envelope in hand was
  taken in this assignment, and that the last message known is as late as any that
  is done.

`PresenceProofs`, for any users, devices, calls, readers, subscribers, capacity
and lifetime, whether calls fail or not:

* `PresenceTypeCorrect` (`PresenceTypeOK`), with the sets of device keys
  finite and no clock, a call's or the cleanup's, ahead of the time (`Bounded`).
* `EventsOrdered` (`EventsInApplyOrder`), from `ApplyInv`: no call is applied twice
  (`AppliedOnce`), the lock is held by the call that was applied last until it is
  published (`LockHeld`), and the event of a call that holds it is not yet out
  (`EventsOut`). Copies of one send lie side by side.
* `SeesInOrder` (`WatcherInOrder`), `SeesLatest` (`WatcherSeesLatest`) and
  `SeesNoneTwice`. What a subscriber has or will receive is a subsequence of what was
  applied (`SeenInOrder`), whose last element is the latest update of its user
  since it subscribed (`Latest`): a full channel drops its first element, and takes a
  new one, so it is never empty when it drops.
* `UnexpiredKept` (`UnexpiredStaysActive`): a call and the cleanup drop what has
  expired by the clock they read before they waited for the lock, which is behind the
  time or at it, never ahead.

`PlatformProofs`, for any gateways, clients, conversations and messages:

* `PlatformTypeCorrect` (`PlatformTypeOK`), with the order committed, taken,
  written (`Shapes`).
* `OrderedPerTurn` (`InOrderPerTurn`), from `TurnInv`: what a gateway holds of the
  present assignment it holds as its reader, or nobody is (`HoldsFit`), no two hold
  something of one assignment (`OneHolder`), and what a client has precedes what
  is still held (`GotFits`). A client may move to a gateway that holds an older
  assignment; it is the number of the assignment that keeps the orders apart.
* `PassedOverNobody` (`MissedOnlyElsewhere`), from `MissInv`: `NotMissed` says of
  all that was taken what the property says of what was committed, of the clients
  that are in a map: one that gets an entry is owed nothing that was announced
  before, and one that loses it nothing more. `ToldSound` is the promise of
  `MessageLifecycle`, as it arrives here.
* `LifecycleKept`: `PlatformSpec => Life!Spec`. The steps of the gateways leave the
  abstract service alone, so its promise holds in the composition.

`ClientsProofs`, for any handlers, numbers of connections, frames, rows and sends:

* `PageTypeCorrect` (`PageTypeOK`). The button is disabled as long as the timer
  runs (`PageShapes`).
* `TextsKept` (`TextsAccountedFor`), from `TextInv`: the input holds the newest
  text or none (`InputNewest`); a text is sent again only while it is being sent, or
  after a failure (`PressedAgain`); and what is in the input beside a send of
  another text was typed during it (`TypedDuring`), which is what the send will
  empty.
* `AnomaliesExplained` (`AnomaliesNeedLoading`), from `ListInv`: the list is the
  rows that were loaded, then rows of the channel in the order of the table and
  without a gap, the first `m` of which were wiped. A row is missing or doubled by
  where it lies with respect to the load and to those `m`.
* `SdkTypeCorrect` (`SdkTypeOK`). A list of handlers is bounded by their
  number because no handler is pushed twice; that takes the finite set of handlers of
  `SdkAssumption`.
* `HandlersCalledInOrder` (`HandlersAgree`), from `LockInv` (a receiver that calls
  handlers holds their lock, and its frame is the last the lock was taken for) and
  `CalledInv` (each handler has been called for all the lock was taken for since it
  was pushed, but for the last while its turn is still to come).
* `ReceivedWithoutGap` (`NoGapInReceived`). The newest connection has read the
  frames up to some place, one of which its task may still have in hand, and what
  is through was returned or lies in the inbox (`NewestInv`); a connection that was
  not made has nothing (`UnmadeInv`); and each entry of what was returned comes
  after all of its connection before it (`TakenInv`). The inbox of an older
  connection is out of reach, which is why only the newest needs the strong form.
* `ClientsTypeCorrect` (`ClientsTypeOK`): the three types in the composition
  of `MCClients`; a step of it is one of a single part (`PartSteps`).

`ServicesProofs`, for any registrations and logins of which none is both (that is
the assumption `Disjoint`, each theorem about them states it):

* `AuthTypeCorrect`, `RevocationsCorrect` (`RevokedByLaterLogin`) and
  `ClashesCorrect` (`ClashesNeedOverlap`), from one inductive invariant,
  `AuthInv`. A property about what was seen says nothing about a login that is
  about to revoke, so the invariant adds where a request is when its session or
  account exists (`SessionsArePlaced`, `AccountsArePlaced`), that what was seen
  is there (`LooksArePast`), that a login about to revoke holds an earlier
  session of its own user and device (`RevokesOwnDevice`), and that a
  registration about to insert clashes with nothing it saw (`NoneSeenClash`).
  `UsersStay` is the lemma that makes it stable: the user of a session never
  changes. The type invariant itself needs the second and the third: a login revokes
  `found[l]`, which is a request only because it was seen.
* `EachServiceRuns`: `ServicesSpec => ModSpec /\ AuthSpec /\ KeysSpec /\
  PresenceSpec`. A step of the composition is one of a single service and leaves the
  variables of the others alone (`EachSteps`), so each theorem of a service holds
  in the instance that TLC explores. It carries `ServicesTypeCorrect`
  (`ServicesTypeOK`), under `Sane` and `Disjoint`, from the four type theorems.

`ModerationProofs`, for any filings, reviews and windows under `Sane` (`Nobody` is no
time and no person, a review names a filing and asks for a status, no request
is both a filing and a review):

* `ModerationTypeCorrect`, `ClosedCorrect` (`ClosedTogether`) and `RepeatsCorrect`
  (`RepeatsNeedOverlap`), from the inductive invariant `ModInv`. `FilingStep` and
  `ReportStep` say what any step of any request does to one filing and to one report;
  the conjuncts follow from those two without another look at the actions. The
  invariant adds that a report is stored once and before it is announced
  (`ReportsArePlaced`), which the automated action relies on, that what a
  filing saw was stored (`PresentIsPast`), and that when it is about to
  insert, the reports of the same target that it saw are a day old
  (`NoneSeenRecent`).

`SessionKeysProofs`, for any number of sessions, steps, messages, requests and crashes,
under `KeysAssumption` (two parties, numbers, and `NoState` no party) and
`NoStateAssumption` (nor a row):

* `KeysTypeCorrect`, `OpensCorrect` (`OpensIffSealedEarly`) and `RestartCorrect`
  (`RestartResumes`), from the inductive invariant `KeysInv`. `OpensIffSealedEarly` is
  about the ratchets in use, but those come back out of rows, and rows out of
  requests: `LiveGood`, `RequestsGood` and `RowsGood` say of all three that the
  receiving chain is the one the peer began with and the sending chain goes with
  the root (`Good`), and `SealedGood` says what the chain of a sealed message tells.
  `SavedNewest` says that what was stored last is in its row and no other row of
  the party is as new; from it `Restore` can only take that one.

Proofs about records with EXCEPT and about actions with alternatives are split:
first the alternative is extracted, then the type of each updated function is
stated, then the conclusion follows.

Only model-checked: the liveness properties (`SocketTornDown`,
`FanOutCompletes`, `StaleEntrySwept`, `HandledEventually`, `ExpiredLeavesMemory`,
`QueuedIsWritten`, `BroadcastInTheEnd`), since liveness under fairness and ENABLED
are beyond the prover, and the four properties that the code violates. Induction
over data and RECURSIVE operators are out of the prover's reach too; no module
here declares one. A theorem quantifies over the bounds of the model, so it holds
for every bound, but says nothing of what the modules abstract from.

## 5. What is left, in order

1. The safety half of the liveness properties, as theorems: that whoever waits at a
   locked shard waits for the socket that is stuck and for nothing else (`Gateway`);
   that what is queued stays queued until it is written or its link breaks
   (`SdkClient`); that an entry the sweep has passed was fresh by the clock it reads
   (`Gateway`).
2. Hazards that no property watches yet, for which PROJECT.json gives the reason:
   the presence key that the devices of a user share first, since `Gateway` has it
   and only a property is missing.

## Not modelled

* The shared models: types without behaviour. The site pages and placeholders: no
  state.
* In the messaging service `handle_read_receipt`, which nothing calls. In the
  moderation service the handlers that only read and `take_moderation_action`,
  in which every action is a comment. In the auth service whatever follows
  `refresh_token`, where the file ends. In the encryption service
  `rotate_group_keys`, which counts members and writes nothing. In the SDK
  `create_group`, an HTTP request that leaves the client as it was.
* The key agreement of both crypto modules and the AES helpers, which nothing
  calls. Ciphers, hashes, tokens and passwords: library code or pure functions.
* The text of frames and requests: the models tell frames apart by kind.

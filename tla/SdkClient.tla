----------------------------- MODULE SdkClient -----------------------------
(***************************************************************************)
(* MessagingClient (client-sdk/src/lib.rs): the calls of the application,  *)
(* one at a time, beside the tasks they spawn.  Every connect_websocket    *)
(* adds a connection with a sender task, a receiver task and a heartbeat   *)
(* task; it replaces the two channel ends the client holds and stops none  *)
(* of the tasks of the connection before.  The heartbeat task keeps the    *)
(* sending end of its connection for ever, so its sender task ends only    *)
(* when a write fails.                                                     *)
(*                                                                         *)
(* Connections are numbered as they are made.  A frame of the server is    *)
(* its place in frames, which holds the kinds; what the client writes is   *)
(* counted.  The handlers of messages and those of presence are two lists, *)
(* each behind a lock, which a receiver task holds while it calls them.    *)
(***************************************************************************)
EXTENDS Naturals, Sequences, FiniteSets

CONSTANTS
    Handlers, HandledKind,  \* handlers and what each is for
    Kinds,                  \* kinds of frames the server sends
    MaxConns, MaxFrames, MaxQueued

HandlerLists == {"message", "presence"}

ASSUME SdkAssumption ==
    /\ HandledKind \in [Handlers -> HandlerLists] /\ IsFiniteSet(Handlers)
    /\ MaxConns \in Nat /\ MaxFrames \in Nat /\ MaxQueued \in Nat

VARIABLES
    signedIn,   \* auth_token and user_id are set
    conns,      \* connections made
    link,       \* whether each is open, and whether its peer reads
    \* --- sender task ---
    sending, queued, written,
    accepted,   \* frames the sender tasks were given, in all
    \* --- receiver task: its state, and the frame in its hands ---
    receiving, hand, arriving,
    inbox,      \* frames for receive_message
    \* --- handlers ---
    registering,    \* handlers whose task has not pushed them yet
    handlers,       \* the two lists
    turn,           \* who holds their locks: a connection, or 0
    called,         \* how many handlers the holder has called
    \* --- the server, and histories ---
    frames,
    since,      \* frames sent before each connection was made
    taken,      \* what receive_message returned
    order,      \* frames in the order the locks were taken for them
    from,       \* length of that order when a handler was pushed
    calls       \* what each handler was called with

sendVarsSdk == <<sending, queued, written, accepted>>
handlerVars == <<registering, handlers, turn, called, order, from, calls>>
receiveVars == <<receiving, hand, arriving, inbox, taken>>
sdkVars == <<signedIn, conns, link, sendVarsSdk, handlerVars, receiveVars,
             frames, since>>

Conns == 1 .. MaxConns
Made == 1 .. conns
Frames == 1 .. Len(frames)
Deliveries == Conns \X Frames
Linked(c) == link[c] \in {"up", "stalled"}

SdkTypeOK ==
    /\ signedIn \in BOOLEAN
    /\ conns \in 0 .. MaxConns
    /\ link \in [Conns -> {"none", "up", "stalled", "down"}]
    /\ sending \in [Conns -> BOOLEAN]
    /\ queued \in [Conns -> 0 .. MaxQueued]
    /\ written \in [Conns -> 0 .. MaxQueued]
    /\ accepted \in 0 .. MaxQueued
    /\ receiving \in [Conns -> {"none", "read", "wait", "call", "ended"}]
    /\ hand \in [Conns -> {0} \cup Frames]
    /\ \A c \in Conns : arriving[c] \in Seq(Frames) /\ inbox[c] \in Seq(Frames)
    /\ registering \subseteq Handlers
    /\ handlers \in [HandlerLists -> Seq(Handlers)]
    /\ turn \in [HandlerLists -> {0} \cup Conns]
    /\ called \in [HandlerLists -> 0 .. Cardinality(Handlers)]
    /\ frames \in Seq(Kinds)
    /\ since \in [Conns -> {0} \cup Frames]
    /\ taken \in Seq(Deliveries)
    /\ order \in [HandlerLists -> Seq(Deliveries)]
    /\ \A h \in Handlers :
          from[h] \in Nat /\ calls[h] \in Seq(Deliveries)

SdkInit ==
    /\ signedIn = FALSE /\ conns = 0
    /\ link = [c \in Conns |-> "none"]
    /\ sending = [c \in Conns |-> FALSE]
    /\ queued = [c \in Conns |-> 0] /\ written = [c \in Conns |-> 0]
    /\ accepted = 0
    /\ receiving = [c \in Conns |-> "none"]
    /\ hand = [c \in Conns |-> 0]
    /\ arriving = [c \in Conns |-> <<>>] /\ inbox = [c \in Conns |-> <<>>]
    /\ registering = {}
    /\ handlers = [l \in HandlerLists |-> <<>>]
    /\ turn = [l \in HandlerLists |-> 0]
    /\ called = [l \in HandlerLists |-> 0]
    /\ frames = <<>> /\ since = [c \in Conns |-> 0] /\ taken = <<>>
    /\ order = [l \in HandlerLists |-> <<>>]
    /\ from = [h \in Handlers |-> 0] /\ calls = [h \in Handlers |-> <<>>]

----------------------------------------------------------------------------
(* The application.                                                        *)

\* register or login succeeds; a failure leaves both fields as they were.
SignIn ==
    /\ ~signedIn
    /\ signedIn' = TRUE
    /\ UNCHANGED <<conns, link, sendVarsSdk, handlerVars, receiveVars, frames,
                   since>>

\* connect_websocket.  What the old receiving end still held goes with it.
Connect ==
    /\ signedIn /\ conns < MaxConns
    /\ LET c == conns + 1 IN
          /\ conns' = c
          /\ link' = [link EXCEPT ![c] = "up"]
          /\ sending' = [sending EXCEPT ![c] = TRUE]
          /\ receiving' = [receiving EXCEPT ![c] = "read"]
          /\ since' = [since EXCEPT ![c] = Len(frames)]
          /\ inbox' = [d \in Conns |-> <<>>]
    /\ UNCHANGED <<signedIn, queued, written, accepted, handlerVars, hand,
                   arriving, taken, frames>>

\* A frame goes to the sender task of a connection; after that task ended
\* the frame is dropped (a heartbeat) or the call fails.
Queue(c) ==
    /\ sending[c] /\ accepted < MaxQueued
    /\ accepted' = accepted + 1
    /\ queued' = [queued EXCEPT ![c] = @ + 1]
    /\ UNCHANGED <<signedIn, conns, link, sending, written, handlerVars,
                   receiveVars, frames, since>>

\* update_presence, send_typing_indicator.  send_message needs an encryption
\* session for the conversation; no code makes one, so it only fails.
SendUpdate == conns > 0 /\ Queue(conns)

\* start_heartbeat: the task of every connection there ever was.
Beat(c) == c \in Made /\ Queue(c)

\* add_message_handler, add_presence_handler: a task is spawned.  Dropping
\* the sender that is returned only ends that task, the handler stays.
AddHandler(h) ==
    /\ h \notin registering
    /\ \A l \in HandlerLists : \A k \in DOMAIN handlers[l] :
          handlers[l][k] # h
    /\ registering' = registering \cup {h}
    /\ UNCHANGED <<signedIn, conns, link, sendVarsSdk, handlers, turn, called,
                   order, from, calls, receiveVars, frames, since>>

\* receive_message returns the oldest frame of the newest connection.
ReceiveMessage ==
    /\ conns > 0 /\ inbox[conns] # <<>>
    /\ taken' = Append(taken, <<conns, Head(inbox[conns])>>)
    /\ inbox' = [inbox EXCEPT ![conns] = Tail(@)]
    /\ UNCHANGED <<signedIn, conns, link, sendVarsSdk, handlerVars, receiving,
                   hand, arriving, frames, since>>

----------------------------------------------------------------------------
(* The tasks.                                                              *)

\* Slip: a task writes only while its connection is the newest.
BugWritable(c) == sending[c] /\ queued[c] > 0 /\ c = conns

Writable(c) == sending[c] /\ queued[c] > 0

\* The sender task.  A write waits while the peer does not read; one that
\* fails ends the task, with what is queued.
WriteFrame(c) ==
    /\ Writable(c)
    /\ \/ /\ link[c] = "up"
          /\ queued' = [queued EXCEPT ![c] = @ - 1]
          /\ written' = [written EXCEPT ![c] = @ + 1]
          /\ UNCHANGED sending
       \/ /\ link[c] = "down"
          /\ sending' = [sending EXCEPT ![c] = FALSE]
          /\ queued' = [queued EXCEPT ![c] = 0]
          /\ UNCHANGED written
    /\ UNCHANGED <<signedIn, conns, link, accepted, handlerVars, receiveVars,
                   frames, since>>

\* The task of add_*_handler gets the lock and pushes the handler.
PushHandler(h) ==
    LET l == HandledKind[h] IN
    /\ h \in registering /\ turn[l] = 0
    /\ registering' = registering \ {h}
    /\ handlers' = [handlers EXCEPT ![l] = Append(@, h)]
    /\ from' = [from EXCEPT ![h] = Len(order[l])]
    /\ UNCHANGED <<signedIn, conns, link, sendVarsSdk, turn, called, order,
                   calls, receiveVars, frames, since>>

\* A connection that is still the newest hands its frames on; the receiving
\* end of an older one is gone.
Forward(c, f) ==
    inbox' = IF c = conns THEN [inbox EXCEPT ![c] = Append(@, f)] ELSE inbox

\* The receiver task takes a frame.  Typing goes to receive_message, and what
\* is of no known kind is dropped.
ReadFrame(c) ==
    /\ receiving[c] = "read" /\ arriving[c] # <<>>
    /\ LET f == Head(arriving[c]) IN
          /\ arriving' = [arriving EXCEPT ![c] = Tail(@)]
          /\ IF frames[f] \in HandlerLists
               THEN /\ receiving' = [receiving EXCEPT ![c] = "wait"]
                    /\ hand' = [hand EXCEPT ![c] = f]
                    /\ UNCHANGED inbox
               ELSE /\ IF frames[f] = "typing" THEN Forward(c, f)
                                               ELSE UNCHANGED inbox
                    /\ UNCHANGED <<receiving, hand>>
    /\ UNCHANGED <<signedIn, conns, link, sendVarsSdk, handlerVars, taken,
                   frames, since>>

ListOf(c) == frames[hand[c]]

\* Slip: the list is copied and the lock given back before the calls.
BugMayCall(c) == receiving[c] = "wait"

MayCall(c) == receiving[c] = "wait" /\ turn[ListOf(c)] = 0

LockHandlers(c) ==
    /\ MayCall(c)
    /\ LET l == ListOf(c) IN
          /\ turn' = [turn EXCEPT ![l] = c]
          /\ called' = [called EXCEPT ![l] = 0]
          /\ order' = [order EXCEPT ![l] = Append(@, <<c, hand[c]>>)]
    /\ receiving' = [receiving EXCEPT ![c] = "call"]
    /\ UNCHANGED <<signedIn, conns, link, sendVarsSdk, registering, handlers,
                   from, calls, hand, arriving, inbox, taken, frames, since>>

\* The next handler is called, once the one before has returned.
CallHandler(c) ==
    /\ receiving[c] = "call"
    /\ LET l == ListOf(c)
           k == called[l] + 1
       IN  /\ k =< Len(handlers[l])
           /\ called' = [called EXCEPT ![l] = k]
           /\ calls' = [calls EXCEPT ![handlers[l][k]] =
                           Append(@, <<c, hand[c]>>)]
    /\ UNCHANGED <<signedIn, conns, link, sendVarsSdk, registering, handlers,
                   turn, order, from, receiveVars, frames, since>>

\* Slip: a handled message is not handed on.
BugHandedOn(c) == {}

HandedOn(c) == {"message"}

\* The last handler has returned: the lock is given back, and a message is
\* handed on to receive_message first.
EndCalls(c) ==
    /\ receiving[c] = "call"
    /\ called[ListOf(c)] = Len(handlers[ListOf(c)])
    /\ turn' = [turn EXCEPT ![ListOf(c)] = 0]
    /\ receiving' = [receiving EXCEPT ![c] = "read"]
    /\ hand' = [hand EXCEPT ![c] = 0]
    /\ IF ListOf(c) \in HandedOn(c) THEN Forward(c, hand[c])
                                    ELSE UNCHANGED inbox
    /\ UNCHANGED <<signedIn, conns, link, sendVarsSdk, registering, handlers,
                   called, order, from, calls, arriving, taken, frames,
                   since>>

\* A close frame, an error or the end of the stream ends the task.
EndReading(c) ==
    /\ receiving[c] = "read" /\ link[c] = "down"
    /\ receiving' = [receiving EXCEPT ![c] = "ended"]
    /\ arriving' = [arriving EXCEPT ![c] = <<>>]
    /\ UNCHANGED <<signedIn, conns, link, sendVarsSdk, handlerVars, hand,
                   inbox, taken, frames, since>>

----------------------------------------------------------------------------
(* The server and the network.                                             *)

\* A frame for the user, to every connection that is open.
ServerSends(kind) ==
    /\ Len(frames) < MaxFrames
    /\ \E c \in Made : Linked(c)
    /\ frames' = Append(frames, kind)
    /\ arriving' = [c \in Conns |->
          IF Linked(c) THEN Append(arriving[c], Len(frames) + 1)
                       ELSE arriving[c]]
    /\ UNCHANGED <<signedIn, conns, link, sendVarsSdk, handlerVars, receiving,
                   hand, inbox, taken, since>>

LinkTurns(c, state) ==
    /\ link' = [link EXCEPT ![c] = state]
    /\ UNCHANGED <<signedIn, conns, sendVarsSdk, handlerVars, receiveVars,
                   frames, since>>

LinkBreaks(c) == Linked(c) /\ LinkTurns(c, "down")

\* The peer stops reading, which only a frame to be written meets, and reads
\* again.
PeerStalls(c) == link[c] = "up" /\ Writable(c) /\ LinkTurns(c, "stalled")
PeerReads(c) == link[c] = "stalled" /\ LinkTurns(c, "up")

----------------------------------------------------------------------------
SdkNext ==
    \/ SignIn \/ Connect \/ SendUpdate \/ ReceiveMessage
    \/ \E h \in Handlers : AddHandler(h) \/ PushHandler(h)
    \/ \E c \in Conns :
          \/ Beat(c) \/ WriteFrame(c) \/ ReadFrame(c) \/ LockHandlers(c)
          \/ CallHandler(c) \/ EndCalls(c) \/ EndReading(c)
          \/ LinkBreaks(c) \/ PeerStalls(c) \/ PeerReads(c)
    \/ \E kind \in Kinds : ServerSends(kind)

\* The runtime runs a task that is not waiting, so a write to a peer that
\* reads ends; a peer owes no reading and a handler no return.
SdkFairness == \A c \in Conns : WF_sdkVars(WriteFrame(c))

SdkSpec == SdkInit /\ [][SdkNext]_sdkVars /\ SdkFairness

----------------------------------------------------------------------------
Starts(s, t) == Len(s) =< Len(t) /\ s = SubSeq(t, 1, Len(s))

\* All handlers of a kind are called in one order, for frames of several
\* connections too, and none of them misses one that came after it was
\* pushed: only for the last frame may some not have been called yet.
HandlersAgree ==
    \A l \in HandlerLists : \A k \in DOMAIN handlers[l] :
       LET h == handlers[l][k]
           due == SubSeq(order[l], from[h] + 1, Len(order[l]))
       IN  Starts(calls[h], due) /\ Len(due) =< Len(calls[h]) + 1

\* What receive_message returns of one connection begins with the first frame
\* for it that was sent there and leaves none out, however handlers and
\* connections interleave; what a connection had left when the next was made
\* is lost as a whole.
ForApp(i) == frames[i] \in {"message", "typing"}
NoGapInReceived ==
    \A j \in DOMAIN taken :
       LET c == taken[j][1]
           f == taken[j][2]
       IN  /\ \A i \in since[c] + 1 .. f - 1 :
                 ForApp(i) => \E k \in 1 .. j - 1 : taken[k] = <<c, i>>
           /\ \A k \in 1 .. j - 1 : taken[k] # taken[j] /\ taken[k][1] =< c

\* Time and again all that was accepted for a connection has been written,
\* also when the client has replaced it since, unless from time to time it is
\* down or its peer does not read.
QueuedIsWritten ==
    \A c \in Conns : []<>(queued[c] = 0 \/ link[c] # "up")
=============================================================================

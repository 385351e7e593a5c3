------------------------------ MODULE ChatPage ------------------------------
(***************************************************************************)
(* The chat page (chat.html) in one browser.  When it opens it asks for    *)
(* the whole table and for the channel of its inserts; callbacks and       *)
(* continuations of the script run one at a time, and each is one step.    *)
(*                                                                         *)
(* A row is its place in the table, ordered by created_at.  A text is what *)
(* the input held when the user stopped typing, numbered; 0 is no text.    *)
(* The database and its realtime channel are external: a row committed     *)
(* after the page has joined is sent to it, once and in order.             *)
(***************************************************************************)
EXTENDS Naturals, Sequences, FiniteSets

CONSTANTS MaxRows, MaxTexts, MaxSends

VARIABLES
    load,       \* how far loadMessages has come
    joined,     \* the channel is open
    chat,       \* the table: the text of each row, 0 for other people's
    incoming,   \* rows sent to the page and not yet handled
    shown,      \* messagesBox: rows in the order they are shown
    input,      \* msgInput
    canSend,
    cooling,    \* timers of the cooldown that have not fired
    sends,      \* calls of sendMessage that passed its checks
    snapshot,   \* history: rows the select saw
    atJoin,     \* history: rows there when the channel opened
    wiped,      \* history: rows shown when the list was emptied
    during,     \* history: for each text, the sends under way as it was typed
    cleared     \* history: texts taken out of the input by the page

listVars == <<load, joined, shown, snapshot, atJoin, wiped>>
tableVars == <<chat, incoming>>
sendVars == <<input, canSend, cooling, sends, during, cleared>>
pageVars == <<listVars, tableVars, sendVars>>

Rows == 1 .. Len(chat)
Texts == 1 .. Len(during)
Over == {"done", "failed"}
UnderWay == {i \in DOMAIN sends : sends[i].at \notin Over}

PageTypeOK ==
    /\ load \in {"closed", "asked", "answered", "error", "shown", "failed"}
    /\ joined \in BOOLEAN /\ canSend \in BOOLEAN
    /\ chat \in Seq(0 .. Len(during))
    /\ incoming \in Seq(Rows) /\ shown \in Seq(Rows)
    /\ input \in 0 .. Len(during)
    /\ cooling \in 0 .. 1
    /\ \A i \in DOMAIN sends :
          /\ sends[i].text \in Texts
          /\ sends[i].at \in {"user", "profile", "insert", "stored",
                              "refused"} \cup Over
          /\ sends[i].row \in 0 .. Len(chat)
    /\ snapshot \in 0 .. Len(chat) /\ atJoin \in 0 .. Len(chat)
    /\ wiped \subseteq Rows /\ cleared \subseteq Texts

PageInit ==
    /\ load = "closed" /\ joined = FALSE
    /\ chat \in {<<>>, <<0>>} /\ incoming = <<>> /\ shown = <<>>
    /\ input = 0 /\ canSend = TRUE /\ cooling = 0
    /\ sends = <<>> /\ during = <<>> /\ cleared = {}
    /\ snapshot = 0 /\ atJoin = 0 /\ wiped = {}

----------------------------------------------------------------------------
(* The list: the first load beside realtime inserts.                       *)

Open ==
    /\ load = "closed"
    /\ load' = "asked"
    /\ UNCHANGED <<joined, shown, snapshot, atJoin, wiped, tableVars,
                   sendVars>>

\* The server opens the channel that the page subscribed to.
Join ==
    /\ load # "closed" /\ ~joined
    /\ joined' = TRUE
    /\ atJoin' = Len(chat)
    /\ UNCHANGED <<load, shown, snapshot, wiped, tableVars, sendVars>>

\* The database answers the select, or the request fails.
Select ==
    /\ load = "asked"
    /\ \/ load' = "answered" /\ snapshot' = Len(chat)
       \/ load' = "error" /\ UNCHANGED snapshot
    /\ UNCHANGED <<joined, shown, atJoin, wiped, tableVars, sendVars>>

\* Slip: the list is not emptied before the rows are added.
BugLoaded(n) == shown \o [r \in 1 .. n |-> r]

\* What the box holds after the rows have been added to it.
Loaded(n) == [r \in 1 .. n |-> r]

\* The box is emptied before the answer is looked at; without data the loop
\* over it throws.
Render ==
    /\ load \in {"answered", "error"}
    /\ load' = IF load = "answered" THEN "shown" ELSE "failed"
    /\ shown' = IF load = "answered" THEN Loaded(snapshot) ELSE <<>>
    /\ wiped' = {shown[k] : k \in DOMAIN shown}
    /\ UNCHANGED <<joined, snapshot, atJoin, tableVars, sendVars>>

\* The callback of an insert.
OnInsert ==
    /\ incoming # <<>>
    /\ shown' = Append(shown, Head(incoming))
    /\ incoming' = Tail(incoming)
    /\ UNCHANGED <<load, joined, chat, snapshot, atJoin, wiped, sendVars>>

Commit(text) ==
    /\ chat' = Append(chat, text)
    /\ incoming' = IF joined THEN Append(incoming, Len(chat) + 1)
                             ELSE incoming

OthersPost ==
    /\ Len(chat) < MaxRows
    /\ Commit(0)
    /\ UNCHANGED <<listVars, sendVars>>

----------------------------------------------------------------------------
(* sendMessage.                                                            *)

\* The handler of oninput builds two queries that are never sent, since no
\* one awaits them; the input changes, and nothing else does.
Type ==
    /\ Len(during) < MaxTexts
    /\ input' = Len(during) + 1
    /\ during' = Append(during, UnderWay)
    /\ UNCHANGED <<listVars, tableVars, canSend, cooling, sends, cleared>>

Click ==
    /\ load # "closed"
    /\ canSend /\ input # 0 /\ Len(sends) < MaxSends
    /\ canSend' = FALSE
    /\ cooling' = cooling + 1
    /\ sends' = Append(sends, [text |-> input, at |-> "user", row |-> 0,
                               over |-> UnderWay])
    /\ UNCHANGED <<listVars, tableVars, input, during, cleared>>

\* Slip: a timer that repeats.
BugCoolDown ==
    /\ cooling > 0
    /\ canSend' = TRUE
    /\ UNCHANGED <<listVars, tableVars, input, cooling, sends, during,
                   cleared>>

CoolDown ==
    /\ cooling > 0
    /\ cooling' = cooling - 1
    /\ canSend' = TRUE
    /\ UNCHANGED <<listVars, tableVars, input, sends, during, cleared>>

At(i, place) == sends' = [sends EXCEPT ![i].at = place]

\* The user and the profile are fetched; a null in place of one throws.
LookUp(i) ==
    /\ \/ sends[i].at = "user" /\ At(i, "profile")
       \/ sends[i].at = "profile" /\ At(i, "insert")
       \/ sends[i].at \in {"user", "profile"} /\ At(i, "failed")
    /\ UNCHANGED <<listVars, tableVars, input, canSend, cooling, during,
                   cleared>>

\* The database takes the row or refuses it.
Insert(i) ==
    /\ sends[i].at = "insert"
    /\ \/ /\ Len(chat) < MaxRows
          /\ Commit(sends[i].text)
          /\ sends' = [sends EXCEPT ![i].at = "stored",
                                    ![i].row = Len(chat) + 1]
       \/ At(i, "refused") /\ UNCHANGED tableVars
    /\ UNCHANGED <<listVars, input, canSend, cooling, during, cleared>>

\* Slip: the input keeps what was sent.
BugRemaining(i) == input

\* What the input holds after a send.
Remaining(i) == 0

\* The result of the insert is not looked at.  The update of the typing state
\* that follows is never sent.
Finish(i) ==
    /\ sends[i].at \in {"stored", "refused"}
    /\ At(i, "done")
    /\ input' = Remaining(i)
    /\ cleared' = cleared \cup ({input} \ {0, input'})
    /\ UNCHANGED <<listVars, tableVars, canSend, cooling, during>>

----------------------------------------------------------------------------
PageNext ==
    \/ Open \/ Join \/ Select \/ Render \/ OnInsert \/ OthersPost
    \/ Type \/ Click \/ CoolDown
    \/ \E i \in DOMAIN sends : LookUp(i) \/ Insert(i) \/ Finish(i)

PageSpec == PageInit /\ [][PageNext]_pageVars

----------------------------------------------------------------------------
Times(r) == Cardinality({k \in DOMAIN shown : shown[k] = r})

\* Once the list has come and the callbacks have run, every row is shown
\* exactly once, except for rows committed while the list was loading: one
\* the select did not see is missing if it was shown before the list was
\* emptied, or committed before the channel opened; one it saw is shown a
\* second time if its callback ran after the list came.
AnomaliesNeedLoading ==
    (load = "shown" /\ incoming = <<>>) =>
       \A r \in Rows :
          /\ Times(r) = 0 =>
                /\ r > snapshot
                /\ r \in wiped \/ ~joined \/ r =< atJoin
          /\ Times(r) > 1 =>
                /\ r =< snapshot /\ r \notin wiped /\ joined /\ r > atJoin
                /\ Times(r) = 2

\* What the user typed once is stored twice only if the button was pressed
\* again while the first send was under way, for longer than the cooldown;
\* and the page empties the input of a text only after it tried to store it,
\* or at the end of a send that was under way as the text was typed.
TextsAccountedFor ==
    /\ \A i, j \in DOMAIN sends :
          (/\ i < j /\ sends[i].text = sends[j].text
           /\ sends[i].row # 0 /\ sends[j].row # 0) => i \in sends[j].over
    /\ \A t \in cleared : \E i \in DOMAIN sends :
          /\ sends[i].at = "done"
          /\ sends[i].text = t \/ i \in during[t]
=============================================================================

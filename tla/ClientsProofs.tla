--------------------------- MODULE ClientsProofs ---------------------------
(***************************************************************************)
(* Theorems about the chat page and about the client of the SDK, for any   *)
(* handlers, kinds of frames, and bounds; and about a behaviour of one of  *)
(* the parts that the clients' run is made of.                             *)
(***************************************************************************)
EXTENDS MCClients, PlatformProofs, FiniteSetTheorems, SequenceTheorems

LEMMA AppendShape ==
    ASSUME NEW S, NEW q \in Seq(S), NEW x \in S
    PROVE  /\ Append(q, x) \in Seq(S)
           /\ Len(q) \in Nat /\ Len(Append(q, x)) = Len(q) + 1
           /\ DOMAIN q = 1 .. Len(q)
           /\ DOMAIN Append(q, x) = 1 .. Len(q) + 1
           /\ Append(q, x)[Len(q) + 1] = x
           /\ \A k \in 1 .. Len(q) : Append(q, x)[k] = q[k]
OBVIOUS

LEMMA TailShape ==
    ASSUME NEW S, NEW q \in Seq(S), q # <<>>
    PROVE  /\ Head(q) \in S /\ Head(q) = q[1]
           /\ Tail(q) \in Seq(S)
           /\ Len(q) \in Nat \ {0} /\ Len(Tail(q)) = Len(q) - 1
           /\ \A k \in 1 .. Len(q) - 1 : Tail(q)[k] = q[k + 1]
OBVIOUS

LEMMA RangeWider ==
    ASSUME NEW m \in Nat, NEW n \in Nat, m =< n, NEW q \in Seq(1 .. m)
    PROVE  q \in Seq(1 .. n)
<1>1. 1 .. m \subseteq 1 .. n
  OBVIOUS
<1> QED  BY <1>1, SeqMonotonic

----------------------------------------------------------------------------
(* The chat page: types.                                                   *)

Stages == {"user", "profile", "insert", "stored", "refused"} \cup Over
Sends == [text : Nat \ {0}, at : Stages, row : Nat, over : SUBSET Nat]

\* The button is disabled as long as the timer runs.
PageShapes ==
    /\ sends \in Seq(Sends)
    /\ during \in Seq(SUBSET Nat)
    /\ canSend <=> cooling = 0

PageTypeInv == PageTypeOK /\ PageShapes

\* A send goes on to another stage.
LEMMA SendMoves ==
    ASSUME PageTypeInv, NEW i \in DOMAIN sends, NEW place \in Stages,
           At(i, place)
    PROVE  /\ sends' \in Seq(Sends) /\ DOMAIN sends' = DOMAIN sends
           /\ Len(sends') = Len(sends)
           /\ sends'[i].at = place /\ sends'[i].text = sends[i].text
           /\ sends'[i].row = sends[i].row /\ sends'[i].over = sends[i].over
           /\ \A j \in DOMAIN sends \ {i} : sends'[j] = sends[j]
<1>1. sends \in Seq(Sends) /\ i \in 1 .. Len(sends) /\ sends[i] \in Sends
  BY DEF PageTypeInv, PageShapes
<1>2. PICK s \in Sends : s = sends[i]
  BY <1>1
<1>3. PICK n \in Sends : n = [s EXCEPT !.at = place]
  BY DEF Sends
<1>4. /\ n.at = place /\ n.text = s.text /\ n.row = s.row /\ n.over = s.over
  BY <1>3 DEF Sends
<1>5. sends' = [sends EXCEPT ![i] = n]
  BY <1>2, <1>3 DEF At
<1>6. /\ sends' \in Seq(Sends) /\ Len(sends') = Len(sends)
      /\ \A j \in 1 .. Len(sends) : sends'[j] = IF j = i THEN n ELSE sends[j]
  BY <1>1, <1>5, ExceptSeq
<1>7. DOMAIN sends' = 1 .. Len(sends) /\ DOMAIN sends = 1 .. Len(sends)
  BY <1>1, <1>6
<1> QED  BY <1>1, <1>2, <1>4, <1>6, <1>7

LEMMA PageTypeStart == PageInit => PageTypeInv
<1> SUFFICES ASSUME PageInit PROVE PageTypeInv
  OBVIOUS
<1>1. /\ Len(<<>>) = 0 /\ DOMAIN <<>> = {}
      /\ \A S : <<>> \in Seq(S)
  BY EmptySeq
<1>2. chat \in Seq(0 .. 0) /\ Len(chat) \in Nat
  <2>1. <<0>> \in Seq({0}) /\ 0 .. 0 = {0}
    OBVIOUS
  <2>2. chat \in Seq({0})
    BY <1>1, <2>1 DEF PageInit
  <2> QED  BY <2>1, <2>2
<1>3. PageTypeOK
  <2>1. /\ load = "closed" /\ joined = FALSE /\ canSend = TRUE
        /\ cooling = 0 /\ input = 0 /\ snapshot = 0 /\ atJoin = 0
        /\ wiped = {} /\ cleared = {}
        /\ DOMAIN sends = {} /\ Len(during) = 0
        /\ incoming \in Seq(Rows) /\ shown \in Seq(Rows)
    BY <1>1 DEF PageInit
  <2>2. 0 \in 0 .. Len(chat) /\ 0 \in 0 .. Len(during)
        /\ chat \in Seq(0 .. Len(during))
    BY <1>2, <2>1
  <2>3. /\ load \in {"closed", "asked", "answered", "error", "shown",
                     "failed"}
        /\ joined \in BOOLEAN /\ canSend \in BOOLEAN
    BY <2>1, Zenon
  <2>4. cooling \in 0 .. 1
    BY <2>1
  <2> QED  BY <2>1, <2>2, <2>3, <2>4 DEF PageTypeOK
<1>4. PageShapes
  BY <1>1 DEF PageInit, PageShapes
<1> QED  BY <1>3, <1>4 DEF PageTypeInv

LEMMA PageNumbers ==
    PageTypeInv => /\ Len(chat) \in Nat /\ Len(during) \in Nat
                   /\ Len(sends) \in Nat /\ Len(shown) \in Nat
                   /\ Len(incoming) \in Nat
                   /\ snapshot \in Nat /\ atJoin \in Nat
                   /\ snapshot =< Len(chat) /\ atJoin =< Len(chat)
                   /\ DOMAIN sends = 1 .. Len(sends)
                   /\ DOMAIN shown = 1 .. Len(shown)
<1> SUFFICES ASSUME PageTypeInv
             PROVE  /\ Len(chat) \in Nat /\ Len(during) \in Nat
                    /\ Len(sends) \in Nat /\ Len(shown) \in Nat
                    /\ Len(incoming) \in Nat
                    /\ snapshot \in Nat /\ atJoin \in Nat
                    /\ snapshot =< Len(chat) /\ atJoin =< Len(chat)
                    /\ DOMAIN sends = 1 .. Len(sends)
                    /\ DOMAIN shown = 1 .. Len(shown)
  OBVIOUS
<1>1. /\ chat \in Seq(0 .. Len(during)) /\ during \in Seq(SUBSET Nat)
      /\ sends \in Seq(Sends) /\ shown \in Seq(Rows) /\ incoming \in Seq(Rows)
      /\ snapshot \in 0 .. Len(chat) /\ atJoin \in 0 .. Len(chat)
  BY DEF PageTypeInv, PageTypeOK, PageShapes
<1>2. Len(chat) \in Nat /\ Len(during) \in Nat
  BY <1>1
<1> QED  BY <1>1, <1>2

\* The steps of the list.
LEMMA ListType ==
    ASSUME PageTypeInv, Open \/ Join \/ Select \/ Render \/ OnInsert
    PROVE  PageTypeInv'
<1>0. UNCHANGED <<chat, sendVars>> /\ snapshot \in 0 .. Len(chat)
      /\ shown \in Seq(Rows) /\ incoming \in Seq(Rows)
      /\ Len(chat) \in 0 .. Len(chat)
  BY PageNumbers
     DEF Open, Join, Select, Render, OnInsert, tableVars, PageTypeInv,
         PageTypeOK
<1>1. shown' \in Seq(Rows)
  <2>1. Loaded(snapshot) \in Seq(Rows)
    <3>1. [r \in 1 .. snapshot |-> r] \in Seq(1 .. snapshot)
      BY PageNumbers
    <3>2. Loaded(snapshot) \in Seq(1 .. snapshot)
      BY <3>1 DEF Loaded
    <3> QED  BY <3>2, PageNumbers, RangeWider DEF Rows
  <2>2. CASE OnInsert
    <3>1. incoming # <<>> /\ shown' = Append(shown, Head(incoming))
      BY <2>2 DEF OnInsert
    <3>2. Head(incoming) \in Rows
      BY <1>0, <3>1, TailShape
    <3> QED  BY <1>0, <3>1, <3>2, AppendShape
  <2>3. CASE Render
    <3>1. <<>> \in Seq(Rows)
      BY EmptySeq
    <3> QED  BY <2>1, <2>3, <3>1 DEF Render
  <2>4. CASE Open \/ Join \/ Select
    BY <1>0, <2>4 DEF Open, Join, Select
  <2> QED  BY <2>2, <2>3, <2>4
<1>2. incoming' \in Seq(Rows)
  BY <1>0, TailShape DEF Open, Join, Select, Render, OnInsert, tableVars
<1>3. wiped' \subseteq Rows
  <2>1. {shown[k] : k \in DOMAIN shown} \subseteq Rows
    BY <1>0
  <2> QED
    BY <2>1 DEF Open, Join, Select, Render, OnInsert, PageTypeInv, PageTypeOK
<1>4. /\ load' \in {"closed", "asked", "answered", "error", "shown", "failed"}
      /\ joined' \in BOOLEAN
      /\ snapshot' \in 0 .. Len(chat) /\ atJoin' \in 0 .. Len(chat)
  BY <1>0 DEF Open, Join, Select, Render, OnInsert, PageTypeInv, PageTypeOK
<1> QED
  BY <1>0, <1>1, <1>2, <1>3, <1>4
     DEF PageTypeInv, PageTypeOK, PageShapes, Rows, Texts, sendVars

\* A row more in the table.
LEMMA CommitType ==
    ASSUME PageTypeInv, NEW text \in 0 .. Len(during), Commit(text)
    PROVE  /\ Len(chat') = Len(chat) + 1
           /\ chat' \in Seq(0 .. Len(during))
           /\ incoming' \in Seq(Rows') /\ shown \in Seq(Rows')
           /\ Rows \subseteq Rows'
<1>1. chat \in Seq(0 .. Len(during)) /\ chat' = Append(chat, text)
  BY DEF PageTypeInv, PageTypeOK, Commit
<1>2. /\ Len(chat') = Len(chat) + 1 /\ chat' \in Seq(0 .. Len(during))
  BY <1>1, AppendShape
<1>3. incoming \in Seq(Rows') /\ shown \in Seq(Rows') /\ Rows \subseteq Rows'
      /\ Len(chat) + 1 \in Rows'
  BY <1>2, PageNumbers, RangeWider DEF Rows, PageTypeInv, PageTypeOK
<1>4. incoming' = IF joined THEN Append(incoming, Len(chat) + 1) ELSE incoming
  BY DEF Commit
<1> QED  BY <1>2, <1>3, <1>4, AppendShape

LEMMA OthersType == PageTypeInv /\ OthersPost => PageTypeInv'
<1> SUFFICES ASSUME PageTypeInv, OthersPost PROVE PageTypeInv'
  OBVIOUS
<1>1. Commit(0) /\ UNCHANGED <<listVars, sendVars>> /\ 0 \in 0 .. Len(during)
  BY PageNumbers DEF OthersPost
<1>2. /\ Len(chat') = Len(chat) + 1
      /\ chat' \in Seq(0 .. Len(during))
      /\ incoming' \in Seq(Rows') /\ shown \in Seq(Rows')
      /\ Rows \subseteq Rows'
  BY <1>1, CommitType
<1>3. 0 .. Len(chat) \subseteq 0 .. Len(chat')
  BY <1>2, PageNumbers
<1>4. \A i \in DOMAIN sends : sends[i].row \in 0 .. Len(chat')
  BY <1>3 DEF PageTypeInv, PageTypeOK
<1> QED
  BY <1>1, <1>2, <1>3, <1>4
     DEF PageTypeInv, PageTypeOK, PageShapes, Texts, listVars, sendVars

\* What the user does, and the timer.
LEMMA UserType ==
    ASSUME PageTypeInv, Type \/ Click \/ CoolDown
    PROVE  PageTypeInv'
<1>1. CASE Type
  <2>1. UnderWay \in SUBSET Nat
    BY PageNumbers DEF UnderWay
  <2>2. /\ during' \in Seq(SUBSET Nat) /\ Len(during') = Len(during) + 1
        /\ input' = Len(during) + 1
    BY <1>1, <2>1, AppendShape DEF Type, PageTypeInv, PageShapes
  <2>3. /\ 0 .. Len(during) \subseteq 0 .. Len(during')
        /\ 1 .. Len(during) \subseteq 1 .. Len(during')
        /\ input' \in 0 .. Len(during')
    BY <2>2, PageNumbers
  <2>4. chat \in Seq(0 .. Len(during'))
    BY <2>3, SeqMonotonic DEF PageTypeInv, PageTypeOK
  <2>5. UNCHANGED <<listVars, tableVars, canSend, cooling, sends, cleared>>
    BY <1>1 DEF Type
  <2>6. /\ cleared \subseteq 1 .. Len(during')
        /\ \A i \in DOMAIN sends :
              /\ sends[i].text \in 1 .. Len(during')
              /\ sends[i].at \in {"user", "profile", "insert", "stored",
                                  "refused"} \cup Over
              /\ sends[i].row \in 0 .. Len(chat)
    BY <2>3 DEF PageTypeInv, PageTypeOK, Texts
  <2> QED
    BY <2>2, <2>3, <2>4, <2>5, <2>6
       DEF PageTypeInv, PageTypeOK, PageShapes, Rows, Texts, listVars,
           tableVars
<1>2. CASE Click
  <2>1. /\ UNCHANGED <<listVars, tableVars, input, during, cleared>>
        /\ canSend' = FALSE /\ cooling = 0 /\ cooling' = 1
        /\ input \in Texts
    BY <1>2, PageNumbers
       DEF Click, PageTypeInv, PageTypeOK, PageShapes, Texts
  <2>2. PICK new \in Sends :
           new = [text |-> input, at |-> "user", row |-> 0, over |-> UnderWay]
    <3>1. input \in Nat \ {0} /\ UnderWay \in SUBSET Nat
      BY <2>1, PageNumbers DEF Texts, UnderWay
    <3>2. "user" \in Stages
      BY DEF Stages
    <3> QED  BY <3>1, <3>2 DEF Sends
  <2>3. new.text = input /\ new.at = "user" /\ new.row = 0
    BY <2>2
  <2>4. sends' = Append(sends, new) /\ sends \in Seq(Sends)
    BY <1>2, <2>2 DEF Click, PageTypeInv, PageShapes
  <2>5. /\ sends' \in Seq(Sends)
        /\ \A i \in DOMAIN sends' :
              \/ i \in DOMAIN sends /\ sends'[i] = sends[i]
              \/ sends'[i] = new
    BY <2>4, AppendShape
  <2>6. \A i \in DOMAIN sends' :
          /\ sends'[i].text \in Texts
          /\ sends'[i].at \in {"user", "profile", "insert", "stored",
                               "refused"} \cup Over
          /\ sends'[i].row \in 0 .. Len(chat)
    BY SMTT(30), <2>1, <2>3, <2>5, PageNumbers DEF PageTypeInv, PageTypeOK
  <2>7. cooling' \in 0 .. 1
    BY <2>1
  <2>9. canSend' \in BOOLEAN
    BY <2>1, Zenon
  <2>8. PageShapes'
    BY <2>1, <2>5 DEF PageTypeInv, PageShapes
  <2> QED
    BY <2>1, <2>6, <2>7, <2>8, <2>9
       DEF PageTypeInv, PageTypeOK, Rows, Texts, listVars,
           tableVars
<1>3. CASE CoolDown
  <2>1. /\ UNCHANGED <<listVars, tableVars, input, sends, during, cleared>>
        /\ canSend' = TRUE /\ cooling' = 0
    BY <1>3 DEF CoolDown, PageTypeInv, PageTypeOK
  <2> QED
    BY <2>1
       DEF PageTypeInv, PageTypeOK, PageShapes, Rows, Texts, listVars,
           tableVars
<1> QED  BY <1>1, <1>2, <1>3

\* The steps of a send.
LEMMA SendType ==
    ASSUME PageTypeInv, NEW i \in DOMAIN sends,
           LookUp(i) \/ Insert(i) \/ Finish(i)
    PROVE  PageTypeInv'
<1>0. /\ sends[i].text \in Texts /\ input \in 0 .. Len(during)
      /\ cleared \subseteq Texts
      /\ \A j \in DOMAIN sends :
            /\ sends[j].text \in Texts
            /\ sends[j].at \in {"user", "profile", "insert", "stored",
                                "refused"} \cup Over
            /\ sends[j].row \in 0 .. Len(chat)
  BY DEF PageTypeInv, PageTypeOK
<1>1. ASSUME NEW place \in Stages, At(i, place)
      PROVE  /\ sends' \in Seq(Sends)
             /\ \A j \in DOMAIN sends' :
                   /\ sends'[j].text \in Texts
                   /\ sends'[j].at \in {"user", "profile", "insert", "stored",
                                        "refused"} \cup Over
                   /\ sends'[j].row \in 0 .. Len(chat)
  BY <1>0, <1>1, SendMoves DEF Stages
<1>2. {"profile", "insert", "failed", "refused", "done", "stored"}
         \subseteq Stages
  BY DEF Stages, Over
<1>3. CASE LookUp(i)
  <2>1. At(i, "profile") \/ At(i, "insert") \/ At(i, "failed")
    BY <1>3 DEF LookUp
  <2>2. UNCHANGED <<listVars, tableVars, input, canSend, cooling, during,
                    cleared>>
    BY <1>3 DEF LookUp
  <2> QED
    BY <1>1, <1>2, <2>1, <2>2
       DEF PageTypeInv, PageTypeOK, PageShapes, Rows, Texts, listVars,
           tableVars
<1>4. CASE Finish(i)
  <2>0. /\ At(i, "done") /\ input' = 0
        /\ cleared' = cleared \cup ({input} \ {0, input'})
    BY <1>4 DEF Finish, Remaining
  <2>a. cleared \subseteq Texts /\ input \in 0 .. Len(during)
    BY <1>0
  <2>b. input # 0 => input \in Texts
    BY <2>a, PageNumbers DEF Texts
  <2>1. At(i, "done") /\ input' = 0
        /\ cleared' \subseteq Texts
    BY <2>0, <2>a, <2>b
  <2>2. UNCHANGED <<listVars, tableVars, canSend, cooling, during>>
        /\ 0 \in 0 .. Len(during)
    BY <1>4, PageNumbers DEF Finish
  <2> QED
    BY <1>1, <1>2, <2>1, <2>2
       DEF PageTypeInv, PageTypeOK, PageShapes, Rows, Texts, listVars,
           tableVars
<1>5. ASSUME Insert(i), At(i, "refused"), UNCHANGED tableVars
      PROVE  PageTypeInv'
  <2>1. UNCHANGED <<listVars, input, canSend, cooling, during, cleared>>
    BY <1>5 DEF Insert
  <2> QED
    BY <1>1, <1>2, <1>5, <2>1
       DEF PageTypeInv, PageTypeOK, PageShapes, Rows, Texts, listVars,
           tableVars
<1>6. ASSUME Insert(i), Commit(sends[i].text),
             sends' = [sends EXCEPT ![i].at = "stored",
                                    ![i].row = Len(chat) + 1]
      PROVE  PageTypeInv'
  <2>1. UNCHANGED <<listVars, input, canSend, cooling, during, cleared>>
    BY <1>6 DEF Insert
  <2>2. sends[i].text \in 0 .. Len(during)
    BY <1>0, PageNumbers DEF Texts
  <2>3. /\ Len(chat') = Len(chat) + 1
        /\ chat' \in Seq(0 .. Len(during))
        /\ incoming' \in Seq(Rows') /\ shown \in Seq(Rows')
        /\ Rows \subseteq Rows'
    BY <1>6, <2>2, CommitType
  <2>4. /\ 0 .. Len(chat) \subseteq 0 .. Len(chat')
        /\ Len(chat) + 1 \in 0 .. Len(chat')
    BY <2>3, PageNumbers
  <2>5. sends \in Seq(Sends) /\ i \in 1 .. Len(sends) /\ sends[i] \in Sends
    BY DEF PageTypeInv, PageShapes
  <2>6. PICK s \in Sends : s = sends[i]
    BY <2>5
  <2>7. PICK n \in Sends :
           n = [s EXCEPT !.at = "stored", !.row = Len(chat) + 1]
    <3>1. "stored" \in Stages /\ Len(chat) + 1 \in Nat
      BY <1>2, PageNumbers
    <3> QED  BY <3>1 DEF Sends
  <2>8. n.at = "stored" /\ n.text = s.text /\ n.row = Len(chat) + 1
    BY <2>7 DEF Sends
  <2>9. sends' = [sends EXCEPT ![i] = n]
    BY <1>6, <2>5, <2>6, <2>7
  <2>10. /\ sends' \in Seq(Sends)
         /\ \A j \in DOMAIN sends' :
              j \in DOMAIN sends /\ sends'[j] = IF j = i THEN n ELSE sends[j]
    BY <2>5, <2>9, ExceptSeq
  <2>11. \A j \in DOMAIN sends' :
            /\ sends'[j].text \in Texts
            /\ sends'[j].at \in {"user", "profile", "insert", "stored",
                                 "refused"} \cup Over
            /\ sends'[j].row \in 0 .. Len(chat')
    BY <1>0, <2>4, <2>6, <2>8, <2>10
  <2> QED
    BY <2>1, <2>3, <2>4, <2>10, <2>11
       DEF PageTypeInv, PageTypeOK, PageShapes, Texts, listVars
<1> QED  BY <1>3, <1>4, <1>5, <1>6 DEF Insert

LEMMA PageTypeStep == PageTypeInv /\ [PageNext]_pageVars => PageTypeInv'
<1> SUFFICES ASSUME PageTypeInv, [PageNext]_pageVars PROVE PageTypeInv'
  OBVIOUS
<1>1. CASE UNCHANGED pageVars
  BY <1>1
     DEF PageTypeInv, PageTypeOK, PageShapes, Rows, Texts, pageVars, listVars,
         tableVars, sendVars
<1>2. CASE PageNext
  BY <1>2, ListType, OthersType, UserType, SendType DEF PageNext
<1> QED  BY <1>1, <1>2

\* Every variable of the page keeps the values that its declaration names.
THEOREM PageTypeCorrect == PageSpec => []PageTypeOK
BY PageTypeStart, PageTypeStep, PTL DEF PageSpec, PageTypeInv

LEMMA PageTyped == PageSpec => []PageTypeInv
BY PageTypeStart, PageTypeStep, PTL DEF PageSpec

----------------------------------------------------------------------------
(* The chat page: what becomes of a text.                                  *)

\* The shape of a step of send i, but for what it does to the table.
Same(i) ==
    /\ UNCHANGED during /\ DOMAIN sends' = DOMAIN sends
    /\ sends'[i].text = sends[i].text /\ sends'[i].over = sends[i].over
    /\ \A j \in DOMAIN sends \ {i} : sends'[j] = sends[j]

Working(i) ==
    /\ Same(i) /\ UNCHANGED <<input, cleared>>
    /\ sends[i].at \in {"user", "profile", "insert"}
    /\ \/ /\ sends'[i].at \in {"profile", "insert", "failed", "refused"}
          /\ sends'[i].row = sends[i].row
       \/ sends'[i].at = "stored"

Ending(i) ==
    /\ Same(i)
    /\ sends[i].at \in {"stored", "refused"} /\ sends'[i].at = "done"
    /\ sends'[i].row = sends[i].row
    /\ input' = 0 /\ cleared' = cleared \cup ({input} \ {0})

Pressing ==
    /\ input # 0 /\ UNCHANGED <<input, during, cleared>>
    /\ DOMAIN sends' = 1 .. Len(sends) + 1
    /\ \A i \in DOMAIN sends : sends'[i] = sends[i]
    /\ sends'[Len(sends) + 1].text = input
    /\ sends'[Len(sends) + 1].at = "user"
    /\ sends'[Len(sends) + 1].row = 0
    /\ sends'[Len(sends) + 1].over = UnderWay

Typing ==
    /\ UNCHANGED <<sends, cleared>>
    /\ Len(during') = Len(during) + 1 /\ input' = Len(during) + 1
    /\ during'[Len(during) + 1] = UnderWay
    /\ \A t \in Texts : during'[t] = during[t]

LEMMA SendShapes ==
    ASSUME PageTypeInv, [PageNext]_pageVars
    PROVE  \/ UNCHANGED <<sends, during, input, cleared>>
           \/ Typing \/ Pressing
           \/ \E i \in DOMAIN sends : Working(i) \/ Ending(i)
<1>1. CASE Type
  <2>1. during \in Seq(SUBSET Nat) /\ UnderWay \in SUBSET Nat
    BY PageNumbers DEF PageTypeInv, PageShapes, UnderWay
  <2> QED  BY <1>1, <2>1, AppendShape DEF Type, Typing, Texts
<1>2. CASE Click
  <2>1. PICK new \in Sends :
           new = [text |-> input, at |-> "user", row |-> 0, over |-> UnderWay]
    <3>1. input \in Nat \ {0} /\ UnderWay \in SUBSET Nat
      BY <1>2, PageNumbers
         DEF Click, UnderWay, PageTypeInv, PageTypeOK
    <3>2. "user" \in Stages
      BY DEF Stages
    <3> QED  BY <3>1, <3>2 DEF Sends
  <2>2. new.text = input /\ new.at = "user" /\ new.row = 0
        /\ new.over = UnderWay
    BY <2>1
  <2>3. sends' = Append(sends, new) /\ sends \in Seq(Sends) /\ input # 0
        /\ UNCHANGED <<input, during, cleared>>
    BY <1>2, <2>1 DEF Click, PageTypeInv, PageShapes
  <2> QED  BY <2>2, <2>3, AppendShape DEF Pressing
<1>3. ASSUME NEW i \in DOMAIN sends, LookUp(i) \/ Insert(i)
      PROVE  Working(i)
  <2>1. UNCHANGED <<during, input, cleared>>
        /\ sends[i].at \in {"user", "profile", "insert"}
    BY <1>3 DEF LookUp, Insert
  <2>2. ASSUME NEW place \in {"profile", "insert", "failed", "refused"},
               At(i, place)
        PROVE  Working(i)
    <3>1. place \in Stages
      BY DEF Stages, Over
    <3> QED  BY <2>1, <2>2, <3>1, SendMoves DEF Working, Same
  <2>3. ASSUME sends' = [sends EXCEPT ![i].at = "stored",
                                      ![i].row = Len(chat) + 1]
        PROVE  Working(i)
    <3>1. sends \in Seq(Sends) /\ i \in 1 .. Len(sends) /\ sends[i] \in Sends
      BY DEF PageTypeInv, PageShapes
    <3>2. PICK s \in Sends : s = sends[i]
      BY <3>1
    <3>3. PICK n \in Sends :
             n = [s EXCEPT !.at = "stored", !.row = Len(chat) + 1]
      <4>1. "stored" \in Stages /\ Len(chat) + 1 \in Nat
        BY PageNumbers DEF Stages
      <4> QED  BY <4>1 DEF Sends
    <3>4. n.at = "stored" /\ n.text = s.text /\ n.over = s.over
      BY <3>3 DEF Sends
    <3>5. sends' = [sends EXCEPT ![i] = n]
      BY <2>3, <3>1, <3>2, <3>3
    <3>6. /\ DOMAIN sends' = DOMAIN sends
          /\ \A j \in DOMAIN sends :
                sends'[j] = IF j = i THEN n ELSE sends[j]
      BY <3>1, <3>5, ExceptSeq
    <3> QED  BY <2>1, <3>2, <3>4, <3>6 DEF Working, Same
  <2> QED  BY <1>3, <2>2, <2>3 DEF LookUp, Insert
<1>4. ASSUME NEW i \in DOMAIN sends, Finish(i)
      PROVE  Ending(i)
  <2>1. At(i, "done") /\ "done" \in Stages /\ UNCHANGED during
        /\ input' = 0 /\ cleared' = cleared \cup ({input} \ {0})
        /\ sends[i].at \in {"stored", "refused"}
    BY <1>4 DEF Finish, Remaining, Stages, Over
  <2> QED  BY <2>1, SendMoves DEF Ending, Same
<1>5. \/ UNCHANGED <<sends, during, input, cleared>>
      \/ Type \/ Click
      \/ \E i \in DOMAIN sends : LookUp(i) \/ Insert(i) \/ Finish(i)
  BY DEF PageNext, Open, Join, Select, Render, OnInsert, OthersPost, CoolDown,
         sendVars, pageVars
<1> QED  BY <1>1, <1>2, <1>3, <1>4, <1>5

\* The input holds the newest text or none, and none that a send has ended
\* with.
InputNewest ==
    /\ input \in {0, Len(during)}
    /\ \A i \in DOMAIN sends : sends[i].at = "done" => input # sends[i].text

\* A row is what an insert left.
StoredRows ==
    \A i \in DOMAIN sends :
       sends[i].row # 0 => sends[i].at \in {"stored", "done"}

\* A text is sent again while it is being sent, or after a send that failed.
PressedAgain ==
    \A i, j \in DOMAIN sends :
       (i < j /\ sends[i].text = sends[j].text)
          => i \in sends[j].over \/ sends[i].at = "failed"

\* What is in the input and another text than that of a send under way was
\* typed during the send.
TypedDuring ==
    \A i \in UnderWay :
       (input # 0 /\ input # sends[i].text) => i \in during[input]

\* What the page took out of the input, a send has ended that the text was of
\* or was typed during.
ClearedByDone ==
    \A t \in cleared : \E i \in DOMAIN sends :
       sends[i].at = "done" /\ (sends[i].text = t \/ i \in during[t])

TextInv ==
    /\ InputNewest /\ StoredRows /\ PressedAgain /\ TypedDuring
    /\ ClearedByDone

LEMMA TextStart == PageInit => TextInv
<1> SUFFICES ASSUME PageInit PROVE TextInv
  OBVIOUS
<1>1. DOMAIN sends = {} /\ cleared = {} /\ input = 0
  BY EmptySeq DEF PageInit
<1> QED
  BY <1>1 DEF TextInv, InputNewest, StoredRows, PressedAgain, TypedDuring,
              ClearedByDone, UnderWay

LEMMA TextStep ==
    ASSUME PageTypeInv, TextInv, [PageNext]_pageVars
    PROVE  TextInv'
<1>0. /\ InputNewest /\ StoredRows /\ PressedAgain /\ TypedDuring
      /\ ClearedByDone
  BY DEF TextInv
<1>t. /\ \A i \in DOMAIN sends : sends[i].text \in Texts
      /\ cleared \subseteq Texts /\ Len(during) \in Nat
      /\ DOMAIN sends = 1 .. Len(sends) /\ Len(sends) \in Nat
      /\ \A t \in Texts : t =< Len(during) /\ t \in Nat \ {0}
  BY PageNumbers DEF PageTypeInv, PageTypeOK, Texts
<1>1. CASE UNCHANGED <<sends, during, input, cleared>>
  BY <1>0, <1>1
     DEF TextInv, InputNewest, StoredRows, PressedAgain, TypedDuring,
         ClearedByDone, UnderWay
<1>2. CASE Typing
  <2>1. InputNewest'
    BY <1>t, <1>2 DEF InputNewest, Typing
  <2>2. StoredRows' /\ PressedAgain'
    BY <1>0, <1>2 DEF StoredRows, PressedAgain, Typing
  <2>3. TypedDuring'
    BY <1>2 DEF TypedDuring, Typing, UnderWay
  <2>4. ClearedByDone'
    BY <1>0, <1>t, <1>2 DEF ClearedByDone, Typing
  <2> QED  BY <2>1, <2>2, <2>3, <2>4 DEF TextInv
<1>3. CASE Pressing
  <2> DEFINE n == Len(sends) + 1
  <2>0. /\ n \in DOMAIN sends' /\ n \notin DOMAIN sends
        /\ \A i \in DOMAIN sends' : i \in DOMAIN sends \/ i = n
        /\ \A i \in DOMAIN sends : /\ i \in DOMAIN sends' /\ i < n
                                   /\ sends'[i] = sends[i]
        /\ sends'[n].text = input /\ sends'[n].at = "user"
        /\ sends'[n].row = 0 /\ sends'[n].over = UnderWay
        /\ input # 0 /\ UNCHANGED <<input, during, cleared>>
    BY <1>t, <1>3 DEF Pressing
  <2>n. n \in Nat /\ \A i \in DOMAIN sends : i \in Nat
    BY <1>t
  <2> HIDE DEF n
  <2>1. InputNewest'
    BY <1>0, <2>0 DEF InputNewest
  <2>2. StoredRows'
    BY <1>0, <2>0 DEF StoredRows
  <2>3. ASSUME NEW i \in DOMAIN sends', NEW j \in DOMAIN sends',
               i < j, sends'[i].text = sends'[j].text
        PROVE  i \in sends'[j].over \/ sends'[i].at = "failed"
    <3>1. i \in DOMAIN sends
      BY <2>0, <2>n, <2>3
    <3>2. CASE j \in DOMAIN sends
      BY <1>0, <2>0, <2>3, <3>1, <3>2 DEF PressedAgain
    <3>3. CASE j = n
      <4>1. sends[i].text = input
        BY <2>0, <2>3, <3>1, <3>3
      <4>2. sends[i].at # "done"
        BY <1>0, <3>1, <4>1 DEF InputNewest
      <4>3. i \in UnderWay \/ sends[i].at = "failed"
        BY <3>1, <4>2 DEF UnderWay, Over
      <4> QED  BY <2>0, <3>1, <3>3, <4>3
    <3> QED  BY <2>0, <3>2, <3>3
  <2>4. TypedDuring'
    <3> SUFFICES ASSUME NEW i \in UnderWay', input # 0,
                        input # sends'[i].text
                 PROVE  i \in during[input]
      BY <2>0 DEF TypedDuring
    <3>1. i \in DOMAIN sends' /\ sends'[i].at \notin Over
      BY DEF UnderWay
    <3>2. i \in DOMAIN sends /\ i \in UnderWay /\ input # sends[i].text
      BY <2>0, <3>1 DEF UnderWay
    <3> QED  BY <1>0, <3>2 DEF TypedDuring
  <2>5. ClearedByDone'
    BY <1>0, <2>0 DEF ClearedByDone
  <2> QED  BY <2>1, <2>2, <2>3, <2>4, <2>5 DEF TextInv, PressedAgain
<1>4. ASSUME NEW i \in DOMAIN sends, Working(i)
      PROVE  TextInv'
  <2>0. /\ UNCHANGED <<input, cleared, during>>
        /\ DOMAIN sends' = DOMAIN sends
        /\ \A j \in DOMAIN sends : /\ sends'[j].text = sends[j].text
                                   /\ sends'[j].over = sends[j].over
                                   /\ j # i => sends'[j] = sends[j]
        /\ sends[i].at \notin Over /\ sends'[i].at # "done"
        /\ sends[i].at \notin {"stored", "done"}
        /\ sends'[i].at # "stored" => sends'[i].row = sends[i].row
    BY <1>4 DEF Working, Same, Over
  <2>1. InputNewest'
    BY <1>0, <2>0 DEF InputNewest
  <2>2. StoredRows'
    BY <1>0, <2>0 DEF StoredRows
  <2>3. PressedAgain'
    BY <1>0, <2>0 DEF PressedAgain, Over
  <2>4. TypedDuring'
    BY <1>0, <2>0 DEF TypedDuring, UnderWay
  <2>5. ClearedByDone'
    BY <1>0, <2>0 DEF ClearedByDone, Over
  <2> QED  BY <2>1, <2>2, <2>3, <2>4, <2>5 DEF TextInv
<1>5. ASSUME NEW i \in DOMAIN sends, Ending(i)
      PROVE  TextInv'
  <2>0. /\ UNCHANGED during /\ input' = 0
        /\ cleared' = cleared \cup ({input} \ {0})
        /\ DOMAIN sends' = DOMAIN sends
        /\ \A j \in DOMAIN sends : /\ sends'[j].text = sends[j].text
                                   /\ sends'[j].over = sends[j].over
                                   /\ j # i => sends'[j] = sends[j]
        /\ sends[i].at \in {"stored", "refused"} /\ sends'[i].at = "done"
        /\ sends'[i].row = sends[i].row
    BY <1>5 DEF Ending, Same
  <2>1. InputNewest'
    BY <1>t, <2>0 DEF InputNewest
  <2>2. StoredRows'
    BY <1>0, <2>0 DEF StoredRows
  <2>3. PressedAgain'
    BY <1>0, <2>0 DEF PressedAgain
  <2>4. TypedDuring'
    BY <2>0 DEF TypedDuring
  <2>5. ASSUME NEW t \in cleared'
        PROVE  \E j \in DOMAIN sends' :
                  sends'[j].at = "done"
                  /\ (sends'[j].text = t \/ j \in during'[t])
    <3>1. CASE t \in cleared
      <4>1. PICK j \in DOMAIN sends :
               sends[j].at = "done" /\ (sends[j].text = t \/ j \in during[t])
        BY <1>0, <3>1 DEF ClearedByDone
      <4> QED  BY <2>0, <4>1
    <3>2. CASE t = input /\ input # 0
      <4>1. i \in UnderWay
        BY <2>0 DEF UnderWay, Over
      <4>2. sends[i].text = t \/ i \in during[t]
        BY <1>0, <3>2, <4>1 DEF TypedDuring
      <4> QED  BY <2>0, <4>2
    <3> QED  BY <2>0, <2>5, <3>1, <3>2
  <2> QED  BY <2>1, <2>2, <2>3, <2>4, <2>5 DEF TextInv, ClearedByDone
<1> QED  BY <1>1, <1>2, <1>3, <1>4, <1>5, SendShapes

\* A text is stored twice only if the button was pressed again during the first
\* send; and no text is taken out of the input but at the end of a send that it
\* was sent by or typed during.
THEOREM TextsKept == PageSpec => []TextsAccountedFor
<1>1. TextInv => TextsAccountedFor
  BY DEF TextInv, StoredRows, PressedAgain, ClearedByDone, TextsAccountedFor
<1> QED  BY <1>1, TextStart, TextStep, PageTyped, PTL DEF PageSpec

----------------------------------------------------------------------------
(* The chat page: what the list shows.                                     *)

\* The list begins with the n rows that were loaded; the rows that came over
\* the channel follow, in the order of the table and without a gap: m of them
\* were shown before and wiped, then those shown, then those to come.
Listed(n, m) ==
    /\ wiped = atJoin + 1 .. atJoin + m
    /\ n =< Len(shown)
    /\ \A k \in 1 .. n : shown[k] = k
    /\ \A k \in n + 1 .. Len(shown) : shown[k] = atJoin + m + k - n
    /\ \A k \in 1 .. Len(incoming) :
          incoming[k] = atJoin + m + Len(shown) - n + k
    /\ joined => atJoin + m + Len(shown) - n + Len(incoming) = Len(chat)
    /\ ~joined => m = 0 /\ Len(incoming) = 0 /\ Len(shown) = n

Loading == {"closed", "asked", "answered", "error"}

ListInv ==
    /\ load \in Loading => Listed(0, 0)
    /\ load = "shown" => \E m \in Nat : Listed(snapshot, m)

LEMMA ListStart == PageInit => ListInv
<1> SUFFICES ASSUME PageInit PROVE ListInv
  OBVIOUS
<1>1. /\ load = "closed" /\ Len(shown) = 0 /\ Len(incoming) = 0
      /\ wiped = {} /\ atJoin = 0 /\ joined = FALSE
  BY EmptySeq DEF PageInit
<1> QED  BY <1>1 DEF ListInv, Listed, Loading

\* What keeps the order of the list, as long as it is not emptied.
LEMMA ListedKept ==
    ASSUME PageTypeInv, NEW n \in Nat, NEW m \in Nat, Listed(n, m),
           UNCHANGED wiped,
           \/ UNCHANGED <<joined, chat, incoming, shown, atJoin>>
           \/ Join \/ OnInsert
           \/ /\ \E text \in 0 .. Len(during) : Commit(text)
              /\ UNCHANGED <<joined, shown, atJoin>>
    PROVE  Listed(n, m)'
<1>0. /\ Len(chat) \in Nat /\ Len(shown) \in Nat /\ Len(incoming) \in Nat
      /\ atJoin \in Nat
      /\ shown \in Seq(Rows) /\ incoming \in Seq(Rows)
  BY PageNumbers DEF PageTypeInv, PageTypeOK
<1>1. CASE UNCHANGED <<joined, chat, incoming, shown, atJoin>>
  BY <1>1 DEF Listed
<1>2. CASE Join
  BY <1>0, <1>2 DEF Join, Listed, tableVars
<1>3. CASE OnInsert
  <2>0. incoming # <<>>
    BY <1>3 DEF OnInsert
  <2>1. /\ Head(incoming) \in Rows /\ Head(incoming) = incoming[1]
        /\ Len(incoming) > 0 /\ Len(incoming') = Len(incoming) - 1
        /\ \A k \in 1 .. Len(incoming) - 1 : incoming'[k] = incoming[k + 1]
    BY <1>0, <1>3, <2>0, TailShape DEF OnInsert
  <2>2. /\ Len(shown') = Len(shown) + 1
        /\ shown'[Len(shown) + 1] = incoming[1]
        /\ \A k \in 1 .. Len(shown) : shown'[k] = shown[k]
    <3>1. shown' = Append(shown, Head(incoming))
      BY <1>3 DEF OnInsert
    <3> QED  BY <1>0, <2>1, <3>1, AppendShape
  <2>3. joined /\ UNCHANGED <<joined, chat, atJoin>>
    <3>1. Len(incoming) # 0
      BY <1>0, <2>1
    <3> QED  BY <1>3, <3>1 DEF OnInsert, Listed
  <2>4. incoming[1] = atJoin + m + Len(shown) - n + 1
    BY <1>0, <2>1 DEF Listed
  <2>5. \A k \in n + 1 .. Len(shown) + 1 : shown'[k] = atJoin + m + k - n
    <3>1. SUFFICES ASSUME NEW k \in n + 1 .. Len(shown) + 1
                   PROVE  shown'[k] = atJoin + m + k - n
      OBVIOUS
    <3>2. CASE k = Len(shown) + 1
      BY <1>0, <2>2, <2>4, <3>2
    <3>3. CASE k \in n + 1 .. Len(shown)
      <4>1. k \in 1 .. Len(shown) /\ shown[k] = atJoin + m + k - n
        BY <1>0, <3>3 DEF Listed
      <4> QED  BY <2>2, <4>1
    <3> QED  BY <1>0, <3>2, <3>3
  <2>6. \A k \in 1 .. Len(incoming) - 1 :
           incoming'[k] = atJoin + m + Len(shown) + 1 - n + k
    <3>1. SUFFICES ASSUME NEW k \in 1 .. Len(incoming) - 1
                   PROVE  incoming'[k] = atJoin + m + Len(shown) + 1 - n + k
      OBVIOUS
    <3>2. k + 1 \in 1 .. Len(incoming) /\ incoming'[k] = incoming[k + 1]
      BY <1>0, <2>1
    <3>3. incoming[k + 1] = atJoin + m + Len(shown) - n + (k + 1)
      BY <3>2 DEF Listed
    <3> QED  BY <1>0, <3>2, <3>3
  <2>7. /\ n =< Len(shown) + 1
        /\ \A k \in 1 .. n : shown'[k] = k
    BY SMTT(30), <1>0, <2>2 DEF Listed
  <2>8. atJoin + m + (Len(shown) + 1) - n + (Len(incoming) - 1) = Len(chat)
    <3>1. atJoin + m + Len(shown) - n + Len(incoming) = Len(chat)
      BY <2>3 DEF Listed
    <3> QED  BY <1>0, <3>1
  <2>9. wiped' = atJoin' + 1 .. atJoin' + m
    BY <2>3 DEF Listed
  <2>10. /\ n =< Len(shown')
         /\ \A k \in 1 .. n : shown'[k] = k
         /\ \A k \in n + 1 .. Len(shown') : shown'[k] = atJoin' + m + k - n
         /\ \A k \in 1 .. Len(incoming') :
               incoming'[k] = atJoin' + m + Len(shown') - n + k
    BY <1>0, <2>1, <2>2, <2>3, <2>5, <2>6, <2>7
  <2>11. /\ atJoin' + m + Len(shown') - n + Len(incoming') = Len(chat')
         /\ joined'
    BY <1>0, <2>1, <2>2, <2>3, <2>8
  <2> QED  BY <2>9, <2>10, <2>11 DEF Listed
<1>4. ASSUME NEW text \in 0 .. Len(during), Commit(text),
             UNCHANGED <<joined, shown, atJoin>>
      PROVE  Listed(n, m)'
  <2>1. Len(chat') = Len(chat) + 1
    BY <1>4, CommitType
  <2>2. CASE ~joined
    BY <1>4, <2>2 DEF Commit, Listed
  <2>3. CASE joined
    <3>1. incoming \in Seq(Nat) /\ Len(chat) + 1 \in Nat
      <4>1. Rows \subseteq Nat
        BY <1>0 DEF Rows
      <4>2. incoming \in Seq(Nat)
        BY <1>0, <4>1, SeqMonotonic, Zenon
      <4> QED  BY <1>0, <4>2
    <3>2. /\ Len(incoming') = Len(incoming) + 1
          /\ incoming'[Len(incoming) + 1] = Len(chat) + 1
          /\ \A k \in 1 .. Len(incoming) : incoming'[k] = incoming[k]
      <4>1. incoming' = Append(incoming, Len(chat) + 1)
        BY <1>4, <2>3 DEF Commit
      <4> QED  BY <3>1, <4>1, AppendShape
    <3>3. \A k \in 1 .. Len(incoming) + 1 :
             incoming'[k] = atJoin + m + Len(shown) - n + k
      <4>1. \A k \in 1 .. Len(incoming) :
               incoming[k] = atJoin + m + Len(shown) - n + k
        BY DEF Listed
      <4>2. atJoin + m + Len(shown) - n + Len(incoming) = Len(chat)
        BY <2>3 DEF Listed
      <4> QED  BY SMTT(30), <1>0, <3>2, <4>1, <4>2
    <3>4. \A k \in 1 .. Len(incoming') :
             incoming'[k] = atJoin' + m + Len(shown') - n + k
      BY <1>0, <1>4, <3>2, <3>3
    <3>5. atJoin' + m + Len(shown') - n + Len(incoming') = Len(chat')
      <4>1. atJoin + m + Len(shown) - n + Len(incoming) = Len(chat)
        BY <2>3 DEF Listed
      <4> QED  BY <1>0, <1>4, <2>1, <3>2, <4>1
    <3>6. /\ wiped' = atJoin' + 1 .. atJoin' + m
          /\ n =< Len(shown')
          /\ \A k \in 1 .. n : shown'[k] = k
          /\ \A k \in n + 1 .. Len(shown') : shown'[k] = atJoin' + m + k - n
          /\ joined'
      BY <1>4, <2>3 DEF Listed
    <3> QED  BY <3>4, <3>5, <3>6 DEF Listed
  <2> QED  BY <2>2, <2>3
<1> QED  BY <1>1, <1>2, <1>3, <1>4

LEMMA ListStep ==
    ASSUME PageTypeInv, ListInv, [PageNext]_pageVars
    PROVE  ListInv'
<1>0. /\ Len(chat) \in Nat /\ Len(shown) \in Nat /\ Len(incoming) \in Nat
      /\ atJoin \in Nat /\ snapshot \in Nat
      /\ DOMAIN shown = 1 .. Len(shown)
  BY PageNumbers
<1>1. CASE Render
  <2>1. CASE load = "error"
    BY <1>1, <2>1 DEF Render, ListInv, Loading
  <2>2. CASE load = "answered"
    <3>0. Listed(0, 0)
      BY <2>2 DEF ListInv, Loading
    <3>1. /\ load' = "shown" /\ shown' = [r \in 1 .. snapshot |-> r]
          /\ wiped' = {shown[k] : k \in 1 .. Len(shown)}
          /\ UNCHANGED <<joined, chat, incoming, snapshot, atJoin>>
      BY <1>0, <1>1, <2>2 DEF Render, Loaded, tableVars
    <3>2. PICK m \in Nat : m = Len(shown)
      BY <1>0
    <3>3. wiped' = atJoin + 1 .. atJoin + m
      <4>1. ASSUME NEW r \in atJoin + 1 .. atJoin + m
            PROVE  r \in wiped'
        <5>1. r - atJoin \in 1 .. Len(shown) /\ shown[r - atJoin] = r
          BY <1>0, <3>0, <3>2 DEF Listed
        <5> QED  BY <3>1, <5>1
      <4>2. ASSUME NEW k \in 1 .. Len(shown)
            PROVE  shown[k] \in atJoin + 1 .. atJoin + m
        BY <1>0, <3>0, <3>2 DEF Listed
      <4> QED  BY <3>1, <4>1, <4>2
    <3>4. Len(shown') = snapshot /\ \A k \in 1 .. snapshot : shown'[k] = k
      BY <1>0, <3>1
    <3>5. PICK n \in Nat : n = snapshot
      BY <1>0
    <3>6. \A k \in 1 .. Len(incoming) : incoming[k] = atJoin + m + k
      BY <1>0, <3>0, <3>2 DEF Listed
    <3>7. /\ joined => atJoin + m + Len(incoming) = Len(chat)
          /\ ~joined => m = 0 /\ Len(incoming) = 0
      BY <1>0, <3>0, <3>2 DEF Listed
    <3>10. /\ wiped' = atJoin' + 1 .. atJoin' + m
           /\ n =< Len(shown')
           /\ \A k \in 1 .. n : shown'[k] = k
           /\ \A k \in n + 1 .. Len(shown') : shown'[k] = atJoin' + m + k - n
      BY <1>0, <3>1, <3>3, <3>4, <3>5
    <3>11. /\ atJoin' = atJoin /\ Len(shown') = n
           /\ incoming' = incoming /\ chat' = chat
      BY <3>1, <3>4, <3>5
    <3>12. \A k \in 1 .. Len(incoming') :
              incoming'[k] = atJoin' + m + Len(shown') - n + k
      BY <1>0, <3>6, <3>11
    <3>13. joined' => atJoin' + m + Len(shown') - n + Len(incoming')
                         = Len(chat')
      <4>1. SUFFICES ASSUME joined' PROVE atJoin' + m + Len(shown') - n
                                             + Len(incoming') = Len(chat')
        OBVIOUS
      <4>2. atJoin + m + Len(incoming) = Len(chat)
        BY <3>1, <3>7, <4>1
      <4> QED  BY <1>0, <3>11, <4>2
    <3>14. ~joined' => m = 0 /\ Len(incoming') = 0 /\ Len(shown') = n
      BY <3>1, <3>7, <3>11
    <3>8. Listed(n, m)'
      BY <3>10, <3>12, <3>13, <3>14 DEF Listed
    <3>9. snapshot' = n
      BY <3>1, <3>5
    <3> QED  BY <3>1, <3>8, <3>9 DEF ListInv, Listed, Loading
  <2> QED  BY <1>1, <2>1, <2>2 DEF Render
<1>2. CASE ~Render
  <2>1. UNCHANGED wiped
    BY <1>2
       DEF PageNext, Open, Join, Select, OnInsert, OthersPost, Type, Click,
           CoolDown, LookUp, Insert, Finish, pageVars, listVars
  <2>2. \/ UNCHANGED <<joined, chat, incoming, shown, atJoin>>
        \/ Join \/ OnInsert
        \/ /\ \E text \in 0 .. Len(during) : Commit(text)
           /\ UNCHANGED <<joined, shown, atJoin>>
    <3>1. ASSUME NEW i \in DOMAIN sends, Insert(i)
          PROVE  \/ UNCHANGED <<joined, chat, incoming, shown, atJoin>>
                 \/ /\ \E text \in 0 .. Len(during) : Commit(text)
                    /\ UNCHANGED <<joined, shown, atJoin>>
      <4>1. sends[i].text \in 0 .. Len(during)
        BY PageNumbers DEF PageTypeInv, PageTypeOK, Texts
      <4> QED  BY <3>1, <4>1 DEF Insert, listVars, tableVars
    <3>2. CASE OthersPost
      <4>1. 0 \in 0 .. Len(during)
        BY PageNumbers
      <4> QED  BY <3>2, <4>1 DEF OthersPost, listVars
    <3> QED
      BY <1>2, <3>1, <3>2
         DEF PageNext, Open, Select, Type, Click, CoolDown, LookUp, Finish,
             pageVars, listVars, tableVars
  <2>3. /\ load' \in Loading => load \in Loading
        /\ load' = "shown" => load = "shown" /\ UNCHANGED snapshot
    BY <1>2
       DEF PageNext, Open, Join, Select, OnInsert, OthersPost, Type, Click,
           CoolDown, LookUp, Insert, Finish, pageVars, listVars, Loading
  <2>4. load' \in Loading => Listed(0, 0)'
    <3>1. SUFFICES ASSUME load' \in Loading PROVE Listed(0, 0)'
      OBVIOUS
    <3>2. Listed(0, 0)
      BY <2>3, <3>1 DEF ListInv
    <3> QED  BY <2>1, <2>2, <3>2, ListedKept
  <2>5. load' = "shown" => \E m \in Nat : Listed(snapshot, m)'
    <3>1. SUFFICES ASSUME load' = "shown"
                   PROVE  \E m \in Nat : Listed(snapshot, m)'
      OBVIOUS
    <3>2. PICK n \in Nat : n = snapshot
      BY <1>0
    <3>3. PICK m \in Nat : Listed(n, m)
      BY <2>3, <3>1, <3>2 DEF ListInv
    <3>4. Listed(n, m)'
      BY <2>1, <2>2, <3>3, ListedKept
    <3>5. snapshot' = n
      BY <2>3, <3>1, <3>2
    <3> QED  BY <3>4, <3>5 DEF Listed
  <2> QED  BY <2>4, <2>5 DEF ListInv
<1> QED  BY <1>1, <1>2

\* How often a row is in a list of this order, once nothing is to come.
LEMMA Occurrences ==
    ASSUME PageTypeInv, NEW n \in Nat, NEW m \in Nat, Listed(n, m),
           incoming = <<>>, NEW r \in Rows
    PROVE  /\ Times(r) = 0 =>
                 r > n /\ (r \in wiped \/ ~joined \/ r =< atJoin)
           /\ Times(r) > 1 => /\ r =< n /\ r \notin wiped /\ joined
                              /\ r > atJoin /\ Times(r) = 2
<1>0. /\ Len(chat) \in Nat /\ Len(shown) \in Nat /\ Len(incoming) = 0
      /\ atJoin \in Nat /\ r \in Nat \ {0} /\ r =< Len(chat)
      /\ DOMAIN shown = 1 .. Len(shown)
  BY PageNumbers, EmptySeq DEF Rows
<1>1. PICK places : places = {k \in DOMAIN shown : shown[k] = r}
  OBVIOUS
<1>2. Times(r) = Cardinality(places)
  BY <1>1 DEF Times
<1>3. PICK late \in Int : late = r - atJoin - m + n
  BY <1>0
<1>a. /\ n =< Len(shown)
      /\ \A k \in 1 .. n : shown[k] = k
      /\ \A k \in n + 1 .. Len(shown) : shown[k] = atJoin + m + k - n
  BY DEF Listed
<1>b. /\ wiped = atJoin + 1 .. atJoin + m
      /\ joined => atJoin + m + Len(shown) - n + Len(incoming) = Len(chat)
      /\ ~joined => Len(shown) = n
  BY DEF Listed
<1>4. \A k \in 1 .. n : k \in places <=> k = r
  BY <1>0, <1>1, <1>a
<1>5. \A k \in n + 1 .. Len(shown) : k \in places <=> k = late
  BY <1>0, <1>1, <1>3, <1>a
<1>6. \A k \in places : k \in 1 .. n \/ k \in n + 1 .. Len(shown)
  BY <1>0, <1>1
<1>7. /\ late \in n + 1 .. Len(shown) => joined /\ r > atJoin + m
      /\ late \notin n + 1 .. Len(shown) => ~joined \/ r =< atJoin + m
  <2>1. CASE joined
    <3>1. late \in n + 1 .. Len(shown) <=> r > atJoin + m
      BY <1>0, <1>3, <1>b, <2>1
    <3> QED  BY <1>0, <2>1, <3>1
  <2>2. CASE ~joined
    <3>1. late \notin n + 1 .. Len(shown)
      BY <1>0, <1>3, <1>b, <2>2
    <3> QED  BY <2>2, <3>1
  <2> QED  BY <2>1, <2>2
<1>8. r =< n <=> r \in 1 .. n
  BY <1>0
<1>9. /\ Cardinality({}) = 0 /\ Cardinality({r}) = 1
      /\ Cardinality({late}) = 1
  BY FS_EmptySet, FS_Singleton
<1>10. CASE late \in n + 1 .. Len(shown)
  <2>1. r \notin wiped /\ r > atJoin /\ joined
    BY <1>0, <1>7, <1>10, <1>b
  <2>2. CASE r =< n
    <3>1. places = {r} \cup {late} /\ late \notin {r}
      BY <1>0, <1>4, <1>5, <1>6, <1>8, <1>10, <2>2
    <3>2. Cardinality({r} \cup {late}) = Cardinality({r}) + 1
      BY <3>1, FS_Singleton, FS_AddElement
    <3>3. Times(r) = 2
      BY SMTT(30), <1>2, <1>9, <3>1, <3>2
    <3> QED  BY <2>1, <2>2, <3>3
  <2>3. CASE ~(r =< n)
    <3>1. places = {late}
      BY <1>4, <1>5, <1>6, <1>8, <1>10, <2>3
    <3>2. Times(r) = 1
      BY <1>2, <1>9, <3>1
    <3> QED  BY <3>2
  <2> QED  BY <2>2, <2>3
<1>11. CASE late \notin n + 1 .. Len(shown)
  <2>1. CASE r =< n
    <3>1. places = {r}
      BY <1>4, <1>5, <1>6, <1>8, <1>11, <2>1
    <3>2. Times(r) = 1
      BY <1>2, <1>9, <3>1
    <3> QED  BY <3>2
  <2>2. CASE ~(r =< n)
    <3>1. places = {}
      BY <1>4, <1>5, <1>6, <1>8, <1>11, <2>2
    <3>2. Times(r) = 0
      BY <1>2, <1>9, <3>1
    <3>3. joined => r \in wiped \/ r =< atJoin
      BY <1>0, <1>7, <1>11, <1>b
    <3>4. r > n
      BY <1>0, <2>2
    <3> QED  BY <3>2, <3>3, <3>4
  <2> QED  BY <2>1, <2>2
<1> QED  BY <1>10, <1>11

\* A row is missing from the list, or there twice, only if it was committed
\* while the list was loading, in one of the ways the property names.
THEOREM AnomaliesExplained == PageSpec => []AnomaliesNeedLoading
<1>1. PageTypeInv /\ ListInv => AnomaliesNeedLoading
  <2> SUFFICES ASSUME PageTypeInv, ListInv, load = "shown", incoming = <<>>,
                      NEW r \in Rows
               PROVE  /\ Times(r) = 0 =>
                            /\ r > snapshot
                            /\ r \in wiped \/ ~joined \/ r =< atJoin
                      /\ Times(r) > 1 =>
                            /\ r =< snapshot /\ r \notin wiped /\ joined
                            /\ r > atJoin /\ Times(r) = 2
    BY DEF AnomaliesNeedLoading
  <2>1. PICK m \in Nat : Listed(snapshot, m)
    BY DEF ListInv
  <2> QED  BY <2>1, PageNumbers, Occurrences
<1> QED  BY <1>1, ListStart, ListStep, PageTyped, PTL DEF PageSpec

----------------------------------------------------------------------------
(* The SDK's client: types.                                                *)

SenderTypes ==
    /\ sending \in [Conns -> BOOLEAN]
    /\ queued \in [Conns -> Nat] /\ written \in [Conns -> Nat]
    /\ accepted \in Nat /\ accepted =< MaxQueued
    /\ \A c \in Conns : queued[c] + written[c] =< accepted

LinkTypes ==
    /\ signedIn \in BOOLEAN
    /\ conns \in 0 .. MaxConns
    /\ link \in [Conns -> {"none", "up", "stalled", "down"}]
    /\ frames \in Seq(Kinds)
    /\ since \in [Conns -> {0} \cup Frames]

\* A receiver task that waits for the lock, or has it, holds a frame that
\* handlers are for.
ReceiverTypes ==
    /\ receiving \in [Conns -> {"none", "read", "wait", "call", "ended"}]
    /\ hand \in [Conns -> {0} \cup Frames]
    /\ arriving \in [Conns -> Seq(Frames)]
    /\ inbox \in [Conns -> Seq(Frames)]
    /\ taken \in Seq(Deliveries)
    /\ \A c \in Conns : receiving[c] \in {"wait", "call"} =>
          hand[c] \in Frames /\ frames[hand[c]] \in HandlerLists

\* A handler is pushed once, and to the list of its kind.
HandlerTypes ==
    /\ registering \subseteq Handlers
    /\ handlers \in [HandlerLists -> Seq(Handlers)]
    /\ turn \in [HandlerLists -> {0} \cup Conns]
    /\ called \in [HandlerLists -> Nat]
    /\ \A l \in HandlerLists :
          /\ called[l] =< Len(handlers[l])
          /\ \A k \in 1 .. Len(handlers[l]) :
                /\ HandledKind[handlers[l][k]] = l
                /\ handlers[l][k] \notin registering
          /\ \A j, k \in 1 .. Len(handlers[l]) :
                handlers[l][j] = handlers[l][k] => j = k

OrderTypes ==
    /\ order \in [HandlerLists -> Seq(Deliveries)]
    /\ from \in [Handlers -> Nat] /\ calls \in [Handlers -> Seq(Deliveries)]

SdkTypeInv ==
    /\ SenderTypes /\ LinkTypes /\ ReceiverTypes /\ HandlerTypes /\ OrderTypes

\* No list is longer than there are handlers.
LEMMA ListsAreShort ==
    ASSUME HandlerTypes, NEW l \in HandlerLists
    PROVE  Len(handlers[l]) =< Cardinality(Handlers)
<1>1. PICK s \in Seq(Handlers) : s = handlers[l]
  BY DEF HandlerTypes
<1>2. \A j, k \in 1 .. Len(s) : s[j] = s[k] => j = k
  BY <1>1 DEF HandlerTypes
<1>3. PICK n \in Nat : n = Len(s)
  BY <1>1
<1>4. s \in [1 .. n -> Handlers]
  BY <1>1, <1>3, LenProperties
<1>5. s \in Injection(1 .. n, Handlers)
  BY <1>2, <1>3, <1>4 DEF Injection, IsInjective
<1>6. Cardinality(1 .. n) =< Cardinality(Handlers)
  BY <1>5, SdkAssumption, FS_Injection
<1>7. Cardinality(1 .. n) = n
  <2>1. 1 \in Int /\ n \in Int
    OBVIOUS
  <2>2. Cardinality(1 .. n) = IF 1 > n THEN 0 ELSE n - 1 + 1
    BY <2>1, FS_Interval, Zenon
  <2> QED  BY <2>2
<1> QED  BY <1>1, <1>3, <1>6, <1>7

LEMMA SdkTypes == SdkTypeInv => SdkTypeOK
<1> SUFFICES ASSUME SdkTypeInv PROVE SdkTypeOK
  OBVIOUS
<1>1. SenderTypes /\ LinkTypes /\ ReceiverTypes /\ HandlerTypes /\ OrderTypes
  BY DEF SdkTypeInv
<1>2. /\ queued \in [Conns -> 0 .. MaxQueued]
      /\ written \in [Conns -> 0 .. MaxQueued]
      /\ accepted \in 0 .. MaxQueued
  BY <1>1, SdkAssumption DEF SenderTypes
<1>3. called \in [HandlerLists -> 0 .. Cardinality(Handlers)]
  <2>1. Cardinality(Handlers) \in Nat
    BY SdkAssumption, FS_CardinalityType
  <2>2. ASSUME NEW l \in HandlerLists
        PROVE  called[l] \in 0 .. Cardinality(Handlers)
    <3>1. Len(handlers[l]) =< Cardinality(Handlers)
      BY <1>1, ListsAreShort
    <3>2. /\ called[l] \in Nat /\ called[l] =< Len(handlers[l])
          /\ Len(handlers[l]) \in Nat
      BY <1>1 DEF HandlerTypes
    <3> QED  BY <2>1, <3>1, <3>2
  <2> QED  BY <1>1, <2>2 DEF HandlerTypes
<1>4. /\ signedIn \in BOOLEAN /\ sending \in [Conns -> BOOLEAN]
      /\ conns \in 0 .. MaxConns
      /\ link \in [Conns -> {"none", "up", "stalled", "down"}]
      /\ frames \in Seq(Kinds) /\ since \in [Conns -> {0} \cup Frames]
  BY <1>1 DEF SenderTypes, LinkTypes
<1>5. /\ receiving \in [Conns -> {"none", "read", "wait", "call", "ended"}]
      /\ hand \in [Conns -> {0} \cup Frames]
      /\ \A c \in Conns : arriving[c] \in Seq(Frames)
                          /\ inbox[c] \in Seq(Frames)
      /\ taken \in Seq(Deliveries)
  BY <1>1 DEF ReceiverTypes
<1>6. /\ registering \subseteq Handlers
      /\ handlers \in [HandlerLists -> Seq(Handlers)]
      /\ turn \in [HandlerLists -> {0} \cup Conns]
      /\ order \in [HandlerLists -> Seq(Deliveries)]
      /\ \A h \in Handlers : from[h] \in Nat /\ calls[h] \in Seq(Deliveries)
  BY <1>1 DEF HandlerTypes, OrderTypes
<1> QED  BY <1>2, <1>3, <1>4, <1>5, <1>6, Zenon DEF SdkTypeOK

LEMMA SdkTypeStart == SdkInit => SdkTypeInv
<1> SUFFICES ASSUME SdkInit PROVE SdkTypeInv
  OBVIOUS
<1>1. Len(<<>>) = 0 /\ \A S : <<>> \in Seq(S)
  BY EmptySeq
<1>2. SenderTypes
  BY SdkAssumption DEF SdkInit, SenderTypes
<1>3. LinkTypes
  <2>1. signedIn \in BOOLEAN
    BY Zenon DEF SdkInit
  <2> QED  BY <1>1, <2>1, SdkAssumption DEF SdkInit, LinkTypes
<1>4. ReceiverTypes
  BY <1>1 DEF SdkInit, ReceiverTypes
<1>5. HandlerTypes
  BY <1>1 DEF SdkInit, HandlerTypes
<1>6. OrderTypes
  BY <1>1 DEF SdkInit, OrderTypes
<1> QED  BY <1>2, <1>3, <1>4, <1>5, <1>6 DEF SdkTypeInv

\* A link goes down, or its peer stops reading or reads again.
Live(l) == l \in {"up", "stalled"}
LinkMoves(c) == LinkBreaks(c) \/ PeerStalls(c) \/ PeerReads(c)

LEMMA LinkShape ==
    ASSUME LinkTypes, NEW c \in Conns, LinkMoves(c)
    PROVE  /\ \E state \in {"up", "stalled", "down"} :
                 link' = [link EXCEPT ![c] = state]
           /\ Live(link[c])
           /\ UNCHANGED <<signedIn, conns, sendVarsSdk, handlerVars,
                          receiveVars, frames, since>>
BY DEF LinkMoves, LinkBreaks, PeerStalls, PeerReads, LinkTurns, Linked, Live

LEMMA LinkMovesKeep ==
    ASSUME NEW c \in Conns, LinkMoves(c)
    PROVE  UNCHANGED <<signedIn, conns, sendVarsSdk, handlerVars, receiveVars,
                       frames, since>>
BY DEF LinkMoves, LinkBreaks, PeerStalls, PeerReads, LinkTurns

\* Frames are only added; what is about earlier ones stays true.
LEMMA FramesGrow ==
    ASSUME LinkTypes, [SdkNext]_sdkVars
    PROVE  /\ UNCHANGED frames \/ \E kind \in Kinds : ServerSends(kind)
           /\ Len(frames) \in Nat /\ Len(frames') \in Nat
           /\ Len(frames) =< Len(frames')
           /\ Frames \subseteq Frames'
           /\ \A i \in Frames : frames'[i] = frames[i]
<1>0. frames \in Seq(Kinds) /\ Len(frames) \in Nat
  BY DEF LinkTypes
<1>1. UNCHANGED frames \/ \E kind \in Kinds : ServerSends(kind)
  BY DEF SdkNext, SignIn, Connect, SendUpdate, Beat, Queue, AddHandler,
         ReceiveMessage, WriteFrame, PushHandler, ReadFrame, LockHandlers,
         CallHandler, EndCalls, EndReading, LinkBreaks, PeerStalls,
         PeerReads, LinkTurns, sdkVars
<1>2. ASSUME NEW kind \in Kinds, ServerSends(kind)
      PROVE  /\ Len(frames') = Len(frames) + 1
             /\ \A i \in 1 .. Len(frames) : frames'[i] = frames[i]
  <2>1. frames' = Append(frames, kind)
    BY <1>2 DEF ServerSends
  <2> QED  BY <1>0, <2>1, AppendShape
<1>3. CASE UNCHANGED frames
  BY <1>0, <1>3 DEF Frames
<1>4. CASE \E kind \in Kinds : ServerSends(kind)
  BY <1>0, <1>2, <1>4 DEF Frames
<1> QED  BY <1>1, <1>3, <1>4

LEMMA LinkTypesStep ==
    ASSUME LinkTypes, [SdkNext]_sdkVars
    PROVE  LinkTypes'
<1>0. /\ Len(frames) \in Nat /\ Len(frames') \in Nat
      /\ Len(frames) =< Len(frames') /\ Frames \subseteq Frames'
  BY FramesGrow
<1>1. since \in [Conns -> {0} \cup Frames']
  BY <1>0 DEF LinkTypes
<1>2. CASE SignIn
  <2>1. signedIn' \in BOOLEAN
    BY <1>2, Zenon DEF SignIn
  <2> QED  BY <1>1, <1>2, <2>1 DEF SignIn, LinkTypes
<1>3. CASE Connect
  <2>1. conns' \in 0 .. MaxConns /\ conns + 1 \in Conns
    BY <1>3, SdkAssumption DEF Connect, LinkTypes, Conns
  <2>2. link' \in [Conns -> {"none", "up", "stalled", "down"}]
    BY <1>3, <2>1 DEF Connect, LinkTypes
  <2>3. Len(frames) \in {0} \cup Frames
    BY <1>0 DEF Frames
  <2>4. since' \in [Conns -> {0} \cup Frames] /\ UNCHANGED <<signedIn, frames>>
    BY <1>3, <2>1, <2>3 DEF Connect, LinkTypes
  <2> QED  BY <2>1, <2>2, <2>4 DEF LinkTypes, Frames
<1>4. ASSUME NEW c \in Conns, LinkMoves(c)
      PROVE  LinkTypes'
  <2>1. PICK state \in {"up", "stalled", "down"} :
           link' = [link EXCEPT ![c] = state]
    BY <1>4, LinkShape
  <2>2. UNCHANGED <<signedIn, conns, frames, since>>
    BY <1>4, LinkShape
  <2> QED  BY <2>1, <2>2 DEF LinkTypes, Frames
<1>5. ASSUME NEW kind \in Kinds, ServerSends(kind)
      PROVE  LinkTypes'
  <2>1. frames' = Append(frames, kind) /\ frames \in Seq(Kinds)
    BY <1>5 DEF ServerSends, LinkTypes
  <2>2. frames' \in Seq(Kinds)
    BY <2>1, AppendShape
  <2>3. UNCHANGED <<signedIn, conns, link, since>>
    BY <1>5 DEF ServerSends
  <2> QED  BY <1>1, <2>2, <2>3 DEF LinkTypes
<1>6. CASE UNCHANGED <<signedIn, conns, link, frames, since>>
  BY <1>6 DEF LinkTypes, Frames
<1>7. \/ UNCHANGED <<signedIn, conns, link, frames, since>>
      \/ SignIn \/ Connect \/ \E c \in Conns : LinkMoves(c)
      \/ \E kind \in Kinds : ServerSends(kind)
  BY DEF SdkNext, SendUpdate, Beat, Queue, AddHandler,
         ReceiveMessage, WriteFrame, PushHandler, ReadFrame, LockHandlers,
         CallHandler, EndCalls, EndReading, LinkMoves, sdkVars
<1> QED  BY <1>2, <1>3, <1>4, <1>5, <1>6, <1>7

LEMMA SenderTypesStep ==
    ASSUME SenderTypes, LinkTypes, [SdkNext]_sdkVars
    PROVE  SenderTypes'
<1>1. CASE UNCHANGED <<sending, queued, written, accepted>>
  BY <1>1 DEF SenderTypes
<1>2. CASE Connect
  <2>1. sending' \in [Conns -> BOOLEAN]
    BY <1>2 DEF Connect, SenderTypes
  <2> QED  BY <1>2, <2>1 DEF Connect, SenderTypes
<1>3. ASSUME NEW c \in Conns, Queue(c)
      PROVE  SenderTypes'
  <2>1. /\ queued' = [queued EXCEPT ![c] = queued[c] + 1]
        /\ accepted' = accepted + 1 /\ accepted < MaxQueued
        /\ UNCHANGED <<sending, written>>
    BY <1>3 DEF Queue
  <2> QED  BY <2>1, SdkAssumption DEF SenderTypes
<1>4. ASSUME NEW c \in Conns, WriteFrame(c)
      PROVE  SenderTypes'
  <2>1. queued[c] > 0 /\ UNCHANGED accepted
    BY <1>4 DEF WriteFrame, Writable
  <2>2. CASE /\ queued' = [queued EXCEPT ![c] = queued[c] - 1]
             /\ written' = [written EXCEPT ![c] = written[c] + 1]
             /\ UNCHANGED sending
    BY <2>1, <2>2 DEF SenderTypes
  <2>3. CASE /\ sending' = [sending EXCEPT ![c] = FALSE]
             /\ queued' = [queued EXCEPT ![c] = 0]
             /\ UNCHANGED written
    <3>1. sending' \in [Conns -> BOOLEAN]
      BY <2>3 DEF SenderTypes
    <3>2. \A d \in Conns : queued'[d] \in Nat /\ queued'[d] =< queued[d]
      BY <2>3 DEF SenderTypes
    <3>3. queued' \in [Conns -> Nat]
      BY <2>3 DEF SenderTypes
    <3> QED  BY <2>1, <2>3, <3>1, <3>2, <3>3 DEF SenderTypes
  <2> QED  BY <1>4, <2>2, <2>3 DEF WriteFrame
<1>5. ASSUME SendUpdate PROVE \E c \in Conns : Queue(c)
  BY <1>5, SdkAssumption DEF SendUpdate, LinkTypes, Conns
<1>6. \/ UNCHANGED <<sending, queued, written, accepted>>
      \/ Connect \/ \E c \in Conns : Queue(c) \/ WriteFrame(c)
  BY <1>5
     DEF SdkNext, SignIn, Beat, AddHandler, ReceiveMessage, PushHandler,
         ReadFrame, LockHandlers, CallHandler, EndCalls, EndReading,
         LinkBreaks, PeerStalls, PeerReads, LinkTurns, ServerSends, sdkVars,
         sendVarsSdk
<1> QED  BY <1>1, <1>2, <1>3, <1>4, <1>6

LEMMA ForwardType ==
    ASSUME ReceiverTypes, NEW c \in Conns, NEW f \in Frames, Forward(c, f)
    PROVE  inbox' \in [Conns -> Seq(Frames)]
<1>1. PICK box \in Seq(Frames) : box = Append(inbox[c], f)
  BY AppendShape DEF ReceiverTypes
<1>2. inbox' = inbox \/ inbox' = [inbox EXCEPT ![c] = box]
  BY <1>1 DEF Forward
<1> QED  BY <1>1, <1>2 DEF ReceiverTypes

LEMMA ReceiverTypesStep ==
    ASSUME ReceiverTypes, LinkTypes, [SdkNext]_sdkVars
    PROVE  ReceiverTypes'
<1>0. /\ receiving \in [Conns -> {"none", "read", "wait", "call", "ended"}]
      /\ hand \in [Conns -> {0} \cup Frames]
      /\ arriving \in [Conns -> Seq(Frames)]
      /\ inbox \in [Conns -> Seq(Frames)]
      /\ taken \in Seq(Deliveries)
      /\ \A c \in Conns : receiving[c] \in {"wait", "call"} =>
            hand[c] \in Frames /\ frames[hand[c]] \in HandlerLists
  BY DEF ReceiverTypes
<1>1. CASE UNCHANGED <<receiving, hand, arriving, inbox, taken, frames>>
  BY <1>1 DEF ReceiverTypes, Frames, Deliveries
<1>2. CASE Connect
  <2>1. /\ receiving' = [receiving EXCEPT ![conns + 1] = "read"]
        /\ inbox' = [d \in Conns |-> <<>>]
        /\ UNCHANGED <<hand, arriving, taken, frames>>
    BY <1>2 DEF Connect
  <2>2. inbox' \in [Conns -> Seq(Frames)]
    BY <2>1, EmptySeq
  <2>3. receiving' \in [Conns -> {"none", "read", "wait", "call", "ended"}]
        /\ \A c \in Conns : receiving'[c] \in {"wait", "call"} =>
                               receiving[c] \in {"wait", "call"}
    BY <1>0, <2>1
  <2> QED  BY <1>0, <2>1, <2>2, <2>3 DEF ReceiverTypes, Frames, Deliveries
<1>3. CASE ReceiveMessage
  <2>0. conns \in Conns /\ inbox[conns] # <<>> /\ inbox[conns] \in Seq(Frames)
    BY <1>0, <1>3, SdkAssumption DEF ReceiveMessage, LinkTypes, Conns
  <2>1. PICK f \in Frames : f = Head(inbox[conns])
    BY <2>0, TailShape
  <2>2. PICK box \in Seq(Frames) : box = Tail(inbox[conns])
    BY <2>0, TailShape
  <2>3. /\ taken' = Append(taken, <<conns, f>>)
        /\ inbox' = [inbox EXCEPT ![conns] = box]
        /\ UNCHANGED <<receiving, hand, arriving, frames>>
    BY <1>3, <2>1, <2>2 DEF ReceiveMessage
  <2>4. taken' \in Seq(Deliveries)
    <3>1. <<conns, f>> \in Deliveries
      BY <2>0 DEF Deliveries
    <3> QED  BY <1>0, <2>3, <3>1, AppendShape
  <2>5. inbox' \in [Conns -> Seq(Frames)]
    BY <1>0, <2>3
  <2> QED  BY <1>0, <2>3, <2>4, <2>5 DEF ReceiverTypes, Frames, Deliveries
<1>4. ASSUME NEW c \in Conns, ReadFrame(c)
      PROVE  ReceiverTypes'
  <2>0. arriving[c] # <<>> /\ arriving[c] \in Seq(Frames)
    BY <1>0, <1>4 DEF ReadFrame
  <2>1. PICK f \in Frames : f = Head(arriving[c])
    BY <2>0, TailShape
  <2>2. PICK rest \in Seq(Frames) : rest = Tail(arriving[c])
    BY <2>0, TailShape
  <2>3. /\ arriving' = [arriving EXCEPT ![c] = rest]
        /\ UNCHANGED <<taken, frames>>
    BY <1>4, <2>2 DEF ReadFrame
  <2>4. arriving' \in [Conns -> Seq(Frames)]
    BY <1>0, <2>3
  <2>5. CASE frames[f] \in HandlerLists
    <3>1. /\ receiving' = [receiving EXCEPT ![c] = "wait"]
          /\ hand' = [hand EXCEPT ![c] = f] /\ UNCHANGED inbox
      BY <1>4, <2>1, <2>5 DEF ReadFrame
    <3>2. receiving' \in [Conns -> {"none", "read", "wait", "call", "ended"}]
          /\ hand' \in [Conns -> {0} \cup Frames]
      BY <1>0, <3>1
    <3>3. \A d \in Conns : receiving'[d] \in {"wait", "call"} =>
             hand'[d] \in Frames /\ frames[hand'[d]] \in HandlerLists
      BY <1>0, <2>5, <3>1
    <3> QED
      BY <1>0, <2>3, <2>4, <3>1, <3>2, <3>3
         DEF ReceiverTypes, Frames, Deliveries
  <2>6. CASE frames[f] \notin HandlerLists
    <3>1. UNCHANGED <<receiving, hand>> /\ (UNCHANGED inbox \/ Forward(c, f))
      BY <1>4, <2>1, <2>6 DEF ReadFrame
    <3>2. inbox' \in [Conns -> Seq(Frames)]
      BY <1>0, <3>1, ForwardType
    <3> QED
      BY <1>0, <2>3, <2>4, <3>1, <3>2 DEF ReceiverTypes, Frames, Deliveries
  <2> QED  BY <2>5, <2>6
<1>5. ASSUME NEW c \in Conns, LockHandlers(c)
      PROVE  ReceiverTypes'
  <2>1. /\ receiving' = [receiving EXCEPT ![c] = "call"]
        /\ receiving[c] = "wait"
        /\ UNCHANGED <<hand, arriving, inbox, taken, frames>>
    BY <1>5 DEF LockHandlers, MayCall
  <2>2. receiving' \in [Conns -> {"none", "read", "wait", "call", "ended"}]
        /\ \A d \in Conns : receiving'[d] \in {"wait", "call"} =>
                               receiving[d] \in {"wait", "call"}
    BY <1>0, <2>1
  <2> QED  BY <1>0, <2>1, <2>2 DEF ReceiverTypes, Frames, Deliveries
<1>6. ASSUME NEW c \in Conns, EndCalls(c)
      PROVE  ReceiverTypes'
  <2>1. /\ receiving' = [receiving EXCEPT ![c] = "read"]
        /\ hand' = [hand EXCEPT ![c] = 0]
        /\ receiving[c] = "call"
        /\ UNCHANGED inbox \/ Forward(c, hand[c])
        /\ UNCHANGED <<arriving, taken, frames>>
    BY <1>6 DEF EndCalls
  <2>2. hand[c] \in Frames
    BY <1>0, <2>1
  <2>3. inbox' \in [Conns -> Seq(Frames)]
    BY <1>0, <2>1, <2>2, ForwardType
  <2>4. /\ receiving' \in [Conns -> {"none", "read", "wait", "call", "ended"}]
        /\ hand' \in [Conns -> {0} \cup Frames]
    BY <1>0, <2>1
  <2>5. \A d \in Conns : receiving'[d] \in {"wait", "call"} =>
           hand'[d] \in Frames /\ frames[hand'[d]] \in HandlerLists
    BY <1>0, <2>1
  <2> QED
    BY <1>0, <2>1, <2>3, <2>4, <2>5 DEF ReceiverTypes, Frames, Deliveries
<1>7. ASSUME NEW c \in Conns, EndReading(c)
      PROVE  ReceiverTypes'
  <2>1. /\ receiving' = [receiving EXCEPT ![c] = "ended"]
        /\ arriving' = [arriving EXCEPT ![c] = <<>>]
        /\ UNCHANGED <<hand, inbox, taken, frames>>
    BY <1>7 DEF EndReading
  <2>2. arriving' \in [Conns -> Seq(Frames)]
    <3>1. <<>> \in Seq(Frames)
      BY EmptySeq
    <3> QED  BY <1>0, <2>1, <3>1
  <2>3. receiving' \in [Conns -> {"none", "read", "wait", "call", "ended"}]
        /\ \A d \in Conns : receiving'[d] \in {"wait", "call"} =>
                               receiving[d] \in {"wait", "call"}
    BY <1>0, <2>1
  <2> QED  BY <1>0, <2>1, <2>2, <2>3 DEF ReceiverTypes, Frames, Deliveries
<1>8. ASSUME NEW kind \in Kinds, ServerSends(kind)
      PROVE  ReceiverTypes'
  <2>0. /\ Len(frames) \in Nat /\ frames \in Seq(Kinds)
        /\ Frames \subseteq Frames'
        /\ \A i \in Frames : frames'[i] = frames[i]
    BY FramesGrow DEF LinkTypes
  <2>1. /\ frames' = Append(frames, kind)
        /\ UNCHANGED <<receiving, hand, inbox, taken>>
        /\ arriving' = [c \in Conns |->
              IF Linked(c) THEN Append(arriving[c], Len(frames) + 1)
                           ELSE arriving[c]]
    BY <1>8 DEF ServerSends
  <2>2. Len(frames) + 1 \in Frames'
    BY <2>0, <2>1, AppendShape DEF Frames
  <2>3. Seq(Frames) \subseteq Seq(Frames')
    BY <2>0, SeqMonotonic, Zenon
  <2>4. Seq(Deliveries) \subseteq Seq(Deliveries')
    <3>1. Deliveries \subseteq Deliveries'
      BY <2>0 DEF Deliveries
    <3> QED  BY <3>1, SeqMonotonic, Zenon
  <2>5. arriving' \in [Conns -> Seq(Frames')]
    <3>1. ASSUME NEW c \in Conns
          PROVE  arriving'[c] \in Seq(Frames')
      <4>1. arriving[c] \in Seq(Frames')
        BY <1>0, <2>3
      <4>2. Append(arriving[c], Len(frames) + 1) \in Seq(Frames')
        BY <2>2, <4>1, AppendShape
      <4> QED  BY <2>1, <4>1, <4>2
    <3> QED  BY <2>1, <3>1
  <2>6. /\ hand' \in [Conns -> {0} \cup Frames']
        /\ inbox' \in [Conns -> Seq(Frames')]
        /\ taken' \in Seq(Deliveries')
    BY <1>0, <2>0, <2>1, <2>3, <2>4
  <2>7. \A c \in Conns : receiving'[c] \in {"wait", "call"} =>
           hand'[c] \in Frames' /\ frames'[hand'[c]] \in HandlerLists
    BY <1>0, <2>0, <2>1
  <2> QED  BY <1>0, <2>1, <2>5, <2>6, <2>7 DEF ReceiverTypes
<1>9. \/ UNCHANGED <<receiving, hand, arriving, inbox, taken, frames>>
      \/ Connect \/ ReceiveMessage
      \/ \E c \in Conns : ReadFrame(c) \/ LockHandlers(c) \/ EndCalls(c)
                          \/ EndReading(c)
      \/ \E kind \in Kinds : ServerSends(kind)
  BY DEF SdkNext, SignIn, SendUpdate, Beat, Queue, AddHandler, WriteFrame,
         PushHandler, CallHandler, LinkBreaks, PeerStalls, PeerReads,
         LinkTurns, sdkVars, receiveVars
<1> QED  BY <1>1, <1>2, <1>3, <1>4, <1>5, <1>6, <1>7, <1>8, <1>9

LEMMA HandlerTypesStep ==
    ASSUME HandlerTypes, ReceiverTypes, [SdkNext]_sdkVars
    PROVE  HandlerTypes'
<1>0. /\ registering \subseteq Handlers
      /\ handlers \in [HandlerLists -> Seq(Handlers)]
      /\ turn \in [HandlerLists -> {0} \cup Conns]
      /\ called \in [HandlerLists -> Nat]
      /\ \A l \in HandlerLists :
            /\ called[l] =< Len(handlers[l])
            /\ \A k \in 1 .. Len(handlers[l]) :
                  /\ HandledKind[handlers[l][k]] = l
                  /\ handlers[l][k] \notin registering
            /\ \A j, k \in 1 .. Len(handlers[l]) :
                  handlers[l][j] = handlers[l][k] => j = k
  BY DEF HandlerTypes
<1>1. CASE UNCHANGED <<registering, handlers, turn, called>>
  BY <1>1 DEF HandlerTypes
<1>2. ASSUME NEW h \in Handlers, AddHandler(h)
      PROVE  HandlerTypes'
  <2>1. /\ registering' = registering \cup {h}
        /\ UNCHANGED <<handlers, turn, called>>
        /\ \A l \in HandlerLists : \A k \in 1 .. Len(handlers[l]) :
              handlers[l][k] # h
    BY <1>0, <1>2 DEF AddHandler
  <2>2. registering' \subseteq Handlers
    BY <1>0, <2>1
  <2> QED  BY <1>0, <2>1, <2>2 DEF HandlerTypes
<1>3. ASSUME NEW h \in Handlers, PushHandler(h)
      PROVE  HandlerTypes'
  <2>1. PICK l \in HandlerLists : l = HandledKind[h]
    BY SdkAssumption
  <2>2. /\ h \in registering /\ registering' = registering \ {h}
        /\ handlers' = [handlers EXCEPT ![l] = Append(handlers[l], h)]
        /\ UNCHANGED <<turn, called>>
    BY <1>3, <2>1 DEF PushHandler
  <2>3. PICK s \in Seq(Handlers) : s = handlers[l]
    BY <1>0
  <2>4. PICK t \in Seq(Handlers) : t = Append(s, h)
    BY AppendShape
  <2>5. /\ Len(s) \in Nat /\ Len(t) = Len(s) + 1 /\ t[Len(s) + 1] = h
        /\ \A k \in 1 .. Len(s) : t[k] = s[k]
    BY <2>4, AppendShape
  <2>6. handlers' = [handlers EXCEPT ![l] = t]
    BY <2>2, <2>3, <2>4
  <2>7. /\ handlers' \in [HandlerLists -> Seq(Handlers)]
        /\ handlers'[l] = t
        /\ \A m \in HandlerLists \ {l} : handlers'[m] = handlers[m]
    BY <1>0, <2>6
  <2>s. /\ \A k \in 1 .. Len(s) : /\ HandledKind[s[k]] = l
                                   /\ s[k] \notin registering
        /\ \A j, k \in 1 .. Len(s) : s[j] = s[k] => j = k
    BY <1>0, <2>3
  <2>t. \A k \in 1 .. Len(t) : k \in 1 .. Len(s) \/ k = Len(s) + 1
    BY <2>5
  <2>8. ASSUME NEW k \in 1 .. Len(t)
        PROVE  HandledKind[t[k]] = l /\ t[k] \notin registering'
    <3>1. CASE k \in 1 .. Len(s)
      <4>1. t[k] = s[k]
        BY <2>5, <3>1
      <4> QED  BY <2>2, <2>s, <3>1, <4>1
    <3>2. CASE k = Len(s) + 1
      <4>1. t[k] = h
        BY <2>5, <3>2
      <4> QED  BY <2>1, <2>2, <4>1
    <3> QED  BY <2>t, <3>1, <3>2
  <2>9. ASSUME NEW j \in 1 .. Len(t), NEW k \in 1 .. Len(t), t[j] = t[k]
        PROVE  j = k
    <3>1. \A i \in 1 .. Len(s) : t[i] = s[i] /\ t[i] # h
      BY <2>2, <2>5, <2>s
    <3>2. t[Len(s) + 1] = h
      BY <2>5
    <3>3. CASE j \in 1 .. Len(s) /\ k \in 1 .. Len(s)
      BY <2>9, <2>s, <3>1, <3>3
    <3>4. CASE j = Len(s) + 1 \/ k = Len(s) + 1
      BY <2>9, <2>t, <3>1, <3>2, <3>4
    <3> QED  BY <2>t, <3>3, <3>4
  <2>10. called[l] =< Len(t)
    BY <1>0, <2>3, <2>5
  <2> QED
    BY <1>0, <2>2, <2>7, <2>8, <2>9, <2>10 DEF HandlerTypes
<1>4. ASSUME NEW c \in Conns, receiving[c] \in {"wait", "call"}
      PROVE  ListOf(c) \in HandlerLists
  BY <1>4 DEF ReceiverTypes, ListOf
<1>5. ASSUME NEW c \in Conns, LockHandlers(c)
      PROVE  HandlerTypes'
  <2>1. PICK l \in HandlerLists : l = ListOf(c)
    BY <1>4, <1>5 DEF LockHandlers, MayCall
  <2>2. /\ turn' = [turn EXCEPT ![l] = c]
        /\ called' = [called EXCEPT ![l] = 0]
        /\ UNCHANGED <<registering, handlers>>
    BY <1>5, <2>1 DEF LockHandlers
  <2>3. /\ turn' \in [HandlerLists -> {0} \cup Conns]
        /\ called' \in [HandlerLists -> Nat]
        /\ called'[l] = 0
        /\ \A m \in HandlerLists \ {l} : called'[m] = called[m]
    BY <1>0, <2>2
  <2>4. ASSUME NEW m \in HandlerLists
        PROVE  called'[m] =< Len(handlers[m])
    <3>1. handlers[m] \in Seq(Handlers) /\ called[m] =< Len(handlers[m])
      BY <1>0
    <3>2. Len(handlers[m]) \in Nat
      BY <3>1
    <3>3. called'[m] = IF m = l THEN 0 ELSE called[m]
      BY <2>3
    <3> QED  BY <3>1, <3>2, <3>3
  <2> QED  BY <1>0, <2>2, <2>3, <2>4 DEF HandlerTypes
<1>6. ASSUME NEW c \in Conns, CallHandler(c)
      PROVE  HandlerTypes'
  <2>1. PICK l \in HandlerLists : l = ListOf(c)
    BY <1>4, <1>6 DEF CallHandler
  <2>2. /\ called[l] + 1 =< Len(handlers[l])
        /\ called' = [called EXCEPT ![l] = called[l] + 1]
        /\ UNCHANGED <<registering, handlers, turn>>
    BY <1>6, <2>1 DEF CallHandler
  <2>3. /\ called' \in [HandlerLists -> Nat]
        /\ \A m \in HandlerLists : called'[m] =< Len(handlers[m])
    BY <1>0, <2>2
  <2> QED  BY <1>0, <2>2, <2>3 DEF HandlerTypes
<1>7. ASSUME NEW c \in Conns, EndCalls(c)
      PROVE  HandlerTypes'
  <2>1. /\ turn' = [turn EXCEPT ![ListOf(c)] = 0]
        /\ UNCHANGED <<registering, handlers, called>>
    BY <1>7 DEF EndCalls
  <2>2. turn' \in [HandlerLists -> {0} \cup Conns]
    BY <1>0, <2>1
  <2> QED  BY <1>0, <2>1, <2>2 DEF HandlerTypes
<1>8. \/ UNCHANGED <<registering, handlers, turn, called>>
      \/ \E h \in Handlers : AddHandler(h) \/ PushHandler(h)
      \/ \E c \in Conns : LockHandlers(c) \/ CallHandler(c) \/ EndCalls(c)
  BY DEF SdkNext, SignIn, Connect, SendUpdate, Beat, Queue, WriteFrame,
         ReceiveMessage, ReadFrame, EndReading, ServerSends, LinkBreaks,
         PeerStalls, PeerReads, LinkTurns, sdkVars, handlerVars
<1> QED  BY <1>1, <1>2, <1>3, <1>5, <1>6, <1>7, <1>8

LEMMA OrderTypesStep ==
    ASSUME OrderTypes, HandlerTypes, ReceiverTypes, LinkTypes,
           [SdkNext]_sdkVars
    PROVE  OrderTypes'
<1>0. /\ order \in [HandlerLists -> Seq(Deliveries)]
      /\ from \in [Handlers -> Nat] /\ calls \in [Handlers -> Seq(Deliveries)]
      /\ handlers \in [HandlerLists -> Seq(Handlers)]
      /\ called \in [HandlerLists -> Nat]
  BY DEF OrderTypes, HandlerTypes
<1>1. Seq(Deliveries) \subseteq Seq(Deliveries')
  <2>1. Frames \subseteq Frames'
    BY FramesGrow
  <2>2. Deliveries \subseteq Deliveries'
    BY <2>1 DEF Deliveries
  <2> QED  BY <2>2, SeqMonotonic, Zenon
<1>2. CASE UNCHANGED <<order, from, calls>>
  BY <1>0, <1>1, <1>2 DEF OrderTypes
<1>3. ASSUME NEW h \in Handlers, PushHandler(h)
      PROVE  OrderTypes'
  <2>1. PICK l \in HandlerLists : l = HandledKind[h]
    BY SdkAssumption
  <2>2. PICK n \in Nat : n = Len(order[l])
    BY <1>0
  <2>3. from' = [from EXCEPT ![h] = n] /\ UNCHANGED <<order, calls>>
    BY <1>3, <2>1, <2>2 DEF PushHandler
  <2> QED  BY <1>0, <1>1, <2>3 DEF OrderTypes
<1>4. ASSUME NEW c \in Conns, receiving[c] \in {"wait", "call"}
      PROVE  ListOf(c) \in HandlerLists /\ <<c, hand[c]>> \in Deliveries
  BY <1>4 DEF ReceiverTypes, ListOf, Deliveries
<1>5. ASSUME NEW c \in Conns, LockHandlers(c)
      PROVE  OrderTypes'
  <2>1. PICK l \in HandlerLists : l = ListOf(c)
    BY <1>4, <1>5 DEF LockHandlers, MayCall
  <2>2. PICK s \in Seq(Deliveries) : s = Append(order[l], <<c, hand[c]>>)
    BY <1>0, <1>4, <1>5, AppendShape DEF LockHandlers, MayCall
  <2>3. order' = [order EXCEPT ![l] = s] /\ UNCHANGED <<from, calls>>
    BY <1>5, <2>1, <2>2 DEF LockHandlers
  <2>4. order' \in [HandlerLists -> Seq(Deliveries)]
    BY <1>0, <2>3
  <2> QED  BY <1>0, <1>1, <2>3, <2>4 DEF OrderTypes
<1>6. ASSUME NEW c \in Conns, CallHandler(c)
      PROVE  OrderTypes'
  <2>1. PICK l \in HandlerLists : l = ListOf(c)
    BY <1>4, <1>6 DEF CallHandler
  <2>2. PICK h \in Handlers : h = handlers[l][called[l] + 1]
    <3>1. called[l] + 1 =< Len(handlers[l]) /\ called[l] \in Nat
          /\ handlers[l] \in Seq(Handlers)
      BY <1>0, <1>6, <2>1 DEF CallHandler
    <3>2. called[l] + 1 \in 1 .. Len(handlers[l])
      BY <3>1
    <3> QED  BY <3>1, <3>2
  <2>3. PICK s \in Seq(Deliveries) : s = Append(calls[h], <<c, hand[c]>>)
    BY <1>0, <1>4, <1>6, AppendShape DEF CallHandler
  <2>4. calls' = [calls EXCEPT ![h] = s] /\ UNCHANGED <<order, from>>
    BY <1>6, <2>1, <2>2, <2>3 DEF CallHandler
  <2>5. calls' \in [Handlers -> Seq(Deliveries)]
    BY <1>0, <2>4
  <2> QED  BY <1>0, <1>1, <2>4, <2>5 DEF OrderTypes
<1>7. \/ UNCHANGED <<order, from, calls>>
      \/ \E h \in Handlers : PushHandler(h)
      \/ \E c \in Conns : LockHandlers(c) \/ CallHandler(c)
  BY DEF SdkNext, SignIn, Connect, SendUpdate, Beat, Queue, WriteFrame,
         ReceiveMessage, ReadFrame, AddHandler, EndCalls, EndReading,
         ServerSends, LinkBreaks, PeerStalls, PeerReads, LinkTurns, sdkVars,
         handlerVars
<1> QED  BY <1>2, <1>3, <1>5, <1>6, <1>7

LEMMA SdkTypeStep == SdkTypeInv /\ [SdkNext]_sdkVars => SdkTypeInv'
BY LinkTypesStep, SenderTypesStep, ReceiverTypesStep, HandlerTypesStep,
   OrderTypesStep
   DEF SdkTypeInv

LEMMA SdkTyped == SdkSpec => []SdkTypeInv
BY SdkTypeStart, SdkTypeStep, PTL DEF SdkSpec

\* Every variable of the client keeps the values that its declaration names;
\* no list is longer than there are handlers, and no more is queued or written
\* than was accepted.
THEOREM SdkTypeCorrect == SdkSpec => []SdkTypeOK
BY SdkTyped, SdkTypes, PTL

----------------------------------------------------------------------------
(* The SDK's client: handlers are called in one order.                     *)

\* A receiver that calls handlers holds the lock of their list, and its frame
\* is the last one the lock was taken for.
Holds(c, l) ==
    /\ receiving[c] = "call" /\ ListOf(c) = l
    /\ Len(order[l]) > 0 /\ order[l][Len(order[l])] = <<c, hand[c]>>

LockInv ==
    /\ \A c \in Conns : c > conns => receiving[c] = "none"
    /\ \A c \in Conns, l \in HandlerLists : turn[l] = c => Holds(c, l)
    /\ \A c \in Conns, l \in HandlerLists :
          receiving[c] = "call" /\ ListOf(c) = l => turn[l] = c

LEMMA LockStart == SdkInit => LockInv
<1> SUFFICES ASSUME SdkInit PROVE LockInv
  OBVIOUS
<1>1. /\ \A c \in Conns : receiving[c] = "none" /\ c # 0
      /\ \A l \in HandlerLists : turn[l] = 0
  BY SdkAssumption DEF SdkInit, Conns
<1> QED  BY <1>1 DEF LockInv

\* The list a receiver calls does not change under it.
LEMMA ListOfKept ==
    ASSUME ReceiverTypes, LinkTypes, [SdkNext]_sdkVars, NEW c \in Conns,
           receiving[c] \in {"wait", "call"}, hand'[c] = hand[c]
    PROVE  ListOf(c)' = ListOf(c) /\ ListOf(c) \in HandlerLists
<1>1. hand[c] \in Frames /\ frames[hand[c]] \in HandlerLists
  BY DEF ReceiverTypes
<1>2. frames'[hand[c]] = frames[hand[c]]
  BY <1>1, FramesGrow
<1> QED  BY <1>1, <1>2 DEF ListOf

LEMMA LockStep ==
    ASSUME SdkTypeInv, LockInv, [SdkNext]_sdkVars
    PROVE  LockInv'
<1>0. /\ ReceiverTypes /\ LinkTypes /\ HandlerTypes /\ OrderTypes
      /\ \A c \in Conns : c \in Nat \ {0}
      /\ conns \in Nat /\ turn \in [HandlerLists -> {0} \cup Conns]
      /\ receiving \in [Conns -> {"none", "read", "wait", "call", "ended"}]
      /\ hand \in [Conns -> {0} \cup Frames]
      /\ order \in [HandlerLists -> Seq(Deliveries)]
  <2>1. ReceiverTypes /\ LinkTypes /\ HandlerTypes /\ OrderTypes
    BY DEF SdkTypeInv
  <2>2. /\ receiving \in [Conns -> {"none", "read", "wait", "call", "ended"}]
        /\ hand \in [Conns -> {0} \cup Frames]
    BY <2>1 DEF ReceiverTypes
  <2>3. /\ turn \in [HandlerLists -> {0} \cup Conns]
        /\ order \in [HandlerLists -> Seq(Deliveries)]
    BY <2>1 DEF HandlerTypes, OrderTypes
  <2>4. conns \in Nat /\ \A c \in Conns : c \in Nat \ {0}
    BY <2>1, SdkAssumption DEF LinkTypes, Conns
  <2> QED  BY <2>1, <2>2, <2>3, <2>4
<1>1. /\ \A c \in Conns : c > conns => receiving[c] = "none"
      /\ \A c \in Conns, l \in HandlerLists : turn[l] = c => Holds(c, l)
      /\ \A c \in Conns, l \in HandlerLists :
            receiving[c] = "call" /\ ListOf(c) = l => turn[l] = c
  BY DEF LockInv
\* A step that leaves those who call alone.
<1>2. ASSUME UNCHANGED <<turn, order>>, conns' \in Nat, conns =< conns',
             \A c \in Conns :
                /\ c > conns' => receiving'[c] = receiving[c]
                /\ receiving'[c] = "call" <=> receiving[c] = "call"
                /\ receiving[c] = "call" => hand'[c] = hand[c]
      PROVE  LockInv'
  <2>1. \A c \in Conns : c > conns' => receiving'[c] = "none"
    BY <1>0, <1>1, <1>2
  <2>2. ASSUME NEW c \in Conns, receiving[c] = "call"
        PROVE  ListOf(c)' = ListOf(c)
    <3>1. hand'[c] = hand[c] /\ receiving[c] \in {"wait", "call"}
      BY <1>2, <2>2
    <3> QED  BY <1>0, <3>1, ListOfKept
  <2>3. ASSUME NEW c \in Conns, NEW l \in HandlerLists, turn'[l] = c
        PROVE  Holds(c, l)'
    <3>1. Holds(c, l)
      BY <1>1, <1>2, <2>3
    <3> QED  BY <1>2, <2>2, <3>1 DEF Holds
  <2>4. ASSUME NEW c \in Conns, NEW l \in HandlerLists,
               receiving'[c] = "call", ListOf(c)' = l
        PROVE  turn'[l] = c
    BY <1>1, <1>2, <2>2, <2>4
  <2> QED  BY <2>1, <2>3, <2>4 DEF LockInv
<1>3. CASE UNCHANGED <<turn, order, conns, receiving, hand>>
  BY <1>0, <1>2, <1>3
<1>4. CASE Connect
  <2>1. /\ receiving' = [receiving EXCEPT ![conns + 1] = "read"]
        /\ conns' = conns + 1 /\ UNCHANGED <<turn, order, hand>>
        /\ conns + 1 \in Conns
    BY <1>0, <1>4, SdkAssumption DEF Connect, handlerVars, Conns
  <2>2. receiving[conns + 1] = "none"
    BY <1>0, <1>1, <2>1
  <2>3. \A c \in Conns : /\ c > conns' => receiving'[c] = receiving[c]
                         /\ receiving'[c] = "call" <=> receiving[c] = "call"
    BY <1>0, <2>1, <2>2
  <2> QED  BY <1>0, <1>2, <2>1, <2>3
<1>5. ASSUME NEW c \in Conns, ReadFrame(c) \/ EndReading(c)
      PROVE  LockInv'
  <2>1. /\ receiving[c] = "read" /\ receiving'[c] # "call"
        /\ \A d \in Conns \ {c} : receiving'[d] = receiving[d]
                                  /\ hand'[d] = hand[d]
        /\ UNCHANGED <<turn, order, conns>>
    BY <1>0, <1>5 DEF ReadFrame, EndReading, handlerVars
  <2>2. ~(c > conns)
    BY <1>1, <2>1
  <2> QED  BY <1>0, <1>2, <2>1, <2>2
<1>6. ASSUME NEW c \in Conns, LockHandlers(c)
      PROVE  LockInv'
  <2>1. PICK l \in HandlerLists : l = ListOf(c)
    BY <1>0, <1>6 DEF LockHandlers, MayCall, ReceiverTypes, ListOf
  <2>2. PICK d \in Deliveries : d = <<c, hand[c]>>
    BY <1>0, <1>6 DEF LockHandlers, MayCall, ReceiverTypes, Deliveries
  <2>3. /\ receiving[c] = "wait" /\ turn[l] = 0
        /\ turn' = [turn EXCEPT ![l] = c]
        /\ order' = [order EXCEPT ![l] = Append(order[l], d)]
        /\ receiving' = [receiving EXCEPT ![c] = "call"]
        /\ UNCHANGED <<conns, hand, frames>>
    BY <1>6, <2>1, <2>2 DEF LockHandlers, MayCall
  <2>4. \A e \in Conns : ListOf(e)' = ListOf(e)
    BY <2>3 DEF ListOf
  <2>5. /\ Len(order'[l]) > 0 /\ order'[l][Len(order'[l])] = d
        /\ \A m \in HandlerLists \ {l} : order'[m] = order[m]
    <3>1. PICK s \in Seq(Deliveries) : s = order[l]
      BY <1>0
    <3>2. order'[l] = Append(s, d)
      BY <1>0, <2>3, <3>1
    <3>3. /\ Len(s) \in Nat /\ Len(Append(s, d)) = Len(s) + 1
          /\ Append(s, d)[Len(s) + 1] = d
      BY AppendShape
    <3> QED  BY <1>0, <2>3, <3>2, <3>3
  <2>6. \A e \in Conns : e > conns' => receiving'[e] = "none"
    BY <1>0, <1>1, <2>3
  <2>7. ASSUME NEW e \in Conns, NEW m \in HandlerLists, turn'[m] = e
        PROVE  Holds(e, m)'
    <3>1. CASE m = l
      <4>1. e = c /\ receiving'[c] = "call"
        BY <1>0, <2>3, <2>7, <3>1
      <4> QED  BY <2>1, <2>2, <2>3, <2>4, <2>5, <3>1, <4>1 DEF Holds
    <3>2. CASE m # l
      <4>1. Holds(e, m)
        BY <1>0, <1>1, <2>3, <2>7, <3>2
      <4>2. e # c
        BY <2>3, <4>1 DEF Holds
      <4> QED  BY <1>0, <2>3, <2>4, <2>5, <3>2, <4>1, <4>2 DEF Holds
    <3> QED  BY <3>1, <3>2
  <2>8. ASSUME NEW e \in Conns, NEW m \in HandlerLists,
               receiving'[e] = "call", ListOf(e)' = m
        PROVE  turn'[m] = e
    <3>1. CASE e = c
      BY <1>0, <2>1, <2>3, <2>4, <2>8, <3>1
    <3>2. CASE e # c
      <4>1. turn[m] = e
        BY <1>0, <1>1, <2>3, <2>4, <2>8, <3>2
      <4>2. m # l
        BY <1>0, <2>3, <4>1
      <4> QED  BY <1>0, <2>3, <4>1, <4>2
    <3> QED  BY <3>1, <3>2
  <2> QED  BY <2>6, <2>7, <2>8 DEF LockInv
<1>7. ASSUME NEW c \in Conns, EndCalls(c)
      PROVE  LockInv'
  <2>1. PICK l \in HandlerLists : l = ListOf(c)
    BY <1>0, <1>7 DEF EndCalls, ReceiverTypes, ListOf
  <2>2. /\ receiving[c] = "call" /\ turn' = [turn EXCEPT ![l] = 0]
        /\ receiving' = [receiving EXCEPT ![c] = "read"]
        /\ hand' = [hand EXCEPT ![c] = 0]
        /\ UNCHANGED <<conns, order, frames>>
    BY <1>7, <2>1 DEF EndCalls
  <2>3. \A e \in Conns \ {c} : /\ hand'[e] = hand[e]
                               /\ receiving'[e] = receiving[e]
                               /\ ListOf(e)' = ListOf(e)
    BY <1>0, <2>2 DEF ListOf
  <2>4. turn[l] = c
    BY <1>1, <2>1, <2>2
  <2>5. \A e \in Conns : e > conns' => receiving'[e] = "none"
    BY <1>0, <1>1, <2>2
  <2>6. ASSUME NEW e \in Conns, NEW m \in HandlerLists, turn'[m] = e
        PROVE  Holds(e, m)'
    <3>1. m # l /\ turn[m] = e
      BY <1>0, <2>2, <2>6
    <3>2. Holds(e, m) /\ e # c
      BY <1>1, <2>1, <3>1 DEF Holds
    <3> QED  BY <2>2, <2>3, <3>2 DEF Holds
  <2>7. ASSUME NEW e \in Conns, NEW m \in HandlerLists,
               receiving'[e] = "call", ListOf(e)' = m
        PROVE  turn'[m] = e
    <3>1. e # c
      BY <1>0, <2>2, <2>7
    <3>2. turn[m] = e
      BY <1>1, <2>3, <2>7, <3>1
    <3> QED  BY <1>0, <2>2, <2>4, <3>1, <3>2
  <2> QED  BY <2>5, <2>6, <2>7 DEF LockInv
<1>8. \/ UNCHANGED <<turn, order, conns, receiving, hand>>
      \/ Connect
      \/ \E c \in Conns : \/ ReadFrame(c) \/ EndReading(c) \/ LockHandlers(c)
                          \/ EndCalls(c)
  BY DEF SdkNext, SignIn, SendUpdate, Beat, Queue, WriteFrame, AddHandler,
         ReceiveMessage, PushHandler, CallHandler, ServerSends, LinkBreaks,
         PeerStalls, PeerReads, LinkTurns, sdkVars, handlerVars, receiveVars
<1> QED  BY <1>3, <1>4, <1>5, <1>6, <1>7, <1>8

\* The handler at place k of a list has been called, in order, for all that
\* the lock was taken for since it was pushed; but for the last of these as
\* long as its turn is still to come.
UpTo(h, l, k) ==
    /\ turn[l] # 0 /\ k > called[l] =>
          from[h] + Len(calls[h]) + 1 = Len(order[l])
    /\ ~(turn[l] # 0 /\ k > called[l]) =>
          from[h] + Len(calls[h]) = Len(order[l])
    /\ \A i \in 1 .. Len(calls[h]) : calls[h][i] = order[l][from[h] + i]

CalledInv ==
    /\ \A h \in Handlers :
          (\A l \in HandlerLists : \A k \in 1 .. Len(handlers[l]) :
              handlers[l][k] # h) => Len(calls[h]) = 0
    /\ \A l \in HandlerLists, h \in Handlers :
          \A k \in 1 .. Len(handlers[l]) : handlers[l][k] = h => UpTo(h, l, k)

LEMMA CalledStart == SdkInit => CalledInv
<1> SUFFICES ASSUME SdkInit PROVE CalledInv
  OBVIOUS
<1>1. /\ Len(<<>>) = 0
      /\ \A h \in Handlers : Len(calls[h]) = 0
      /\ \A l \in HandlerLists : Len(handlers[l]) = 0
  BY EmptySeq DEF SdkInit
<1> QED  BY <1>1 DEF CalledInv

LEMMA CalledStep ==
    ASSUME SdkTypeInv, LockInv, CalledInv, [SdkNext]_sdkVars
    PROVE  CalledInv'
<1>0. /\ ReceiverTypes /\ HandlerTypes
      /\ registering \subseteq Handlers
      /\ handlers \in [HandlerLists -> Seq(Handlers)]
      /\ turn \in [HandlerLists -> {0} \cup Conns]
      /\ called \in [HandlerLists -> Nat]
      /\ order \in [HandlerLists -> Seq(Deliveries)]
      /\ from \in [Handlers -> Nat] /\ calls \in [Handlers -> Seq(Deliveries)]
      /\ \A c \in Conns : c # 0
  BY SdkAssumption DEF SdkTypeInv, HandlerTypes, OrderTypes, Conns
<1>u. \A l \in HandlerLists : \A k \in 1 .. Len(handlers[l]) :
         /\ handlers[l][k] \in Handlers
         /\ HandledKind[handlers[l][k]] = l
         /\ handlers[l][k] \notin registering
  BY <1>0 DEF HandlerTypes
<1>1. /\ \A h \in Handlers :
            (\A l \in HandlerLists : \A k \in 1 .. Len(handlers[l]) :
                handlers[l][k] # h) => Len(calls[h]) = 0
      /\ \A l \in HandlerLists, h \in Handlers :
            \A k \in 1 .. Len(handlers[l]) :
               handlers[l][k] = h => UpTo(h, l, k)
  BY DEF CalledInv
<1>p. ASSUME NEW l \in HandlerLists, NEW h \in Handlers,
             NEW k \in 1 .. Len(handlers[l]), handlers[l][k] = h
      PROVE  UpTo(h, l, k)
  BY <1>1, <1>p, Zenon
<1>2. CASE UNCHANGED <<handlers, turn, called, order, from, calls>>
  BY SMTT(30), <1>1, <1>2 DEF CalledInv, UpTo
<1>3. ASSUME NEW g \in Handlers, PushHandler(g)
      PROVE  CalledInv'
  <2>1. PICK l0 \in HandlerLists : l0 = HandledKind[g]
    BY SdkAssumption
  <2>2. PICK s \in Seq(Handlers) : s = handlers[l0]
    BY <1>0
  <2>3. PICK t \in Seq(Handlers) : t = Append(s, g)
    BY AppendShape
  <2>4. /\ Len(s) \in Nat /\ Len(t) = Len(s) + 1 /\ t[Len(s) + 1] = g
        /\ \A k \in 1 .. Len(s) : t[k] = s[k]
    BY <2>3, AppendShape
  <2>5. PICK n \in Nat : n = Len(order[l0])
    BY <1>0
  <2>6. /\ g \in registering /\ turn[l0] = 0
        /\ handlers' = [handlers EXCEPT ![l0] = t]
        /\ from' = [from EXCEPT ![g] = n]
        /\ UNCHANGED <<turn, called, order, calls>>
    BY <1>3, <2>1, <2>2, <2>3, <2>5 DEF PushHandler
  <2>7. \A l \in HandlerLists : \A k \in 1 .. Len(handlers[l]) :
           handlers[l][k] # g
    BY <1>u, <2>6
  <2>8. Len(calls[g]) = 0
    BY <1>1, <2>7
  <2>9. handlers'[l0] = t /\ \A l \in HandlerLists \ {l0} :
                                handlers'[l] = handlers[l]
    BY <1>0, <2>6
  <2>10. \A l \in HandlerLists : \A k \in 1 .. Len(handlers[l]) :
            k \in 1 .. Len(handlers'[l]) /\ handlers'[l][k] = handlers[l][k]
    BY <2>2, <2>4, <2>9
  <2>11. ASSUME NEW h \in Handlers,
                \A l \in HandlerLists : \A k \in 1 .. Len(handlers'[l]) :
                   handlers'[l][k] # h
         PROVE  Len(calls'[h]) = 0
    <3>1. \A l \in HandlerLists : \A k \in 1 .. Len(handlers[l]) :
             handlers[l][k] # h
      BY <2>10, <2>11
    <3> QED  BY <1>1, <2>6, <3>1
  <2>12. ASSUME NEW l \in HandlerLists, NEW h \in Handlers,
                NEW k \in 1 .. Len(handlers'[l]), handlers'[l][k] = h
         PROVE  UpTo(h, l, k)'
    <3>1. CASE k \in 1 .. Len(handlers[l])
      <4>1. handlers[l][k] = h
        BY <2>10, <2>12, <3>1
      <4>2. UpTo(h, l, k) /\ h # g
        BY <1>1, <2>7, <3>1, <4>1
      <4>3. from'[h] = from[h]
        BY <1>0, <2>6, <4>2
      <4> QED  BY <2>6, <4>2, <4>3 DEF UpTo
    <3>2. CASE k \notin 1 .. Len(handlers[l])
      <4>1. l = l0 /\ k = Len(s) + 1
        BY <2>2, <2>4, <2>9, <2>12, <3>2
      <4>2. h = g /\ from'[g] = n
        BY <1>0, <2>4, <2>6, <2>9, <2>12, <4>1
      <4> QED  BY <2>5, <2>6, <2>8, <4>1, <4>2 DEF UpTo
    <3> QED  BY <3>1, <3>2
  <2> QED  BY <2>11, <2>12 DEF CalledInv
<1>4. ASSUME NEW c \in Conns, LockHandlers(c)
      PROVE  CalledInv'
  <2>1. PICK l0 \in HandlerLists : l0 = ListOf(c)
    BY <1>0, <1>4 DEF LockHandlers, MayCall, ReceiverTypes, ListOf
  <2>2. PICK d \in Deliveries : d = <<c, hand[c]>>
    BY <1>0, <1>4 DEF LockHandlers, MayCall, ReceiverTypes, Deliveries
  <2>3. PICK s \in Seq(Deliveries) : s = order[l0]
    BY <1>0
  <2>4. PICK t \in Seq(Deliveries) : t = Append(s, d)
    BY AppendShape
  <2>5. /\ Len(s) \in Nat /\ Len(t) = Len(s) + 1
        /\ \A k \in 1 .. Len(s) : t[k] = s[k]
    BY <2>4, AppendShape
  <2>6. /\ turn[l0] = 0 /\ turn' = [turn EXCEPT ![l0] = c]
        /\ called' = [called EXCEPT ![l0] = 0]
        /\ order' = [order EXCEPT ![l0] = t]
        /\ UNCHANGED <<handlers, from, calls>>
    BY <1>4, <2>1, <2>2, <2>3, <2>4 DEF LockHandlers, MayCall
  <2>7. /\ turn'[l0] = c /\ called'[l0] = 0 /\ order'[l0] = t
        /\ \A l \in HandlerLists \ {l0} :
              turn'[l] = turn[l] /\ called'[l] = called[l]
              /\ order'[l] = order[l]
    BY <1>0, <2>6
  <2>8. ASSUME NEW l \in HandlerLists, NEW h \in Handlers,
               NEW k \in 1 .. Len(handlers[l]), handlers[l][k] = h
        PROVE  UpTo(h, l, k)'
    <3>1. UpTo(h, l, k)
      BY <1>p, <2>8, Zenon
    <3>2. CASE l # l0
      <4>1. /\ turn'[l] = turn[l] /\ called'[l] = called[l]
            /\ order'[l] = order[l]
        BY <2>7, <3>2
      <4>2. from'[h] = from[h] /\ calls'[h] = calls[h]
        BY <2>6
      <4> QED  BY <3>1, <4>1, <4>2, Zenon DEF UpTo
    <3>3. CASE l = l0
      <4>1. PICK n \in Nat : n = Len(calls[h])
        BY <1>0
      <4>2. /\ from[h] \in Nat /\ from[h] + n = Len(s)
            /\ \A i \in 1 .. n : calls[h][i] = s[from[h] + i]
        <5>1. from[h] \in Nat
          BY <1>0
        <5>2. from[h] + Len(calls[h]) = Len(order[l])
          BY <2>6, <3>1, <3>3 DEF UpTo
        <5>3. \A i \in 1 .. Len(calls[h]) :
                 calls[h][i] = order[l][from[h] + i]
          BY <3>1, Zenon DEF UpTo
        <5>4. order[l] = s
          BY <2>3, <3>3
        <5> QED  BY <4>1, <5>1, <5>2, <5>3, <5>4
      <4>3. /\ from[h] + n + 1 = Len(t)
            /\ \A i \in 1 .. n : calls[h][i] = t[from[h] + i]
        <5>1. from[h] + n + 1 = Len(t)
          BY <2>5, <4>2
        <5>2. ASSUME NEW i \in 1 .. n
              PROVE  calls[h][i] = t[from[h] + i]
          <6>1. from[h] + i \in 1 .. Len(s)
            BY <2>5, <4>2
          <6>2. calls[h][i] = s[from[h] + i]
            BY <4>2
          <6> QED  BY <2>5, <6>1, <6>2
        <5> QED  BY <5>1, <5>2
      <4>4. turn'[l] # 0 /\ k > called'[l]
        BY <1>0, <2>7, <2>8, <3>3
      <4> QED  BY <2>6, <2>7, <3>3, <4>1, <4>3, <4>4 DEF UpTo
    <3> QED  BY <3>2, <3>3
  <2> QED  BY <1>1, <2>6, <2>8 DEF CalledInv
<1>5. ASSUME NEW c \in Conns, CallHandler(c)
      PROVE  CalledInv'
  <2>1. PICK l0 \in HandlerLists : l0 = ListOf(c)
    BY <1>0, <1>5 DEF CallHandler, ReceiverTypes, ListOf
  <2>2. PICK d \in Deliveries : d = <<c, hand[c]>>
    BY <1>0, <1>5 DEF CallHandler, ReceiverTypes, Deliveries
  <2>3. PICK p \in Nat : p = called[l0] + 1
    BY <1>0
  <2>4. receiving[c] = "call" /\ p =< Len(handlers[l0])
    BY <1>5, <2>1, <2>3 DEF CallHandler
  <2>5. p \in 1 .. Len(handlers[l0]) /\ called[l0] \in Nat
    BY <1>0, <2>3, <2>4
  <2>6. PICK g \in Handlers : g = handlers[l0][p]
    BY <1>u, <2>5
  <2>7. PICK t \in Seq(Deliveries) : t = Append(calls[g], d)
    BY <1>0, AppendShape
  <2>8. /\ called' = [called EXCEPT ![l0] = p]
        /\ calls' = [calls EXCEPT ![g] = t]
        /\ UNCHANGED <<handlers, turn, order, from>>
    BY <1>5, <2>1, <2>2, <2>3, <2>6, <2>7 DEF CallHandler
  <2>9. /\ turn[l0] = c /\ turn[l0] # 0
        /\ Len(order[l0]) > 0 /\ order[l0][Len(order[l0])] = d
    BY <1>0, <2>1, <2>2, <2>4 DEF LockInv, Holds
  <2>10. UpTo(g, l0, p)
    BY <1>1, <2>5, <2>6
  <2>11. PICK n \in Nat : n = Len(calls[g])
    BY <1>0
  <2>12. /\ from[g] \in Nat /\ from[g] + n + 1 = Len(order[l0])
         /\ \A i \in 1 .. n : calls[g][i] = order[l0][from[g] + i]
    BY <1>0, <2>3, <2>5, <2>9, <2>10, <2>11 DEF UpTo
  <2>13. /\ Len(t) = n + 1 /\ t[n + 1] = d
         /\ \A i \in 1 .. n : t[i] = calls[g][i]
    <3>1. PICK q \in Seq(Deliveries) : q = calls[g]
      BY <1>0
    <3>2. /\ Len(Append(q, d)) = Len(q) + 1
          /\ Append(q, d)[Len(q) + 1] = d
          /\ \A i \in 1 .. Len(q) : Append(q, d)[i] = q[i]
      BY AppendShape
    <3> QED  BY <2>7, <2>11, <3>1, <3>2
  <2>14. /\ from[g] + Len(t) = Len(order[l0])
         /\ \A i \in 1 .. Len(t) : t[i] = order[l0][from[g] + i]
    <3>1. order[l0][from[g] + (n + 1)] = d
      BY <2>9, <2>12
    <3>2. \A i \in 1 .. n + 1 : i \in 1 .. n \/ i = n + 1
      OBVIOUS
    <3> QED  BY <2>12, <2>13, <3>1, <3>2
  <2>15. ASSUME NEW h \in Handlers,
                \A l \in HandlerLists : \A k \in 1 .. Len(handlers[l]) :
                   handlers[l][k] # h
         PROVE  Len(calls'[h]) = 0
    <3>1. h # g
      BY <2>5, <2>6, <2>15
    <3> QED  BY <1>0, <1>1, <2>8, <2>15, <3>1
  <2>16. ASSUME NEW l \in HandlerLists, NEW h \in Handlers,
                NEW k \in 1 .. Len(handlers[l]), handlers[l][k] = h
         PROVE  UpTo(h, l, k)'
    <3>1. UpTo(h, l, k)
      BY <1>1, <2>16
    <3>2. CASE h = g
      <4>1. l = l0
        BY <1>u, <2>5, <2>6, <2>16, <3>2
      <4>2. k = p
        BY <1>0, <2>5, <2>6, <2>16, <3>2, <4>1 DEF HandlerTypes
      <4>3. calls'[g] = t /\ called'[l0] = p
        BY <1>0, <2>8
      <4>4. ~(k > called'[l0])
        BY <4>2, <4>3
      <4> QED  BY <2>8, <2>14, <3>2, <4>1, <4>3, <4>4 DEF UpTo
    <3>3. CASE h # g
      <4>1. calls'[h] = calls[h]
        BY <1>0, <2>8, <3>3
      <4>2. CASE l # l0
        <5>1. called'[l] = called[l]
          BY <1>0, <2>8, <4>2
        <5> QED  BY <2>8, <3>1, <4>1, <5>1 DEF UpTo
      <4>3. CASE l = l0
        <5>1. k # p /\ called'[l] = called[l] + 1 /\ called[l] \in Nat
          BY <1>0, <2>3, <2>6, <2>8, <2>16, <3>3, <4>3
        <5>2. k > called'[l] <=> k > called[l]
          BY <2>3, <4>3, <5>1
        <5> QED  BY <2>8, <3>1, <4>1, <5>2 DEF UpTo
      <4> QED  BY <4>2, <4>3
    <3> QED  BY <3>2, <3>3
  <2> QED  BY <2>8, <2>15, <2>16 DEF CalledInv
<1>6. ASSUME NEW c \in Conns, EndCalls(c)
      PROVE  CalledInv'
  <2>1. PICK l0 \in HandlerLists : l0 = ListOf(c)
    BY <1>0, <1>6 DEF EndCalls, ReceiverTypes, ListOf
  <2>2. /\ called[l0] = Len(handlers[l0])
        /\ turn' = [turn EXCEPT ![l0] = 0]
        /\ UNCHANGED <<handlers, called, order, from, calls>>
    BY <1>6, <2>1 DEF EndCalls
  <2>3. ASSUME NEW l \in HandlerLists, NEW h \in Handlers,
               NEW k \in 1 .. Len(handlers[l]), handlers[l][k] = h
        PROVE  UpTo(h, l, k)'
    <3>1. UpTo(h, l, k)
      BY <1>1, <2>3
    <3>2. CASE l # l0
      <4>1. turn'[l] = turn[l]
        BY <1>0, <2>2, <3>2
      <4> QED  BY <2>2, <3>1, <4>1 DEF UpTo
    <3>3. CASE l = l0
      <4>1. ~(k > called[l]) /\ turn'[l] = 0
        BY <1>0, <2>2, <3>3
      <4> QED  BY <2>2, <3>1, <4>1 DEF UpTo
    <3> QED  BY <3>2, <3>3
  <2> QED  BY <1>1, <2>2, <2>3 DEF CalledInv
<1>7. \/ UNCHANGED <<handlers, turn, called, order, from, calls>>
      \/ \E h \in Handlers : PushHandler(h)
      \/ \E c \in Conns : LockHandlers(c) \/ CallHandler(c) \/ EndCalls(c)
  BY DEF SdkNext, SignIn, Connect, SendUpdate, Beat, Queue, WriteFrame,
         ReceiveMessage, ReadFrame, AddHandler, EndReading,
         ServerSends, LinkBreaks, PeerStalls, PeerReads, LinkTurns, sdkVars,
         handlerVars
<1> QED  BY <1>2, <1>3, <1>4, <1>5, <1>6, <1>7

\* What is left of a sequence after its first f elements, and how a sequence
\* starts.
LEMMA RestOf ==
    ASSUME NEW S, NEW s \in Seq(S), NEW f \in Nat, f =< Len(s)
    PROVE  /\ SubSeq(s, f + 1, Len(s)) \in Seq(S)
           /\ Len(SubSeq(s, f + 1, Len(s))) = Len(s) - f
           /\ \A i \in 1 .. Len(s) - f :
                 SubSeq(s, f + 1, Len(s))[i] = s[f + i]
<1>1. PICK n \in Nat : n = Len(s)
  OBVIOUS
<1>2. \A i \in f + 1 .. n : s[i] \in S
  BY <1>1
<1>3. f + 1 \in Int /\ n \in Int
  OBVIOUS
<1>4. /\ SubSeq(s, f + 1, n) \in Seq(S)
      /\ Len(SubSeq(s, f + 1, n)) = IF f + 1 =< n THEN n - (f + 1) + 1 ELSE 0
      /\ \A i \in 1 .. n - (f + 1) + 1 :
            SubSeq(s, f + 1, n)[i] = s[f + 1 + i - 1]
  BY <1>2, <1>3, SubSeqProperties
<1>5. PICK rest : rest = SubSeq(s, f + 1, n)
  OBVIOUS
<1>6. Len(rest) = n - f
  BY <1>1, <1>4, <1>5
<1>7. ASSUME NEW i \in 1 .. n - f
      PROVE  rest[i] = s[f + i]
  <2>1. i \in 1 .. n - (f + 1) + 1 /\ f + 1 + i - 1 = f + i
    BY <1>1
  <2> QED  BY <1>4, <1>5, <2>1
<1> QED  BY <1>1, <1>4, <1>5, <1>6, <1>7

LEMMA StartOf ==
    ASSUME NEW S, NEW s \in Seq(S), NEW t \in Seq(S), Len(s) =< Len(t),
           \A i \in 1 .. Len(s) : t[i] = s[i]
    PROVE  s = SubSeq(t, 1, Len(s))
<1>1. PICK n \in Nat : n = Len(s)
  OBVIOUS
<1>2. \A i \in 1 .. n : t[i] \in S
  BY <1>1
<1>3. 1 \in Int /\ n \in Int
  OBVIOUS
<1>4. /\ SubSeq(t, 1, n) \in Seq(S)
      /\ Len(SubSeq(t, 1, n)) = IF 1 =< n THEN n - 1 + 1 ELSE 0
      /\ \A i \in 1 .. n - 1 + 1 : SubSeq(t, 1, n)[i] = t[1 + i - 1]
  BY <1>2, <1>3, SubSeqProperties
<1>5. PICK cut \in Seq(S) : cut = SubSeq(t, 1, n)
  BY <1>4
<1>6. Len(cut) = n
  BY <1>4, <1>5
<1>7. ASSUME NEW i \in 1 .. n
      PROVE  cut[i] = s[i]
  <2>1. i \in 1 .. n - 1 + 1 /\ 1 + i - 1 = i
    OBVIOUS
  <2> QED  BY <1>1, <1>4, <1>5, <2>1
<1>8. cut = s
  BY <1>1, <1>6, <1>7, SeqEqual
<1> QED  BY <1>1, <1>5, <1>8

\* All handlers of a kind are called for the same frames in the same order,
\* and none is passed over, whichever connections the frames came from and
\* however pushing a handler interleaves with their receiver tasks.
THEOREM HandlersCalledInOrder == SdkSpec => []HandlersAgree
<1>1. SdkTypeInv /\ CalledInv => HandlersAgree
  <2> SUFFICES ASSUME SdkTypeInv, CalledInv, NEW l \in HandlerLists,
                      NEW k \in DOMAIN handlers[l]
               PROVE  LET h == handlers[l][k]
                          due == SubSeq(order[l], from[h] + 1, Len(order[l]))
                      IN  Starts(calls[h], due)
                          /\ Len(due) =< Len(calls[h]) + 1
    BY DEF HandlersAgree
  <2>0. /\ handlers[l] \in Seq(Handlers) /\ order[l] \in Seq(Deliveries)
        /\ from \in [Handlers -> Nat]
        /\ calls \in [Handlers -> Seq(Deliveries)]
    BY DEF SdkTypeInv, HandlerTypes, OrderTypes
  <2>k. k \in 1 .. Len(handlers[l])
    BY <2>0, LenProperties
  <2>1. PICK h \in Handlers : h = handlers[l][k] /\ k \in 1 .. Len(handlers[l])
    <3>1. handlers[l][k] \in Handlers
      BY <2>0, <2>k, ElementOfSeq
    <3> QED  BY <2>k, <3>1
  <2>2. UpTo(h, l, k)
    BY <2>1 DEF CalledInv
  <2>3. PICK s \in Seq(Deliveries) : s = order[l]
    BY <2>0
  <2>4. PICK got2 \in Seq(Deliveries) : got2 = calls[h]
    BY <2>0
  <2>5. PICK f \in Nat : f = from[h]
    BY <2>0
  <2>6. /\ Len(s) \in Nat /\ Len(got2) \in Nat
        /\ f + Len(got2) = Len(s) \/ f + Len(got2) + 1 = Len(s)
        /\ \A i \in 1 .. Len(got2) : got2[i] = s[f + i]
    BY <2>2, <2>3, <2>4, <2>5 DEF UpTo
  <2>7. PICK due : due = SubSeq(s, f + 1, Len(s))
    OBVIOUS
  <2>8. due \in Seq(Deliveries) /\ Len(due) = Len(s) - f
    BY <2>6, <2>7, RestOf
  <2>9. got2 = SubSeq(due, 1, Len(got2))
    <3>1. \A i \in 1 .. Len(got2) : due[i] = got2[i]
      BY <2>6, <2>7, RestOf
    <3>2. Len(got2) =< Len(due)
      BY <2>6, <2>8
    <3> QED  BY <2>8, <3>1, <3>2, StartOf
  <2>10. Len(got2) =< Len(due) /\ Len(due) =< Len(got2) + 1
    BY <2>6, <2>8
  <2> QED  BY <2>1, <2>3, <2>4, <2>5, <2>7, <2>9, <2>10 DEF Starts
<1>2. SdkSpec => [](LockInv /\ CalledInv)
  BY SdkTyped, LockStart, LockStep, CalledStart, CalledStep, PTL DEF SdkSpec
<1> QED  BY <1>1, <1>2, SdkTyped, PTL

----------------------------------------------------------------------------
(* The SDK's client: what receive_message returns.                         *)

\* Connection c has read the frames up to b, and what it reads next follows.
\* The frame b may still be in the hands of its receiver task; it is through
\* with those up to d.
Reading(c, d, b) ==
    /\ since[c] =< b /\ b =< Len(frames)
    /\ hand[c] = 0 => d = b
    /\ hand[c] # 0 => b = d + 1 /\ hand[c] = b
    /\ receiving[c] \in {"wait", "call"} <=> hand[c] # 0
    /\ \A k \in 1 .. Len(arriving[c]) : arriving[c][k] = b + k
    /\ Live(link[c]) => b + Len(arriving[c]) = Len(frames)

\* Of the frames up to d, receive_message has returned those it is for, or
\* they are in the inbox, in order and after all that was returned.
Handed(c, d) ==
    /\ \A i \in since[c] + 1 .. d : ForApp(i) =>
          \/ \E k \in 1 .. Len(taken) : taken[k] = <<c, i>>
          \/ \E k \in 1 .. Len(inbox[c]) : inbox[c][k] = i
    /\ \A k \in 1 .. Len(inbox[c]) : inbox[c][k] =< d
    /\ \A j, k \in 1 .. Len(inbox[c]) : j < k => inbox[c][j] < inbox[c][k]
    /\ \A j \in 1 .. Len(taken) : taken[j][1] = c =>
          /\ taken[j][2] =< d
          /\ \A k \in 1 .. Len(inbox[c]) : taken[j][2] < inbox[c][k]

NewestInv ==
    \A c \in Conns : c = conns =>
       \E d, b \in Nat : Reading(c, d, b) /\ Handed(c, d)

UnmadeInv ==
    \A c \in Conns : c > conns =>
       link[c] = "none" /\ Len(arriving[c]) = 0 /\ hand[c] = 0

\* One entry of what was returned.
TakenWell(j) ==
    LET c == taken[j][1]
        f == taken[j][2]
    IN  /\ c =< conns
        /\ \A i \in since[c] + 1 .. f - 1 :
              ForApp(i) => \E k \in 1 .. j - 1 : taken[k] = <<c, i>>
        /\ \A k \in 1 .. j - 1 : taken[k] # taken[j] /\ taken[k][1] =< c

TakenInv == \A j \in 1 .. Len(taken) : TakenWell(j)

LEMMA ReceiveStart == SdkInit => UnmadeInv /\ NewestInv /\ TakenInv
<1> SUFFICES ASSUME SdkInit PROVE UnmadeInv /\ NewestInv /\ TakenInv
  OBVIOUS
<1>1. /\ Len(<<>>) = 0 /\ conns = 0 /\ Len(taken) = 0
      /\ \A c \in Conns : /\ c # 0 /\ link[c] = "none" /\ hand[c] = 0
                          /\ arriving[c] = <<>>
  BY SdkAssumption, EmptySeq DEF SdkInit, Conns
<1> QED  BY <1>1 DEF UnmadeInv, NewestInv, TakenInv

LEMMA UnmadeStep ==
    ASSUME SdkTypeInv, UnmadeInv, LockInv, [SdkNext]_sdkVars
    PROVE  UnmadeInv'
<1>0. /\ conns \in Nat /\ \A c \in Conns : c \in Nat \ {0}
      /\ link \in [Conns -> {"none", "up", "stalled", "down"}]
      /\ arriving \in [Conns -> Seq(Frames)]
      /\ receiving \in [Conns -> {"none", "read", "wait", "call", "ended"}]
      /\ hand \in [Conns -> {0} \cup Frames]
  BY SdkAssumption DEF SdkTypeInv, LinkTypes, ReceiverTypes, Conns
<1>1. \A c \in Conns : c > conns =>
         /\ link[c] = "none" /\ Len(arriving[c]) = 0 /\ hand[c] = 0
         /\ receiving[c] = "none"
  BY DEF UnmadeInv, LockInv
<1>2. CASE UNCHANGED <<conns, link, arriving, hand>>
  BY <1>2 DEF UnmadeInv
<1>3. CASE Connect
  <2>1. /\ conns' = conns + 1 /\ UNCHANGED <<arriving, hand>>
        /\ link' = [link EXCEPT ![conns + 1] = "up"]
    BY <1>3 DEF Connect
  <2> QED  BY <1>0, <1>1, <2>1 DEF UnmadeInv
<1>4. ASSUME NEW c \in Conns,
             ReadFrame(c) \/ EndCalls(c) \/ EndReading(c) \/ LinkMoves(c)
      PROVE  UnmadeInv'
  <2>1. receiving[c] # "none" \/ link[c] # "none"
    BY <1>4, LinkShape
       DEF ReadFrame, EndCalls, EndReading, Live, SdkTypeInv
  <2>2. ~(c > conns)
    BY <1>1, <2>1
  <2>3. /\ UNCHANGED conns
        /\ \A d \in Conns \ {c} : /\ link'[d] = link[d]
                                  /\ arriving'[d] = arriving[d]
                                  /\ hand'[d] = hand[d]
    <3>1. CASE LinkMoves(c)
      BY <1>0, <3>1, LinkShape DEF receiveVars, SdkTypeInv
    <3>2. CASE ReadFrame(c) \/ EndCalls(c) \/ EndReading(c)
      BY <1>0, <3>2 DEF ReadFrame, EndCalls, EndReading, receiveVars
    <3> QED  BY <1>4, <3>1, <3>2
  <2> QED  BY <2>2, <2>3 DEF UnmadeInv
<1>5. ASSUME NEW kind \in Kinds, ServerSends(kind)
      PROVE  UnmadeInv'
  <2>1. /\ UNCHANGED <<conns, link, hand>>
        /\ arriving' = [c \in Conns |->
              IF Linked(c) THEN Append(arriving[c], Len(frames) + 1)
                           ELSE arriving[c]]
    BY <1>5 DEF ServerSends
  <2> QED  BY <1>1, <2>1 DEF UnmadeInv, Linked
<1>6. \/ UNCHANGED <<conns, link, arriving, hand>>
      \/ Connect
      \/ \E c \in Conns : ReadFrame(c) \/ EndCalls(c) \/ EndReading(c)
                          \/ LinkMoves(c)
      \/ \E kind \in Kinds : ServerSends(kind)
  BY DEF SdkNext, SignIn, SendUpdate, Beat, Queue, WriteFrame, AddHandler,
         ReceiveMessage, PushHandler, CallHandler, LockHandlers, LinkMoves,
         sdkVars, handlerVars, receiveVars
<1> QED  BY <1>2, <1>3, <1>4, <1>5, <1>6

\* What was returned stays well; a frame that is returned now is the oldest
\* of the inbox.
LEMMA TakenStep ==
    ASSUME SdkTypeInv, NewestInv, TakenInv, [SdkNext]_sdkVars
    PROVE  TakenInv'
<1>0. /\ conns \in Nat /\ \A c \in Conns : c \in Nat \ {0}
      /\ since \in [Conns -> {0} \cup Frames] /\ Len(frames) \in Nat
      /\ inbox \in [Conns -> Seq(Frames)] /\ taken \in Seq(Deliveries)
      /\ LinkTypes /\ Len(taken) \in Nat
  BY SdkAssumption DEF SdkTypeInv, LinkTypes, ReceiverTypes, Conns
<1>1. \A j \in 1 .. Len(taken) :
         taken[j] \in Deliveries /\ taken[j][1] \in Conns
         /\ taken[j][2] \in Frames
         /\ taken[j] = <<taken[j][1], taken[j][2]>>
  <2>1. \A j \in 1 .. Len(taken) : taken[j] \in Deliveries
    BY <1>0
  <2> QED  BY <2>1 DEF Deliveries
\* Entries that were there.
<1>2. ASSUME NEW j \in 1 .. Len(taken), conns' \in Nat, conns =< conns',
             \A k \in 1 .. j : taken'[k] = taken[k],
             \A c \in Conns : c =< conns => since'[c] = since[c]
      PROVE  TakenWell(j)'
  <2>1. PICK c \in Conns, f \in Frames :
           c = taken[j][1] /\ f = taken[j][2]
    BY <1>1
  <2>2. /\ c =< conns
        /\ \A i \in since[c] + 1 .. f - 1 :
              ForApp(i) => \E k \in 1 .. j - 1 : taken[k] = <<c, i>>
        /\ \A k \in 1 .. j - 1 : taken[k] # taken[j] /\ taken[k][1] =< c
    BY <2>1 DEF TakenInv, TakenWell
  <2>3. /\ c = taken'[j][1] /\ f = taken'[j][2] /\ since'[c] = since[c]
        /\ taken'[j] = taken[j]
    BY <1>2, <2>1, <2>2
  <2>4. since[c] \in Nat /\ f \in Nat /\ f =< Len(frames)
    BY <1>0 DEF Frames
  <2>5. \A i \in since[c] + 1 .. f - 1 : ForApp(i)' => ForApp(i)
    <3>1. \A i \in since[c] + 1 .. f - 1 : i \in Frames
      BY <1>0, <2>4 DEF Frames
    <3> QED  BY <1>0, <3>1, FramesGrow DEF ForApp
  <2>6. \A k \in 1 .. j - 1 : k \in 1 .. j /\ taken'[k] = taken[k]
    BY <1>0, <1>2
  <2>7. /\ c =< conns'
        /\ \A i \in since'[c] + 1 .. f - 1 :
              ForApp(i)' => \E k \in 1 .. j - 1 : taken'[k] = <<c, i>>
    <3>1. c =< conns'
      BY <1>0, <1>2, <2>2
    <3> QED  BY ZenonT(30), <2>2, <2>3, <2>5, <2>6, <3>1
  <2>8. \A k \in 1 .. j - 1 : taken'[k] # taken'[j] /\ taken'[k][1] =< c
    BY <2>2, <2>3, <2>6
  <2> QED  BY <2>3, <2>7, <2>8 DEF TakenWell
<1>3. CASE ReceiveMessage
  <2>1. PICK c \in Conns : c = conns /\ inbox[c] # <<>>
    BY <1>0, <1>3, SdkAssumption DEF ReceiveMessage, SdkTypeInv, LinkTypes,
                                    Conns
  <2>2. PICK q \in Seq(Frames) : q = inbox[c]
    BY <1>0
  <2>3. PICK f \in Frames : f = Head(q) /\ f = q[1] /\ Len(q) \in Nat \ {0}
    BY <2>1, <2>2, TailShape
  <2>4. /\ taken' = Append(taken, <<c, f>>)
        /\ UNCHANGED <<conns, since, frames>>
    BY <1>3, <2>1, <2>2, <2>3 DEF ReceiveMessage
  <2>5. PICK n \in Nat : n = Len(taken) + 1
    BY <1>0
  <2>6. /\ Len(taken') = n /\ taken'[n] = <<c, f>>
        /\ \A k \in 1 .. Len(taken) : taken'[k] = taken[k]
    <3>1. <<c, f>> \in Deliveries
      BY DEF Deliveries
    <3> QED  BY <1>0, <2>4, <2>5, <3>1, AppendShape
  <2>7. PICK d \in Nat : Handed(c, d)
    BY <2>1 DEF NewestInv
  <2>8. /\ \A i \in since[c] + 1 .. d : ForApp(i) =>
              \/ \E k \in 1 .. Len(taken) : taken[k] = <<c, i>>
              \/ \E k \in 1 .. Len(q) : q[k] = i
        /\ \A k \in 1 .. Len(q) : q[k] =< d
        /\ \A j, k \in 1 .. Len(q) : j < k => q[j] < q[k]
        /\ \A j \in 1 .. Len(taken) : taken[j][1] = c =>
              \A k \in 1 .. Len(q) : taken[j][2] < q[k]
    BY <2>2, <2>7 DEF Handed
  <2>9. /\ 1 \in 1 .. Len(q) /\ f =< d /\ f \in Nat /\ since[c] \in Nat
        /\ \A k \in 1 .. Len(q) : ~(q[k] < f)
    <3>1. f \in Nat /\ since[c] \in Nat /\ \A k \in 1 .. Len(q) : q[k] \in Nat
      BY <1>0, <2>2 DEF Frames
    <3>2. 1 \in 1 .. Len(q) /\ q[1] =< d
      BY <2>3, <2>8
    <3>3. \A k \in 1 .. Len(q) : k = 1 \/ 1 < k
      BY <2>3
    <3> QED  BY <2>3, <2>8, <3>1, <3>2, <3>3
  <2>10. ASSUME NEW i \in since[c] + 1 .. f - 1, ForApp(i)
         PROVE  \E k \in 1 .. n - 1 : taken'[k] = <<c, i>>
    <3>1. i \in since[c] + 1 .. d /\ i < f
      BY <2>9
    <3>2. PICK k \in 1 .. Len(taken) : taken[k] = <<c, i>>
      BY <2>8, <2>9, <2>10, <3>1
    <3>3. k \in 1 .. n - 1
      BY <1>0, <2>5
    <3> QED  BY <2>6, <3>2, <3>3
  <2>11. ASSUME NEW k \in 1 .. n - 1
         PROVE  taken'[k] # <<c, f>> /\ taken'[k][1] =< c
    <3>1. k \in 1 .. Len(taken) /\ taken'[k] = taken[k]
      BY <1>0, <2>5, <2>6
    <3>2. taken[k][1] =< c
      BY <2>1, <3>1 DEF TakenInv, TakenWell
    <3>3. ASSUME taken[k] = <<c, f>> PROVE FALSE
      <4>1. taken[k][1] = c /\ taken[k][2] = f
        BY <3>3
      <4>2. f < q[1]
        BY <2>8, <2>9, <3>1, <4>1
      <4> QED  BY <2>3, <2>9, <4>2
    <3> QED  BY <3>1, <3>2, <3>3
  <2>12. TakenWell(n)'
    <3>1. taken'[n][1] = c /\ taken'[n][2] = f
      BY <2>6
    <3>2. \A i : ForApp(i)' <=> ForApp(i)
      BY <2>4 DEF ForApp
    <3>3. c =< conns'
      BY <1>0, <2>1, <2>4
    <3>4. \A i \in since'[c] + 1 .. f - 1 :
             ForApp(i)' => \E k \in 1 .. n - 1 : taken'[k] = <<c, i>>
      BY <2>4, <2>10, <3>2
    <3>5. \A k \in 1 .. n - 1 : taken'[k] # taken'[n] /\ taken'[k][1] =< c
      BY <2>6, <2>11
    <3> QED  BY <3>1, <3>3, <3>4, <3>5 DEF TakenWell
  <2>13. ASSUME NEW j \in 1 .. Len(taken')
         PROVE  TakenWell(j)'
    <3>1. CASE j = n
      BY <2>12, <3>1
    <3>2. CASE j # n
      <4>1. j \in 1 .. Len(taken)
        BY <1>0, <2>5, <2>6, <3>2
      <4>2. \A k \in 1 .. j : taken'[k] = taken[k]
        BY <1>0, <2>6, <4>1
      <4>3. conns' \in Nat /\ conns =< conns' /\ since' = since
        BY <1>0, <2>4
      <4> QED  BY <1>2, <4>1, <4>2, <4>3
    <3> QED  BY <3>1, <3>2
  <2> QED  BY <2>13 DEF TakenInv
<1>4. CASE ~ReceiveMessage
  <2>1. UNCHANGED taken
    BY <1>4
       DEF SdkNext, SignIn, Connect, SendUpdate, Beat, Queue, WriteFrame,
           AddHandler, PushHandler, ReadFrame, LockHandlers, CallHandler,
           EndCalls, EndReading, LinkBreaks, PeerStalls, PeerReads, LinkTurns,
           ServerSends, sdkVars, receiveVars
  <2>2. \/ UNCHANGED <<conns, since>>
        \/ conns' = conns + 1
           /\ since' = [since EXCEPT ![conns + 1] = Len(frames)]
    BY <1>4
       DEF SdkNext, SignIn, Connect, SendUpdate, Beat, Queue, WriteFrame,
           AddHandler, PushHandler, ReadFrame, LockHandlers, CallHandler,
           EndCalls, EndReading, LinkBreaks, PeerStalls, PeerReads, LinkTurns,
           ServerSends, sdkVars
  <2>3. /\ conns' \in Nat /\ conns =< conns'
        /\ \A c \in Conns : c =< conns => since'[c] = since[c]
    BY <1>0, <2>2
  <2> QED  BY <1>2, <2>1, <2>3 DEF TakenInv
<1> QED  BY <1>3, <1>4

\* How the newest connection moves: by nothing, by one frame or by what the
\* application takes.
LEMMA HandedKept ==
    ASSUME SdkTypeInv, [SdkNext]_sdkVars, NEW c \in Conns, NEW d \in Nat,
           Handed(c, d), d =< Len(frames),
           UNCHANGED taken, since'[c] = since[c], inbox'[c] = inbox[c]
    PROVE  Handed(c, d)'
<1>0. LinkTypes /\ since[c] \in Nat /\ Len(frames) \in Nat
  BY DEF SdkTypeInv, LinkTypes, Frames
<1>1. \A i \in since[c] + 1 .. d : ForApp(i)' => ForApp(i)
  <2>1. \A i \in since[c] + 1 .. d : i \in Frames
    BY <1>0 DEF Frames
  <2> QED  BY <1>0, <2>1, FramesGrow DEF ForApp
<1> QED  BY <1>1 DEF Handed

LEMMA HandedMore ==
    ASSUME SdkTypeInv, NEW c \in Conns, NEW d \in Nat, Handed(c, d),
           d + 1 \in Frames,
           UNCHANGED <<taken, frames>>, since'[c] = since[c],
           \/ inbox'[c] = Append(inbox[c], d + 1)
           \/ inbox'[c] = inbox[c] /\ ~ForApp(d + 1)
    PROVE  Handed(c, d + 1)'
<1>0. since[c] \in Nat /\ inbox[c] \in Seq(Frames)
      /\ \A i \in Frames : i \in Nat
  BY DEF SdkTypeInv, LinkTypes, ReceiverTypes, Frames
<1>1. PICK q \in Seq(Frames) : q = inbox[c]
  BY <1>0
<1>2. \A k \in 1 .. Len(q) : q[k] \in Nat
  BY <1>0, <1>1
<1>3. PICK r : r = inbox'[c]
  OBVIOUS
<1>4. /\ \A i \in since[c] + 1 .. d : ForApp(i) =>
            \/ \E k \in 1 .. Len(taken) : taken[k] = <<c, i>>
            \/ \E k \in 1 .. Len(q) : q[k] = i
      /\ \A k \in 1 .. Len(q) : q[k] =< d
      /\ \A j, k \in 1 .. Len(q) : j < k => q[j] < q[k]
      /\ \A j \in 1 .. Len(taken) : taken[j][1] = c =>
            /\ taken[j][2] =< d
            /\ \A k \in 1 .. Len(q) : taken[j][2] < q[k]
  BY <1>1 DEF Handed
<1>5. \A j \in 1 .. Len(taken) : taken[j][2] \in Nat
  <2>1. \A j \in 1 .. Len(taken) : taken[j] \in Conns \X Frames
    BY DEF SdkTypeInv, ReceiverTypes, Deliveries
  <2> QED  BY <1>0, <2>1
<1>6. \A i \in since[c] + 1 .. d + 1 : i \in since[c] + 1 .. d \/ i = d + 1
  BY <1>0
<1>7. CASE r = Append(q, d + 1)
  <2>1. /\ Len(q) \in Nat /\ Len(r) = Len(q) + 1 /\ r[Len(q) + 1] = d + 1
        /\ \A k \in 1 .. Len(q) : r[k] = q[k]
    BY <1>7, AppendShape
  <2>2. \A k \in 1 .. Len(r) : k \in 1 .. Len(q) \/ k = Len(q) + 1
    BY <2>1
  <2>3. /\ Len(q) + 1 \in 1 .. Len(r)
        /\ \A k \in 1 .. Len(q) : k \in 1 .. Len(r)
    BY <2>1
  <2>4. \A i \in since[c] + 1 .. d + 1 : ForApp(i) =>
           \/ \E k \in 1 .. Len(taken) : taken[k] = <<c, i>>
           \/ \E k \in 1 .. Len(r) : r[k] = i
    BY <1>4, <1>6, <2>1, <2>3
  <2>5. \A k \in 1 .. Len(r) : r[k] =< d + 1
    BY <1>2, <1>4, <2>1, <2>2
  <2>6. ASSUME NEW j \in 1 .. Len(r), NEW k \in 1 .. Len(r), j < k
        PROVE  r[j] < r[k]
    <3>1. j \in 1 .. Len(q)
      BY <2>1, <2>6
    <3>2. CASE k \in 1 .. Len(q)
      BY <1>4, <2>1, <2>6, <3>1, <3>2
    <3>3. CASE k = Len(q) + 1
      BY <1>2, <1>4, <2>1, <3>1, <3>3
    <3> QED  BY <2>2, <3>2, <3>3
  <2>7. ASSUME NEW j \in 1 .. Len(taken), taken[j][1] = c
        PROVE  /\ taken[j][2] =< d + 1
               /\ \A k \in 1 .. Len(r) : taken[j][2] < r[k]
    <3>1. /\ taken[j][2] =< d /\ taken[j][2] \in Nat
          /\ \A k \in 1 .. Len(q) : taken[j][2] < q[k]
      BY <1>4, <1>5, <2>7
    <3> QED  BY SMTT(30), <2>1, <2>2, <3>1
  <2> QED  BY <1>3, <2>4, <2>5, <2>6, <2>7 DEF Handed, ForApp
<1>8. CASE r = q /\ ~ForApp(d + 1)
  <2>1. \A i \in since[c] + 1 .. d + 1 : ForApp(i) =>
           \/ \E k \in 1 .. Len(taken) : taken[k] = <<c, i>>
           \/ \E k \in 1 .. Len(r) : r[k] = i
    BY <1>4, <1>6, <1>8
  <2>2. /\ \A k \in 1 .. Len(r) : r[k] =< d + 1
        /\ \A j \in 1 .. Len(taken) : taken[j][1] = c => taken[j][2] =< d + 1
    BY <1>2, <1>4, <1>5, <1>8
  <2>3. /\ \A j, k \in 1 .. Len(r) : j < k => r[j] < r[k]
        /\ \A j \in 1 .. Len(taken) : taken[j][1] = c =>
              \A k \in 1 .. Len(r) : taken[j][2] < r[k]
    BY <1>4, <1>8
  <2> QED  BY <1>3, <2>1, <2>2, <2>3 DEF Handed, ForApp
<1> QED  BY <1>1, <1>3, <1>7, <1>8

LEMMA HandedOut ==
    ASSUME SdkTypeInv, NEW c \in Conns, NEW d \in Nat, Handed(c, d),
           inbox[c] # <<>>, UNCHANGED frames, since'[c] = since[c],
           inbox'[c] = Tail(inbox[c]),
           taken' = Append(taken, <<c, Head(inbox[c])>>)
    PROVE  Handed(c, d)'
<1>0. since[c] \in Nat /\ inbox[c] \in Seq(Frames)
      /\ \A i \in Frames : i \in Nat
  BY DEF SdkTypeInv, LinkTypes, ReceiverTypes, Frames
<1>1. PICK q \in Seq(Frames) : q = inbox[c]
  BY <1>0
<1>2. PICK r \in Seq(Frames) : r = Tail(q)
  BY <1>1, TailShape
<1>3. PICK f \in Frames : f = Head(q)
  BY <1>1, TailShape
<1>4. /\ f = q[1] /\ Len(q) \in Nat \ {0} /\ Len(r) = Len(q) - 1
      /\ \A k \in 1 .. Len(q) - 1 : r[k] = q[k + 1]
  BY <1>1, <1>2, <1>3, TailShape
<1>5. PICK t \in Seq(Deliveries) : t = taken
  BY DEF SdkTypeInv, ReceiverTypes
<1>6. <<c, f>> \in Deliveries
  BY DEF Deliveries
<1>7. PICK u : u = taken'
  OBVIOUS
<1>8. /\ Len(t) \in Nat /\ Len(u) = Len(t) + 1 /\ u[Len(t) + 1] = <<c, f>>
      /\ \A k \in 1 .. Len(t) : u[k] = t[k]
  <2>1. u = Append(t, <<c, f>>)
    BY <1>1, <1>3, <1>5, <1>7
  <2> QED  BY <1>6, <2>1, AppendShape
<1>9. /\ \A i \in since[c] + 1 .. d : ForApp(i) =>
            \/ \E k \in 1 .. Len(t) : t[k] = <<c, i>>
            \/ \E k \in 1 .. Len(q) : q[k] = i
      /\ \A k \in 1 .. Len(q) : q[k] =< d
      /\ \A j, k \in 1 .. Len(q) : j < k => q[j] < q[k]
      /\ \A j \in 1 .. Len(t) : t[j][1] = c =>
            /\ t[j][2] =< d
            /\ \A k \in 1 .. Len(q) : t[j][2] < q[k]
  BY <1>1, <1>5 DEF Handed
<1>10. /\ \A k \in 1 .. Len(q) : k = 1 \/ k - 1 \in 1 .. Len(r)
       /\ \A k \in 1 .. Len(r) : k + 1 \in 1 .. Len(q) /\ r[k] = q[k + 1]
       /\ 1 \in 1 .. Len(q)
  BY <1>4
<1>11. /\ Len(t) + 1 \in 1 .. Len(u)
       /\ \A k \in 1 .. Len(t) : k \in 1 .. Len(u)
       /\ \A k \in 1 .. Len(u) : k \in 1 .. Len(t) \/ k = Len(t) + 1
  BY <1>8
<1>12. ASSUME NEW i \in since[c] + 1 .. d, ForApp(i)
       PROVE  \/ \E k \in 1 .. Len(u) : u[k] = <<c, i>>
              \/ \E k \in 1 .. Len(r) : r[k] = i
  <2>1. CASE \E k \in 1 .. Len(t) : t[k] = <<c, i>>
    BY <1>8, <1>11, <2>1
  <2>2. ASSUME NEW k \in 1 .. Len(q), q[k] = i
        PROVE  \/ \E j \in 1 .. Len(u) : u[j] = <<c, i>>
               \/ \E j \in 1 .. Len(r) : r[j] = i
    <3>1. CASE k = 1
      BY <1>4, <1>8, <1>11, <2>2, <3>1
    <3>2. CASE k # 1
      <4>1. k - 1 \in 1 .. Len(r) /\ (k - 1) + 1 = k
        BY <1>10, <3>2
      <4>2. r[k - 1] = i
        BY <1>10, <2>2, <4>1
      <4> QED  BY <4>1, <4>2
    <3> QED  BY <3>1, <3>2
  <2> QED  BY <1>9, <1>12, <2>1, <2>2
<1>13. \A k \in 1 .. Len(r) : r[k] =< d /\ f < r[k]
  <2>1. \A k \in 1 .. Len(r) : 1 < k + 1
    OBVIOUS
  <2> QED  BY <1>4, <1>9, <1>10, <2>1
<1>14. ASSUME NEW j \in 1 .. Len(r), NEW k \in 1 .. Len(r), j < k
       PROVE  r[j] < r[k]
  <2>1. j + 1 < k + 1
    BY <1>14
  <2> QED  BY <1>9, <1>10, <2>1
<1>15. ASSUME NEW j \in 1 .. Len(u), u[j][1] = c
       PROVE  /\ u[j][2] =< d
              /\ \A k \in 1 .. Len(r) : u[j][2] < r[k]
  <2>1. CASE j \in 1 .. Len(t)
    BY <1>8, <1>9, <1>10, <1>15, <2>1
  <2>2. CASE j = Len(t) + 1
    <3>1. u[j][2] = f
      BY <1>8, <2>2
    <3>2. f =< d
      BY <1>4, <1>9, <1>10
    <3> QED  BY <1>13, <3>1, <3>2
  <2> QED  BY <1>11, <2>1, <2>2
<1>16. r = inbox'[c]
  BY <1>1, <1>2
<1> QED  BY <1>7, <1>12, <1>13, <1>14, <1>15, <1>16 DEF Handed, ForApp

LEMMA NewestStep ==
    ASSUME SdkTypeInv, NewestInv, UnmadeInv, TakenInv, LockInv,
           [SdkNext]_sdkVars
    PROVE  NewestInv'
<1>0. /\ conns \in Nat /\ \A c \in Conns : c \in Nat \ {0}
      /\ link \in [Conns -> {"none", "up", "stalled", "down"}]
      /\ since \in [Conns -> {0} \cup Frames] /\ frames \in Seq(Kinds)
      /\ Len(frames) \in Nat
      /\ receiving \in [Conns -> {"none", "read", "wait", "call", "ended"}]
      /\ hand \in [Conns -> {0} \cup Frames]
      /\ arriving \in [Conns -> Seq(Frames)]
      /\ inbox \in [Conns -> Seq(Frames)]
      /\ \A c \in Conns : receiving[c] \in {"wait", "call"} =>
            hand[c] \in Frames /\ frames[hand[c]] \in HandlerLists
      /\ LinkTypes
  BY SdkAssumption DEF SdkTypeInv, LinkTypes, ReceiverTypes, Conns
\* A new connection has read nothing of what is sent from now on.
<1>1. CASE Connect
  <2>1. PICK c \in Conns : c = conns + 1
    BY <1>1, SdkAssumption DEF Connect, SdkTypeInv, LinkTypes, Conns
  <2>2. PICK n \in Nat : n = Len(frames)
    BY <1>0
  <2>3. /\ conns' = c /\ receiving' = [receiving EXCEPT ![c] = "read"]
        /\ since' = [since EXCEPT ![c] = n]
        /\ inbox' = [d \in Conns |-> <<>>]
        /\ UNCHANGED <<hand, arriving, taken, frames>>
    BY <1>1, <2>1, <2>2 DEF Connect
  <2>4. Len(arriving[c]) = 0 /\ hand[c] = 0
    BY <1>0, <2>1 DEF UnmadeInv
  <2>5. /\ since'[c] = n /\ receiving'[c] = "read" /\ inbox'[c] = <<>>
        /\ hand'[c] = 0 /\ Len(arriving'[c]) = 0 /\ Len(frames') = n
    BY <1>0, <2>2, <2>3, <2>4
  <2>6. Reading(c, n, n)'
    BY <2>5 DEF Reading
  <2>7. \A j \in 1 .. Len(taken) : taken[j][1] # c
    <3>1. conns < c
      BY <1>0, <2>1
    <3>2. \A j \in 1 .. Len(taken) : taken[j][1] =< conns
      BY DEF TakenInv, TakenWell
    <3> QED  BY <1>0, <3>1, <3>2
  <2>8. Len(inbox'[c]) = 0
    BY <2>5, EmptySeq
  <2>9. Handed(c, n)'
    BY <2>3, <2>5, <2>7, <2>8 DEF Handed
  <2> QED  BY <2>3, <2>6, <2>9 DEF NewestInv
<1>2. ASSUME UNCHANGED conns, NEW c \in Conns, c = conns
      PROVE  \E d, b \in Nat : Reading(c, d, b)' /\ Handed(c, d)'
  <2>1. PICK d \in Nat, b \in Nat : Reading(c, d, b) /\ Handed(c, d)
    BY <1>2 DEF NewestInv
  <2>2. PICK n \in Nat : n = Len(frames)
    BY <1>0
  <2>3. PICK q \in Seq(Frames) : q = arriving[c]
    BY <1>0
  <2>4. /\ since[c] =< b /\ b =< n /\ since[c] \in Nat
        /\ hand[c] = 0 => d = b
        /\ hand[c] # 0 => b = d + 1 /\ hand[c] = b
        /\ receiving[c] \in {"wait", "call"} <=> hand[c] # 0
        /\ \A k \in 1 .. Len(q) : q[k] = b + k
        /\ Live(link[c]) => b + Len(q) = n
        /\ d =< n
    BY <1>0, <2>1, <2>2, <2>3 DEF Reading, Frames
  \* Nothing of what this connection holds changes.
  <2>5. CASE UNCHANGED <<frames, since, taken>> /\ hand'[c] = hand[c]
             /\ arriving'[c] = arriving[c] /\ inbox'[c] = inbox[c]
             /\ (receiving'[c] \in {"wait", "call"}
                    <=> receiving[c] \in {"wait", "call"})
             /\ (Live(link'[c]) => Live(link[c]))
    <3>1. Handed(c, d)'
      BY <2>1, <2>2, <2>4, <2>5, HandedKept
    <3>2. Reading(c, d, b)'
      BY <2>1, <2>5 DEF Reading
    <3> QED  BY <3>1, <3>2
  <2>6. CASE ReceiveMessage
    <3>1. /\ inbox[c] # <<>> /\ inbox'[c] = Tail(inbox[c])
          /\ taken' = Append(taken, <<c, Head(inbox[c])>>)
          /\ UNCHANGED <<receiving, hand, arriving, frames, since, link>>
      BY <1>0, <1>2, <2>6 DEF ReceiveMessage
    <3>2. Handed(c, d)'
      BY <2>1, <3>1, HandedOut
    <3>3. Reading(c, d, b)'
      BY <2>1, <3>1 DEF Reading
    <3> QED  BY <3>2, <3>3
  <2>7. CASE ReadFrame(c)
    <3>1. /\ receiving[c] = "read" /\ q # <<>> /\ arriving'[c] = Tail(q)
          /\ UNCHANGED <<taken, frames, since, link>>
      BY <1>0, <2>3, <2>7 DEF ReadFrame
    <3>2. /\ Head(q) = b + 1 /\ Len(q) \in Nat \ {0}
          /\ Len(Tail(q)) = Len(q) - 1
          /\ \A k \in 1 .. Len(q) - 1 : Tail(q)[k] = b + 1 + k
          /\ b + 1 \in Frames
      <4>1. /\ Head(q) \in Frames /\ Head(q) = q[1]
            /\ Len(q) \in Nat \ {0} /\ Len(Tail(q)) = Len(q) - 1
            /\ \A k \in 1 .. Len(q) - 1 : Tail(q)[k] = q[k + 1]
        BY <3>1, TailShape
      <4>2. 1 \in 1 .. Len(q)
            /\ \A k \in 1 .. Len(q) - 1 : k + 1 \in 1 .. Len(q)
        BY <4>1
      <4>3. q[1] = b + 1 /\ \A k \in 1 .. Len(q) - 1 : q[k + 1] = b + (k + 1)
        BY <2>4, <4>2
      <4> QED  BY <4>1, <4>3
    <3>3. hand[c] = 0 /\ d = b
      BY <2>4, <3>1
    <3>4. /\ b + 1 =< n /\ since'[c] =< b + 1 /\ Len(frames') = n
          /\ \A k \in 1 .. Len(arriving'[c]) : arriving'[c][k] = b + 1 + k
          /\ Live(link'[c]) => b + 1 + Len(arriving'[c]) = Len(frames')
      <4>1. b + 1 =< n /\ since'[c] =< b + 1 /\ Len(frames') = n
        BY <2>2, <2>4, <3>1, <3>2 DEF Frames
      <4>2. Len(arriving'[c]) = Len(q) - 1
        BY <3>1, <3>2
      <4>3. \A k \in 1 .. Len(arriving'[c]) : arriving'[c][k] = b + 1 + k
        BY <3>1, <3>2, <4>2
      <4>4. link'[c] = link[c] /\ (Live(link[c]) => b + Len(q) = n)
        BY <2>4, <3>1
      <4>5. b + Len(q) = n => b + 1 + Len(arriving'[c]) = Len(frames')
        <5>1. PICK m \in Nat : m = Len(q)
          BY <3>2
        <5>2. PICK x : x = Len(arriving'[c])
          OBVIOUS
        <5>3. x = m - 1 /\ Len(frames') = n
          BY <4>1, <4>2, <5>1, <5>2
        <5>4. b + m = n => b + 1 + x = n
          BY <5>3
        <5> QED  BY <5>1, <5>2, <5>3, <5>4
      <4> QED  BY <4>1, <4>3, <4>4, <4>5
    <3>5. CASE frames[b + 1] \in HandlerLists
      <4>1. /\ receiving'[c] = "wait" /\ hand'[c] = b + 1
            /\ inbox'[c] = inbox[c]
        BY <1>0, <2>3, <2>7, <3>2, <3>5 DEF ReadFrame
      <4>2. Handed(c, d)'
        BY <2>1, <2>2, <2>4, <3>1, <4>1, HandedKept
      <4>3. PICK e : e = b + 1
        OBVIOUS
      <4>4. /\ since'[c] =< e /\ e =< Len(frames') /\ e # 0
            /\ e = d + 1 /\ hand'[c] = e /\ receiving'[c] = "wait"
            /\ \A k \in 1 .. Len(arriving'[c]) : arriving'[c][k] = e + k
            /\ Live(link'[c]) => e + Len(arriving'[c]) = Len(frames')
        <5>1. /\ since'[c] =< e /\ e =< Len(frames')
              /\ \A k \in 1 .. Len(arriving'[c]) : arriving'[c][k] = e + k
              /\ Live(link'[c]) => e + Len(arriving'[c]) = Len(frames')
          BY ZenonT(30), <3>4, <4>3
        <5>2. e # 0 /\ e = d + 1
          BY <3>3, <4>3
        <5> QED  BY <4>1, <4>3, <5>1, <5>2
      <4>5. Reading(c, d, e)'
        BY <4>4 DEF Reading
      <4> QED  BY <4>2, <4>3, <4>5
    <3>6. CASE frames[b + 1] \notin HandlerLists
      <4>1. /\ UNCHANGED <<receiving, hand>>
            /\ frames[b + 1] = "typing" =>
                  inbox'[c] = Append(inbox[c], b + 1)
            /\ frames[b + 1] # "typing" => inbox'[c] = inbox[c]
        BY <1>0, <1>2, <2>3, <2>7, <3>2, <3>6 DEF ReadFrame, Forward
      <4>2. frames[b + 1] # "typing" => ~ForApp(b + 1)
        BY <3>6 DEF ForApp, HandlerLists
      <4>3. Handed(c, d + 1)'
        BY <2>1, <3>1, <3>2, <3>3, <4>1, <4>2, HandedMore
      <4>4. Reading(c, b + 1, b + 1)'
        BY <3>1, <3>3, <3>4, <4>1 DEF Reading
      <4> QED  BY <3>3, <4>3, <4>4
    <3> QED  BY <3>5, <3>6
  <2>8. CASE EndCalls(c)
    <3>1. /\ receiving[c] = "call" /\ receiving'[c] = "read"
          /\ hand'[c] = 0 /\ arriving'[c] = arriving[c]
          /\ UNCHANGED <<taken, frames, since, link>>
          /\ frames[hand[c]] = "message" =>
                inbox'[c] = Append(inbox[c], hand[c])
          /\ frames[hand[c]] # "message" => inbox'[c] = inbox[c]
      BY <1>0, <1>2, <2>8 DEF EndCalls, HandedOn, ListOf, Forward
    <3>2. /\ hand[c] = b /\ b = d + 1 /\ b \in Frames
          /\ ListOf(c) \in HandlerLists
      BY <1>0, <2>4, <3>1 DEF ListOf
    <3>3. frames[b] # "message" => ~ForApp(b)
      BY <3>2 DEF ForApp, HandlerLists, ListOf
    <3>4. Handed(c, d + 1)'
      BY <2>1, <3>1, <3>2, <3>3, HandedMore
    <3>5. Reading(c, b, b)'
      BY <2>1, <2>4, <3>1 DEF Reading
    <3> QED  BY <3>2, <3>4, <3>5
  <2>9. CASE EndReading(c)
    <3>1. /\ receiving[c] = "read" /\ receiving'[c] = "ended"
          /\ arriving'[c] = <<>> /\ link'[c] = "down"
          /\ UNCHANGED <<taken, frames, since, hand, inbox>>
      BY <1>0, <2>9 DEF EndReading
    <3>2. Handed(c, d)'
      BY <2>1, <2>2, <2>4, <3>1, HandedKept
    <3>3. Len(arriving'[c]) = 0
      BY <3>1, EmptySeq
    <3>4. Reading(c, d, b)'
      BY <2>1, <3>1, <3>3 DEF Reading, Live
    <3> QED  BY <3>2, <3>4
  <2>10. ASSUME NEW kind \in Kinds, ServerSends(kind)
         PROVE  \E d2, b2 \in Nat : Reading(c, d2, b2)' /\ Handed(c, d2)'
    <3>1. /\ frames' = Append(frames, kind)
          /\ UNCHANGED <<receiving, hand, inbox, taken, since, link>>
          /\ arriving'[c] = IF Live(link[c]) THEN Append(q, n + 1) ELSE q
      BY <2>2, <2>3, <2>10 DEF ServerSends, Linked, Live
    <3>2. Len(frames') = n + 1
      BY <1>0, <2>2, <3>1, AppendShape
    <3>3. Handed(c, d)'
      BY <2>1, <2>2, <2>4, <3>1, HandedKept
    <3>4. CASE ~Live(link[c])
      <4>1. \A k \in 1 .. Len(arriving'[c]) : arriving'[c][k] = b + k
        BY <2>4, <3>1, <3>4
      <4>2. /\ since'[c] =< b /\ b =< Len(frames') /\ ~Live(link'[c])
            /\ hand'[c] = hand[c] /\ receiving'[c] = receiving[c]
        BY <2>4, <3>1, <3>2, <3>4
      <4>3. Reading(c, d, b)'
        BY <2>4, <4>1, <4>2 DEF Reading
      <4> QED  BY <3>3, <4>3
    <3>5. CASE Live(link[c])
      <4>0. PICK r \in Seq(Nat) : r = q
        <5>1. Frames \subseteq Nat
          BY <1>0 DEF Frames
        <5>2. q \in Seq(Nat)
          BY <5>1, SeqMonotonic, Zenon
        <5> QED  BY <5>2
      <4>1. /\ Len(arriving'[c]) = Len(r) + 1
            /\ arriving'[c][Len(r) + 1] = n + 1
            /\ \A k \in 1 .. Len(r) : arriving'[c][k] = r[k]
            /\ Len(r) \in Nat
        <5>1. arriving'[c] = Append(r, n + 1) /\ n + 1 \in Nat
          BY <3>1, <3>5, <4>0
        <5> QED  BY <5>1, AppendShape
      <4>2. b + Len(r) = n /\ \A k \in 1 .. Len(r) : r[k] = b + k
        BY <2>4, <3>5, <4>0
      <4>3. \A k \in 1 .. Len(arriving'[c]) : arriving'[c][k] = b + k
        <5>1. SUFFICES ASSUME NEW k \in 1 .. Len(arriving'[c])
                       PROVE  arriving'[c][k] = b + k
          OBVIOUS
        <5>2. CASE k \in 1 .. Len(r)
          <6>1. arriving'[c][k] = r[k] /\ r[k] = b + k
            BY <4>1, <4>2, <5>2
          <6> QED  BY <6>1
        <5>3. CASE k = Len(r) + 1
          <6>1. arriving'[c][k] = n + 1
            BY <4>1, <5>3
          <6> QED  BY <4>1, <4>2, <5>3, <6>1
        <5> QED  BY <4>1, <5>2, <5>3
      <4>4. b + Len(arriving'[c]) = Len(frames')
        BY <3>2, <4>1, <4>2
      <4>5. since'[c] =< b /\ b =< Len(frames')
        BY <2>4, <3>1, <3>2
      <4> QED  BY <2>4, <3>1, <3>3, <4>3, <4>4, <4>5 DEF Reading
    <3> QED  BY <3>4, <3>5
  \* The steps of other connections and all other steps.
  <2>11. CASE LockHandlers(c) \/ LinkMoves(c)
    <3>1. UNCHANGED <<frames, since, taken>> /\ hand'[c] = hand[c]
          /\ arriving'[c] = arriving[c] /\ inbox'[c] = inbox[c]
          /\ (receiving'[c] \in {"wait", "call"}
                 <=> receiving[c] \in {"wait", "call"})
          /\ (Live(link'[c]) => Live(link[c]))
      <4>1. CASE LockHandlers(c)
        BY <1>0, <4>1 DEF LockHandlers, MayCall, receiveVars
      <4>2. CASE LinkMoves(c)
        BY <4>2, LinkShape DEF receiveVars, SdkTypeInv
      <4> QED  BY <2>11, <4>1, <4>2
    <3> QED  BY <2>5, <3>1
  <2>12. ASSUME NEW e \in Conns \ {c},
                \/ ReadFrame(e) \/ EndCalls(e) \/ EndReading(e)
                \/ LockHandlers(e) \/ LinkMoves(e)
         PROVE  \E d2, b2 \in Nat : Reading(c, d2, b2)' /\ Handed(c, d2)'
    <3>1. UNCHANGED <<frames, since, taken>> /\ hand'[c] = hand[c]
          /\ arriving'[c] = arriving[c] /\ inbox'[c] = inbox[c]
          /\ receiving'[c] = receiving[c] /\ link'[c] = link[c]
      <4>1. CASE LinkMoves(e)
        <5>1. PICK state : /\ link' = [link EXCEPT ![e] = state]
                           /\ UNCHANGED <<receiveVars, frames, since>>
          BY <1>0, <2>12, <4>1, LinkShape DEF SdkTypeInv
        <5>2. link'[c] = link[c]
          BY <1>0, <2>12, <5>1
        <5> QED  BY <5>1, <5>2 DEF receiveVars
      <4>2. CASE ~LinkMoves(e)
        BY <1>0, <1>2, <2>12, <4>2
           DEF ReadFrame, EndCalls, EndReading, LockHandlers, Forward,
               receiveVars
      <4> QED  BY <4>1, <4>2
    <3> QED  BY <2>5, <3>1
  <2>13. CASE UNCHANGED <<frames, since, taken, hand, arriving, inbox,
                          receiving, link>>
    BY <2>5, <2>13
  <2>14. \/ UNCHANGED <<frames, since, taken, hand, arriving, inbox,
                        receiving, link>>
         \/ ReceiveMessage
         \/ \E e \in Conns : \/ ReadFrame(e) \/ EndCalls(e) \/ EndReading(e)
                             \/ LockHandlers(e) \/ LinkMoves(e)
         \/ \E kind \in Kinds : ServerSends(kind)
    <3>1. ~Connect
      BY <1>0, <1>2 DEF Connect
    <3> QED
      BY <3>1
         DEF SdkNext, SignIn, SendUpdate, Beat, Queue, WriteFrame, AddHandler,
             PushHandler, CallHandler, LinkMoves, sdkVars, receiveVars
  <2> QED  BY <2>6, <2>7, <2>8, <2>9, <2>10, <2>11, <2>12, <2>13, <2>14
<1>3. Connect \/ UNCHANGED conns
  BY DEF SdkNext, SignIn, SendUpdate, Beat, Queue, WriteFrame, AddHandler,
         PushHandler, CallHandler, ReceiveMessage, ReadFrame, EndCalls,
         EndReading, LockHandlers, LinkBreaks, PeerStalls, PeerReads,
         LinkTurns, ServerSends, sdkVars
<1> QED  BY <1>1, <1>2, <1>3 DEF NewestInv

\* Of every connection, receive_message returns the frames that are for it in
\* the order they were sent, each once, from the first one on and without a
\* gap; and never one of an older connection after one of a newer.
THEOREM ReceivedWithoutGap == SdkSpec => []NoGapInReceived
<1>1. SdkTypeInv /\ TakenInv => NoGapInReceived
  <2> SUFFICES ASSUME SdkTypeInv, TakenInv PROVE NoGapInReceived
    OBVIOUS
  <2>1. DOMAIN taken = 1 .. Len(taken)
    BY DEF SdkTypeInv, ReceiverTypes
  <2> QED  BY <2>1 DEF TakenInv, TakenWell, NoGapInReceived
<1>2. SdkSpec => [](UnmadeInv /\ NewestInv /\ TakenInv /\ LockInv)
  BY SdkTyped, LockStart, LockStep, ReceiveStart, UnmadeStep, TakenStep,
     NewestStep, PTL DEF SdkSpec
<1> QED  BY <1>1, <1>2, SdkTyped, PTL

----------------------------------------------------------------------------
(* The parts together, as the clients' run chooses between them.           *)

\* A step is one of a single part, and the others stand still.
LEMMA PartSteps ==
    [Next]_<<part, page, sdk, ways>> =>
       /\ [PageNext]_pageVars /\ [SdkNext]_sdkVars
       /\ [PlatformNext]_platformVars
<1>1. UNCHANGED ways => UNCHANGED platformVars
  BY DEF ways, platformVars, lifeVars, partVars, gateVars, sockVars,
         lockVars, doneVars
<1> QED  BY <1>1 DEF Next, page, sdk

\* Every variable of every part keeps the values that its declaration names.
THEOREM ClientsTypeCorrect == Spec => []ClientsTypeOK
<1> DEFINE IInv == PageTypeInv /\ SdkTypeInv /\ TypeInv
<1>1. Init => IInv
  BY PageTypeStart, SdkTypeStart, TypeStart DEF Init
<1>2. IInv /\ [Next]_<<part, page, sdk, ways>> => IInv'
  BY PartSteps, PageTypeStep, SdkTypeStep, TypeStep
<1>3. IInv => ClientsTypeOK
  BY SdkTypes DEF PageTypeInv, TypeInv, ClientsTypeOK
<1> QED  BY <1>1, <1>2, <1>3, PTL DEF Spec
=============================================================================

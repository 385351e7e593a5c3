-------------------------- MODULE ModerationProofs --------------------------
(* Proofs about the moderation service, for any reports and reviews.       *)
EXTENDS Moderation, TLAPS

\* Nobody is told from times and people, a review asks for a status or to
\* resolve, and no request is both a filing and a review.
Sane ==
    /\ Nobody \notin Nat /\ Nobody # System
    /\ \A v \in Reviews : ReviewerOf[v] # Nobody
    /\ Nobody \notin Rows
    /\ SubjectOf \in [Reviews -> Filings]
    /\ \A v \in Reviews : AskedOf[v] \in Spelled \cup {Resolve}
    /\ Filings \cap Reviews = {}
    /\ Day \in Nat /\ LastTick \in Nat

\* Why a repeated report is a day apart: a report is stored once, before it is
\* announced; what a
\* filing has seen was stored before, and when it goes on to insert, what it
\* has seen of the same target is a day old.
ReportsArePlaced ==
    \A f \in Filings :
       /\ f \in Stored => stage[f] \notin {"new", "look", "insert"}
       /\ stage[f] \in {"event", "automate"} => f \in Stored

PresentIsPast ==
    \A f \in Filings :
       /\ present[f] \subseteq Stored
       /\ stage[f] \in {"new", "look"} => present[f] = {}

NoneSeenRecent ==
    \A g \in Filings : stage[g] = "insert" =>
       \A f \in present[g] :
          Same(f, g) => report[f].created + Day =< clock

ModInv ==
    /\ ModTypeOK
    /\ ClosedTogether
    /\ ReportsArePlaced /\ PresentIsPast /\ NoneSeenRecent
    /\ RepeatsNeedOverlap

----------------------------------------------------------------------------
\* The rows that the statements write are well typed and closed or open as a
\* whole.
Whole(row) ==
    /\ row \in Rows
    /\ row.status = "resolved" <=> row.at # Nobody
    /\ row.at # Nobody <=> row.by # Nobody

\* Insert, both ways to close a report, and the automated action.
LEMMA WrittenRows ==
    ASSUME Sane, ModTypeOK, NEW f \in Filings
    PROVE  /\ Whole([created |-> clock, status |-> "pending",
                     at |-> Nobody, by |-> Nobody])
           /\ f \in Stored =>
              /\ \A v \in Reviews : Whole(Resolved(f, ReviewerOf[v]))
              /\ \A v \in Reviews, status \in Spelled :
                    Whole(Updated(f, status, ReviewerOf[v]))
              /\ Whole([report[f] EXCEPT !.status = "resolved", !.at = clock,
                                         !.by = System])
<1>1. clock \in Nat
  BY DEF ModTypeOK, Sane
<1>2. Whole([created |-> clock, status |-> "pending", at |-> Nobody,
             by |-> Nobody])
  BY <1>1 DEF Whole, Rows, Spelled
<1>3. ASSUME f \in Stored
      PROVE  report[f] \in Rows
  BY <1>3 DEF ModTypeOK, Stored
<1>4. ASSUME f \in Stored, NEW v \in Reviews
      PROVE  Whole(Resolved(f, ReviewerOf[v]))
  BY <1>1, <1>3, <1>4 DEF Whole, Resolved, Rows, Sane
<1>5. ASSUME f \in Stored, NEW v \in Reviews, NEW status \in Spelled
      PROVE  Whole(Updated(f, status, ReviewerOf[v]))
  BY <1>1, <1>3, <1>5 DEF Whole, Updated, Rows, Spelled, Sane
<1>6. ASSUME f \in Stored
      PROVE  Whole([report[f] EXCEPT !.status = "resolved", !.at = clock,
                                     !.by = System])
  BY <1>1, <1>3, <1>6 DEF Whole, Rows, Sane
<1>7. QED BY <1>2, <1>4, <1>5, <1>6

----------------------------------------------------------------------------
(* What a step may do to the filing f, and to the report it makes.         *)

FilingMoves(f) ==
    \/ stage'[f] = stage[f] /\ present'[f] = present[f]
    \/ /\ stage'[f] \in {"ok", "refused", "failed"}
       /\ present'[f] = present[f]
    \/ stage[f] = "new" /\ stage'[f] = "look" /\ present'[f] = present[f]
    \/ /\ stage[f] = "insert" /\ stage'[f] = "event" /\ f \in Stored'
       /\ present'[f] = present[f]
    \/ /\ stage[f] = "event" /\ stage'[f] = "automate"
       /\ present'[f] = present[f]
    \/ /\ stage[f] = "look" /\ stage'[f] \in {"insert", "refused"}
       /\ present'[f] = Stored
       /\ report' = report /\ clock' = clock
       /\ stage'[f] = "insert" =>
            \A g \in Stored : ~(Same(f, g) /\ WithinADay(g))

ReportMoves(f) ==
    \/ report'[f] = report[f]
    \/ /\ f \in Stored
       /\ Whole(report'[f]) /\ report'[f].created = report[f].created
    \/ /\ f \notin Stored
       /\ stage[f] = "insert" /\ stage'[f] = "event"
       /\ Whole(report'[f]) /\ report'[f].created = clock

LEMMA FilingStep ==
    ASSUME Sane, ModTypeOK, [ModNext]_modVars, NEW f \in Filings
    PROVE  FilingMoves(f)
<1> USE DEF Sane, FilingMoves
<1>1. CASE UNCHANGED modVars \/ Pass
  BY <1>1 DEF modVars, Pass
<1>2. ASSUME NEW q \in Filings \cup Reviews, Break(q) PROVE FilingMoves(f)
  BY <1>2 DEF Break, Enter, ModTypeOK
<1>3. ASSUME NEW m \in moderators, Demote(m) PROVE FilingMoves(f)
  BY <1>3 DEF Demote
<1>4. ASSUME NEW g \in Filings, Validate(g) PROVE FilingMoves(f)
  <2>1. /\ stage[g] = "new" /\ present' = present
        /\ \/ stage' = [stage EXCEPT ![g] = "look"]
           \/ stage' = [stage EXCEPT ![g] = "refused"]
    BY <1>4, Zenon DEF Validate, Enter
  <2>2. QED BY <2>1 DEF ModTypeOK
<1>5. ASSUME NEW g \in Filings, LookForRecent(g) PROVE FilingMoves(f)
  <2>1. /\ stage[g] = "look" /\ present' = [present EXCEPT ![g] = Stored]
        /\ report' = report /\ clock' = clock
    BY <1>5 DEF LookForRecent
  <2>2. \/ stage' = [stage EXCEPT ![g] = "refused"]
        \/ /\ stage' = [stage EXCEPT ![g] = "insert"]
           /\ \A h \in Stored : ~(Same(g, h) /\ WithinADay(h))
    BY <1>5, Zenon DEF LookForRecent, Enter
  <2>3. CASE f = g
    BY <2>1, <2>2, <2>3 DEF ModTypeOK
  <2>4. CASE f # g
    BY <2>1, <2>2, <2>4 DEF ModTypeOK
  <2>5. QED BY <2>3, <2>4
<1>6. ASSUME NEW g \in Filings, Insert(g) PROVE FilingMoves(f)
  <2>1. Whole([created |-> clock, status |-> "pending", at |-> Nobody,
               by |-> Nobody])
    BY WrittenRows
  <2>2. report'[g] # Nobody
    BY <1>6, <2>1 DEF Insert, ModTypeOK, Whole
  <2>3. g \in Stored'
    BY <2>2 DEF Stored
  <2>4. QED BY <1>6, <2>3 DEF Insert, Enter, ModTypeOK
<1>7. ASSUME NEW g \in Filings, AnnounceCreated(g) \/ Automate(g)
      PROVE  FilingMoves(f)
  <2>1. /\ present' = present
        /\ \/ /\ stage[g] = "event"
              /\ stage' = [stage EXCEPT ![g] = "automate"]
           \/ stage' = [stage EXCEPT ![g] = "failed"]
           \/ stage' = [stage EXCEPT ![g] = "ok"]
    BY <1>7, Zenon DEF AnnounceCreated, Announce, Automate, Enter
  <2>2. QED BY <2>1 DEF ModTypeOK
<1>8. ASSUME NEW v \in Reviews, Verify(v) \/ Write(v) \/ AnnounceReview(v)
      PROVE  FilingMoves(f)
  <2>1. /\ present' = present
        /\ \E place \in Stages : stage' = [stage EXCEPT ![v] = place]
    <3>1. CASE Verify(v)
      BY <3>1, Zenon DEF Verify, Enter, Stages
    <3>2. CASE Write(v)
      BY <3>2, Zenon DEF Write, Enter, Stages
    <3>3. CASE AnnounceReview(v)
      BY <3>3, Zenon DEF AnnounceReview, Announce, Enter, Stages
    <3>4. QED BY <1>8, <3>1, <3>2, <3>3
  <2>2. f # v
    OBVIOUS
  <2>3. QED BY <2>1, <2>2 DEF ModTypeOK
<1>9. QED
  BY <1>1, <1>2, <1>3, <1>4, <1>5, <1>6, <1>7, <1>8 DEF ModNext

LEMMA ReportStep ==
    ASSUME Sane, ModTypeOK, ReportsArePlaced, [ModNext]_modVars,
           NEW f \in Filings
    PROVE  ReportMoves(f)
<1> USE DEF Sane, ReportMoves
<1>1. Whole([created |-> clock, status |-> "pending", at |-> Nobody,
             by |-> Nobody])
  BY WrittenRows
<1>2. CASE report' = report
  BY <1>2
<1>3. ASSUME NEW g \in Filings, Insert(g) PROVE ReportMoves(f)
  <2>1. CASE f = g
    <3>1. /\ report'[f] = [created |-> clock, status |-> "pending",
                           at |-> Nobody, by |-> Nobody]
          /\ stage[f] = "insert" /\ stage'[f] = "event"
      BY <1>3, <2>1 DEF Insert, Enter, ModTypeOK
    <3>2. f \notin Stored
      BY <3>1 DEF ReportsArePlaced
    <3>3. QED BY <1>1, <3>1, <3>2
  <2>2. CASE f # g
    BY <1>3, <2>2 DEF Insert, ModTypeOK
  <2>3. QED BY <2>1, <2>2
<1>4. ASSUME NEW g \in Filings, Automate(g) PROVE ReportMoves(f)
  <2>1. CASE f = g
    <3>1. f \in Stored
      BY <1>4, <2>1 DEF Automate, ReportsArePlaced
    <3> DEFINE row == [report[f] EXCEPT !.status = "resolved", !.at = clock,
                                        !.by = System]
    <3>2. Whole(row) /\ row.created = report[f].created
      BY <3>1, WrittenRows DEF ModTypeOK, Stored, Rows
    <3>3. report'[f] = report[f] \/ report'[f] = row
      BY <1>4, <2>1 DEF Automate, ModTypeOK
    <3>4. QED BY <3>1, <3>2, <3>3
  <2>2. CASE f # g
    BY <1>4, <2>2 DEF Automate, ModTypeOK
  <2>3. QED BY <2>1, <2>2
<1>5. ASSUME NEW v \in Reviews, Write(v) PROVE ReportMoves(f)
  <2> DEFINE g == SubjectOf[v]
             row == IF AskedOf[v] = Resolve
                      THEN Resolved(g, ReviewerOf[v])
                      ELSE Updated(g, AskedOf[v], ReviewerOf[v])
  <2>1. \/ report' = report
        \/ g \in Stored /\ report' = [report EXCEPT ![g] = row]
    BY <1>5, Zenon DEF Write
  <2>2. CASE f # g
    BY <2>1, <2>2 DEF ModTypeOK
  <2>3. CASE f = g /\ f \in Stored
    <3>1. Whole(row)
      BY <2>3, WrittenRows
    <3>2. row.created = report[f].created
      BY <2>3 DEF Resolved, Updated, ModTypeOK, Stored, Rows
    <3>3. report'[f] = report[f] \/ report'[f] = row
      <4> HIDE DEF row
      <4>1. QED BY <2>1, <2>3 DEF ModTypeOK
    <3>4. QED BY <2>3, <3>1, <3>2, <3>3
  <2>4. QED BY <1>2, <2>1, <2>2, <2>3
<1>6. QED
  BY <1>2, <1>3, <1>4, <1>5, Zenon
  DEF ModNext, modVars, Pass, Break, Demote, Validate, LookForRecent,
      AnnounceCreated, Verify, AnnounceReview, Announce

----------------------------------------------------------------------------
\* The types of what the two lemmas above do not speak of.
LEMMA ModTypeStep ==
    ASSUME Sane, ModTypeOK, ReportsArePlaced, [ModNext]_modVars
    PROVE  ModTypeOK' /\ clock =< clock'
<1> USE DEF Sane
<1>1. clock' \in 0 .. LastTick /\ clock =< clock'
  <2>1. clock' = clock \/ Pass
    BY Zenon
    DEF ModNext, modVars, Pass, Break, Demote, Validate, LookForRecent,
       Insert, AnnounceCreated, Announce, Automate, Verify, Write,
       AnnounceReview
  <2>2. QED BY <2>1 DEF ModTypeOK, Pass
<1>2. stage' \in [Filings \cup Reviews -> Stages]
  <2>1. \/ stage' = stage
        \/ \E q \in Filings \cup Reviews, place \in Stages :
              stage' = [stage EXCEPT ![q] = place]
    <3>1. \A q \in Filings \cup Reviews, place \in Stages :
             Enter(q, place) => \E p \in Filings \cup Reviews, at \in Stages :
                                  stage' = [stage EXCEPT ![p] = at]
      BY Zenon DEF Enter
    <3>2. \A s \in {"look", "insert", "event", "automate", "write", "ok",
                    "refused", "failed"} : s \in Stages
      BY DEF Stages
    <3>3. \/ stage' = stage
          \/ \E q \in Filings \cup Reviews, place \in Stages : Enter(q, place)
      BY <3>2 DEF ModNext, modVars, Pass, Break, Demote, Validate,
         LookForRecent,
         Insert, AnnounceCreated, Announce, Automate, Verify, Write,
         AnnounceReview
    <3>4. QED BY <3>1, <3>3
  <2>2. QED BY <2>1 DEF ModTypeOK
<1>3. report' \in [Filings -> Rows \cup {Nobody}]
  <2>1. DOMAIN report' = Filings /\ report' = [f \in Filings |-> report'[f]]
    BY DEF ModTypeOK, ModNext, modVars, Pass, Break, Demote, Validate,
       LookForRecent, Insert, AnnounceCreated, Announce, Automate, Verify,
       Write, AnnounceReview
  <2>2. \A f \in Filings : report'[f] \in Rows \cup {Nobody}
    BY ReportStep DEF ReportMoves, ModTypeOK, Whole
  <2>3. QED BY <2>1, <2>2
<1>4. restricted' \in SUBSET {TargetOf[f] : f \in Filings}
  <2>1. \/ restricted' = restricted
        \/ \E f \in Filings : restricted' = restricted \cup {TargetOf[f]}
    BY Zenon
    DEF ModNext, modVars, Pass, Break, Demote, Validate, LookForRecent,
       Insert, AnnounceCreated, Announce, Automate, Verify, Write,
       AnnounceReview
  <2>2. QED BY <2>1 DEF ModTypeOK
<1>5. moderators' \in SUBSET {ReviewerOf[v] : v \in Reviews}
  BY DEF ModTypeOK, ModNext, modVars, Pass, Break, Demote, Validate,
     LookForRecent,
     Insert, AnnounceCreated, Announce, Automate, Verify, Write,
     AnnounceReview
<1>6. announced' \in Seq([kind : {"created", "updated", "resolved"},
                          about : Filings])
  <2>1. \/ announced' = announced
        \/ \E kind \in {"created", "updated", "resolved"}, f \in Filings :
              announced' = Append(announced, [kind |-> kind, about |-> f])
    <3>1. \A v \in Reviews : SubjectOf[v] \in Filings
      OBVIOUS
    <3>2. QED
      BY <3>1
      DEF ModNext, modVars, Pass, Break, Demote, Validate, LookForRecent,
          Insert, AnnounceCreated, Announce, Automate, Verify, Write,
          AnnounceReview
  <2> DEFINE Event == [kind : {"created", "updated", "resolved"},
                       about : Filings]
  <2>2. \/ announced' = announced
        \/ \E event \in Event : announced' = Append(announced, event)
    BY <2>1
  <2>3. announced \in Seq(Event)
    BY DEF ModTypeOK
  <2> HIDE DEF Event
  <2>4. announced' \in Seq(Event)
    BY <2>2, <2>3
  <2>5. QED BY <2>4 DEF Event
<1>7. present' \in [Filings -> SUBSET Filings]
  <2>1. \/ present' = present
        \/ \E f \in Filings : present' = [present EXCEPT ![f] = Stored]
    BY Zenon
    DEF ModNext, modVars, Pass, Break, Demote, Validate, LookForRecent,
       Insert, AnnounceCreated, Announce, Automate, Verify, Write,
       AnnounceReview
  <2>2. QED BY <2>1 DEF ModTypeOK, Stored
<1>8. QED BY <1>1, <1>2, <1>3, <1>4, <1>5, <1>6, <1>7 DEF ModTypeOK

LEMMA ModerationInvariant ==
    ASSUME Sane
    PROVE  ModSpec => []ModInv
<1>1. ModInit => ModInv
  BY DEF Sane, ModInit, ModInv, ModTypeOK, ClosedTogether, ReportsArePlaced,
     PresentIsPast, NoneSeenRecent, RepeatsNeedOverlap, Stored, Stages
<1>2. ASSUME ModInv, [ModNext]_modVars PROVE ModInv'
  <2> USE DEF ModInv
  <2>1. ModTypeOK' /\ clock =< clock'
    BY <1>2, ModTypeStep
  <2>2. \A f \in Filings : FilingMoves(f) /\ ReportMoves(f)
    BY <1>2, FilingStep, ReportStep
  <2>3. \A f \in Filings : f \in Stored => f \in Stored'
    BY <2>2, <1>2 DEF ReportMoves, Whole, Stored, Sane
  <2>4. \A f \in Stored : report'[f].created = report[f].created
    BY <2>2, <1>2 DEF ReportMoves, Stored
  <2>5. ClosedTogether'
    BY <2>2, <1>2 DEF ReportMoves, Whole, ClosedTogether, Stored
  <2>6. ReportsArePlaced'
    BY <2>2, <2>3, <1>2
    DEF ReportsArePlaced, ReportMoves, FilingMoves, Stored
  <2>7. PresentIsPast'
    BY <2>2, <2>3, <1>2 DEF PresentIsPast, FilingMoves, Stored
  <2>8. NoneSeenRecent'
    <3>1. SUFFICES ASSUME NEW g \in Filings, stage'[g] = "insert",
                          NEW f \in present'[g], Same(f, g)
                   PROVE  report'[f].created + Day =< clock'
      BY DEF NoneSeenRecent, Same
    <3>2. CASE stage[g] = "insert" /\ present'[g] = present[g]
      <4>1. f \in Stored /\ report[f].created + Day =< clock
        BY <1>2, <3>1, <3>2 DEF NoneSeenRecent, PresentIsPast
      <4>2. report'[f].created = report[f].created
        BY <2>4, <4>1
      <4>3. report[f].created \in Nat /\ clock \in Nat /\ clock' \in Nat
        BY <1>2, <2>1, <4>1 DEF ModTypeOK, Stored, Rows, Sane
      <4>4. QED BY <2>1, <4>1, <4>2, <4>3 DEF Sane
    <3>3. CASE /\ present'[g] = Stored /\ clock' = clock
               /\ \A h \in Stored : ~(Same(g, h) /\ WithinADay(h))
      <4>1. f \in Stored /\ Same(g, f)
        BY <3>1, <3>3 DEF Same
      <4>2. report'[f].created = report[f].created
        BY <2>4, <4>1
      <4>3. report[f].created \in Nat /\ clock \in Nat
        BY <1>2, <4>1 DEF ModTypeOK, Stored, Rows, Sane
      <4>4. ~(report[f].created + Day > clock)
        BY <3>3, <4>1 DEF WithinADay
      <4>5. QED BY <3>3, <4>2, <4>3, <4>4 DEF Sane
    <3>4. QED BY <2>2, <3>1, <3>2, <3>3 DEF FilingMoves
  <2>9. RepeatsNeedOverlap'
    BY <2>2, <2>4, <1>2
    DEF RepeatsNeedOverlap, NoneSeenRecent, FilingMoves, ReportMoves,
        PresentIsPast, ReportsArePlaced, Same, Stored
  <2>10. QED BY <2>1, <2>5, <2>6, <2>7, <2>8, <2>9
<1>3. QED BY <1>1, <1>2, PTL DEF ModSpec

\* The tables and the requests are well typed.
THEOREM ModerationTypeCorrect ==
    ASSUME Sane
    PROVE  ModSpec => []ModTypeOK
<1>1. ModInv => ModTypeOK BY DEF ModInv
<1>2. QED BY <1>1, ModerationInvariant, PTL

\* A report has a resolver and a time exactly when it is 'resolved', however
\* updates, resolutions and the automated action fall on it.
THEOREM ClosedCorrect ==
    ASSUME Sane
    PROVE  ModSpec => []ClosedTogether
<1>1. ModInv => ClosedTogether BY DEF ModInv
<1>2. QED BY <1>1, ModerationInvariant, PTL

\* One user reports one target twice within a day only with requests that
\* overlap.
THEOREM RepeatsCorrect ==
    ASSUME Sane
    PROVE  ModSpec => []RepeatsNeedOverlap
<1>1. ModInv => RepeatsNeedOverlap BY DEF ModInv
<1>2. QED BY <1>1, ModerationInvariant, PTL
=============================================================================

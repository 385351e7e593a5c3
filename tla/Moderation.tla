----------------------------- MODULE Moderation -----------------------------
(***************************************************************************)
(* The moderation service (moderation/src/main.rs): HTTP handlers that run *)
(* concurrently over the tables reports and user_restrictions and announce *)
(* what they did on the Kafka topic "moderation-events".  Each statement   *)
(* is a step of its own; there are no transactions.                        *)
(*                                                                         *)
(* A member of Filings is a request to create a report, and names the      *)
(* report it creates.  A member of Reviews is a request of a moderator to  *)
(* update or to resolve one.  Time advances in ticks.                      *)
(***************************************************************************)
EXTENDS Naturals, Sequences, FiniteSets

CONSTANTS
    Filings, ReporterOf, TargetOf, TypeOf, ReasonOf,
    Existing,       \* users and groups there are: pairs of a type and a target
    Reviews, ReviewerOf,
    SubjectOf,      \* the report a review is about
    AskedOf,        \* the status it asks for, or Resolve
    Resolve,        \* a request to /resolve
    System,         \* the resolver of an automated action
    Nobody,
    Day, Hour,      \* the two windows, in ticks
    BanAfter,       \* reports for spam that ban a user
    LastTick        \* bound of the exploration

VARIABLES
    clock,
    stage,        \* where a request is
    report,       \* table reports
    restricted,   \* table user_restrictions: the users banned
    moderators,   \* users.is_moderator or is_admin
    announced,    \* moderation-events
    present       \* history: the reports there when a filing looked

modVars == <<clock, stage, report, restricted, moderators, announced,
             present>>

Stages == {"new", "look", "insert", "event", "automate", "write", "ok",
           "refused", "failed"}
\* How format!("{:?}") spells a status, beside what the statements write.
Spelled == {"Pending", "Investigating", "Resolved", "Dismissed"}
Rows == [created : Nat, status : Spelled \cup {"pending", "resolved"},
         at : Nat \cup {Nobody},
         by : {ReviewerOf[v] : v \in Reviews} \cup {System, Nobody}]

ModTypeOK ==
    /\ clock \in 0 .. LastTick
    /\ stage \in [Filings \cup Reviews -> Stages]
    /\ report \in [Filings -> Rows \cup {Nobody}]
    /\ restricted \in SUBSET {TargetOf[f] : f \in Filings}
    /\ moderators \in SUBSET {ReviewerOf[v] : v \in Reviews}
    /\ announced \in Seq([kind : {"created", "updated", "resolved"},
                          about : Filings])
    /\ present \in [Filings -> SUBSET Filings]

ModInit ==
    /\ clock = 0
    /\ stage = [q \in Filings \cup Reviews |-> "new"]
    /\ report = [f \in Filings |-> Nobody]
    /\ restricted = {}
    /\ moderators \in SUBSET {ReviewerOf[v] : v \in Reviews}
    /\ announced = <<>>
    /\ present = [f \in Filings |-> {}]

Stored == {f \in Filings : report[f] # Nobody}
Enter(q, place) == stage' = [stage EXCEPT ![q] = place]

Pass ==
    /\ clock < LastTick
    /\ clock' = clock + 1
    /\ UNCHANGED <<stage, report, restricted, moderators, announced, present>>

\* A statement or a connection fails, or the server ends.
Break(q) ==
    /\ stage[q] \notin {"ok", "refused", "failed"}
    /\ Enter(q, "failed")
    /\ UNCHANGED <<clock, report, restricted, moderators, announced, present>>

\* The owner of the roles, outside this service.
Demote(m) ==
    /\ m \in moderators
    /\ moderators' = moderators \ {m}
    /\ UNCHANGED <<clock, stage, report, restricted, announced, present>>

\* publish_moderation_event: a send that reports an error may have arrived,
\* and what was written stays.
Announce(q, kind, about, next) ==
    /\ \/ Enter(q, next)
       \/ Enter(q, "failed")
    /\ announced' = Append(announced, [kind |-> kind, about |-> about])
    /\ UNCHANGED <<clock, report, restricted, moderators, present>>

----------------------------------------------------------------------------
(* create_report.                                                          *)

\* validate_report_target; a message is not looked for.
Validate(f) ==
    /\ stage[f] = "new"
    /\ IF TypeOf[f] = "Message" \/ <<TypeOf[f], TargetOf[f]>> \in Existing
         THEN Enter(f, "look") ELSE Enter(f, "refused")
    /\ UNCHANGED <<clock, report, restricted, moderators, announced, present>>

Same(f, g) ==
    /\ ReporterOf[f] = ReporterOf[g]
    /\ TargetOf[f] = TargetOf[g]
    /\ TypeOf[f] = TypeOf[g]

\* Slip: the other window.
BugAnHour(g) == report[g].created + Hour > clock

WithinADay(g) == report[g].created + Day > clock

LookForRecent(f) ==
    /\ stage[f] = "look"
    /\ present' = [present EXCEPT ![f] = Stored]
    /\ IF \E g \in Stored : Same(f, g) /\ WithinADay(g)
         THEN Enter(f, "refused") ELSE Enter(f, "insert")
    /\ UNCHANGED <<clock, report, restricted, moderators, announced>>

Insert(f) ==
    /\ stage[f] = "insert"
    /\ report' = [report EXCEPT ![f] =
          [created |-> clock, status |-> "pending", at |-> Nobody,
           by |-> Nobody]]
    /\ Enter(f, "event")
    /\ UNCHANGED <<clock, restricted, moderators, announced, present>>

AnnounceCreated(f) ==
    /\ f \in Filings
    /\ stage[f] = "event"
    /\ Announce(f, "created", f, "automate")

\* What the count of check_automated_actions takes: the type is stored as
\* "User" and compared with "user".
SpamReports(u) ==
    {g \in Stored : /\ TargetOf[g] = u /\ TypeOf[g] = "user"
                    /\ ReasonOf[g] = "Spam"
                    /\ report[g].created + Hour > clock}

\* The insert of the ban and the update of the report are one step, because
\* no report is ever counted.
Automate(f) ==
    /\ stage[f] = "automate"
    /\ IF /\ ReasonOf[f] = "Spam"
          /\ Cardinality(SpamReports(TargetOf[f])) >= BanAfter
         THEN /\ restricted' = restricted \cup {TargetOf[f]}
              /\ report' = [report EXCEPT ![f].status = "resolved",
                                          ![f].at = clock, ![f].by = System]
         ELSE UNCHANGED <<restricted, report>>
    /\ Enter(f, "ok")
    /\ UNCHANGED <<clock, moderators, announced, present>>

----------------------------------------------------------------------------
(* update_report, resolve_report.                                          *)

\* verify_moderator_role; the write follows without another look.
Verify(v) ==
    /\ stage[v] = "new"
    /\ IF ReviewerOf[v] \in moderators THEN Enter(v, "write")
                                       ELSE Enter(v, "refused")
    /\ UNCHANGED <<clock, report, restricted, moderators, announced, present>>

\* Slip: without the ELSE NULL of the two columns.
BugKeepResolver(f, status, reviewer) ==
    [report[f] EXCEPT !.status = status]

\* The columns follow from the status as it was spelled: "Resolved" is not
\* 'resolved'.
Updated(f, status, reviewer) ==
    [report[f] EXCEPT
        !.status = status,
        !.at = IF status = "resolved" THEN clock ELSE Nobody,
        !.by = IF status = "resolved" THEN reviewer ELSE Nobody]

\* Slip: two columns bound in the wrong order.
BugColumns(f, reviewer) ==
    [report[f] EXCEPT !.status = "resolved", !.at = reviewer, !.by = clock]

Resolved(f, reviewer) ==
    [report[f] EXCEPT !.status = "resolved", !.at = clock, !.by = reviewer]

Write(v) ==
    LET f == SubjectOf[v]
    IN  /\ stage[v] = "write"
        /\ \/ /\ f \in Stored
              /\ report' = [report EXCEPT ![f] =
                    IF AskedOf[v] = Resolve
                      THEN Resolved(f, ReviewerOf[v])
                      ELSE Updated(f, AskedOf[v], ReviewerOf[v])]
              /\ Enter(v, "event")
           \/ /\ f \notin Stored
              /\ Enter(v, "refused")
              /\ UNCHANGED report
        /\ UNCHANGED <<clock, restricted, moderators, announced, present>>

AnnounceReview(v) ==
    /\ v \in Reviews
    /\ stage[v] = "event"
    /\ Announce(v, IF AskedOf[v] = Resolve THEN "resolved" ELSE "updated",
                SubjectOf[v], "ok")

----------------------------------------------------------------------------
ModNext ==
    \/ Pass
    \/ \E q \in Filings \cup Reviews : Break(q)
    \/ \E m \in moderators : Demote(m)
    \/ \E f \in Filings :
          \/ Validate(f) \/ LookForRecent(f) \/ Insert(f)
          \/ AnnounceCreated(f) \/ Automate(f)
    \/ \E v \in Reviews : Verify(v) \/ Write(v) \/ AnnounceReview(v)

ModSpec == ModInit /\ [][ModNext]_modVars

----------------------------------------------------------------------------
\* A report has a resolver and a time exactly when the statistics count it as
\* resolved, in whatever order updates and resolutions of several moderators
\* fall on it.
ClosedTogether ==
    \A f \in Stored :
       /\ report[f].status = "resolved" <=> report[f].at # Nobody
       /\ report[f].at # Nobody <=> report[f].by # Nobody

\* "Check if user has already reported this target recently": two reports of
\* one target by one user are less than a day apart only if neither was there
\* when the other request looked.
RepeatsNeedOverlap ==
    \A f, g \in Stored :
       (f # g /\ Same(f, g) /\ f \in present[g]) =>
          report[f].created + Day =< report[g].created
=============================================================================

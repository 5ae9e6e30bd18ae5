------------------------------- MODULE Bulletins -------------------------------
(***************************************************************************)
(* What is announced in the browser build, frontend/standalone/src: the    *)
(* warnings derived for every state and the national feed they and the     *)
(* issued ones stand in (states.js, data.js), and the field reports of the *)
(* open state, which the simulated feed and the public form both write     *)
(* (boot.js, actions.js).                                                  *)
(*                                                                         *)
(* The clock counts minutes.  A row of the feed has the age it shows and   *)
(* the minutes since it was stamped, which the next refresh adds to it.    *)
(* The severity of a state is a band of its strongest hazard: None (under  *)
(* 30, not warned about), Watch, and Warn (45 and over, an authority may   *)
(* issue a warning).                                                       *)
(***************************************************************************)
EXTENDS Naturals, FiniteSets, FiniteSetsExt, Sequences, SequencesExt, Ordering, Page

CONSTANTS
  Recency,       \* Recency[st][band]: the age of the derived warning
  Window,        \* Window[st]: minutes until a derived warning has run out
  IssuedWindow,  \* and an issued one
  FeedMax,       \* 60
  Seeded,        \* Seeded[st]: the reports a state is opened with
  FirstId,       \* 40230
  EventIds,      \* the ids the simulated feed draws from
  MaxIssued, MaxReports, MaxGap  \* bounds: warnings issued, reports kept, minutes
                                 \* between two refreshes

None == 0
Watch == 1
Warn == 2

ASSUME BulletinsAssumption ==
  /\ Home \in States /\ IsFiniteSet(States)
  /\ States = 1..Cardinality(States)  \* the order the feed turns over in
  /\ Recency \in [States -> [Watch..Warn -> Nat]] /\ Window \in [States -> Nat \ {0}]
  /\ IssuedWindow \in Nat \ {0} /\ FeedMax \in Nat \ {0}
  /\ EventIds \subseteq Nat /\ FirstId \in Nat
  /\ Seeded \in [States -> Seq([id : Nat, by : {"seed"}, st : {"pending", "verified"}])]
  /\ MaxIssued \in Nat /\ MaxReports \in Nat /\ MaxGap \in Nat \ {0}

VARIABLES
  sev,      \* the band of S.states[st].hz
  feed,     \* S.national
  cursor,   \* S.feedCursor
  issued,   \* the minutes since each issued warning, by number
  reports   \* S.reports

feedVars == <<feed, cursor, issued>>
bulletinsVars == <<focus, sev, feedVars, reports>>

Derived == 0   \* the number of a warning nobody issued

-----------------------------------------------------------------------------
(* The national feed *)

Warned == {st \in States : sev[st] # None}

\* The first row of buildStateAlerts of a state that has one.  Its age depends on
\* the severity and nothing else.
StateAlert(st) ==
  [state |-> st, number |-> Derived, age |-> Recency[st][sev[st]], since |-> 0,
   window |-> Window[st]]

\* A stable sort, the youngest first.
Younger(rows) ==
  {p \in (DOMAIN rows) \X (DOMAIN rows) :
     \/ rows[p[1]].age < rows[p[2]].age
     \/ rows[p[1]].age = rows[p[2]].age /\ p[1] < p[2]}

Newest(rows) == Sorted(rows, Younger(rows))

BuildNationalFeed == Newest(Kept([st \in Warned |-> StateAlert(st)], Warned))

\* Mutation: a row is aged and keeps its stamp.
AgedTwice(rows) ==
  [i \in DOMAIN rows |-> [rows[i] EXCEPT !.age = @ + rows[i].since]]

Aged(rows) ==
  [i \in DOMAIN rows |-> [rows[i] EXCEPT !.age = @ + rows[i].since, !.since = 0]]

InForce(rows) == Kept(rows, {i \in DOMAIN rows : rows[i].age < rows[i].window})

\* The state under the cursor is derived anew; the derived warning replaces the
\* first row of that state if it is younger.
Rotated(rows, st) ==
  LET mine == {i \in DOMAIN rows : rows[i].state = st}
      new == StateAlert(st)
  IN IF st \notin Warned THEN rows
     ELSE IF mine = {} THEN Append(rows, new)
     ELSE IF new.age < rows[Min(mine)].age THEN [rows EXCEPT ![Min(mine)] = new]
     ELSE rows

\* Mutation: the cursor stays.
NextCursorStuck(c) == c

NextCursor(c) == IF c = Cardinality(States) THEN 1 ELSE c + 1

\* refreshNationalFeed, from the full tick, the heartbeat and the minute's timer.
RefreshNationalFeed ==
  /\ \E left \in {InForce(Aged(feed))} : \E turned \in {Rotated(left, cursor)} :
       feed' = Newest(turned)
  /\ cursor' = NextCursor(cursor)
  /\ UNCHANGED <<focus, sev, issued, reports>>

\* The event of an official warning: pushNational.
IssueAlert ==
  /\ sev[focus] = Warn
  /\ Len(issued) < MaxIssued
  /\ issued' = Append(issued, 0)
  /\ LET row == [state |-> focus, number |-> Len(issued) + 1, age |-> 0, since |-> 0,
                 window |-> IssuedWindow]
         rows == <<row>> \o feed
     IN feed' = Newest(IF Len(rows) > FeedMax THEN Front(rows) ELSE rows)
  /\ UNCHANGED <<focus, sev, cursor, reports>>

\* driftNation: the figures of a state move.
DriftSeverity(st) ==
  /\ sev' \in {[sev EXCEPT ![st] = b] : b \in {None, Watch, Warn} \ {sev[st]}}
  /\ UNCHANGED <<focus, feedVars, reports>>

Minute ==
  /\ \A i \in DOMAIN feed : feed[i].since < MaxGap
  /\ feed' = [i \in DOMAIN feed |-> [feed[i] EXCEPT !.since = @ + 1]]
  /\ issued' = [n \in DOMAIN issued |-> IF issued[n] < IssuedWindow + MaxGap
                                          THEN issued[n] + 1 ELSE issued[n]]
  /\ UNCHANGED <<focus, sev, cursor, reports>>

-----------------------------------------------------------------------------
(* Field reports *)

Ids == {reports[i].id : i \in DOMAIN reports}

\* Mutation: the number of the reports is id enough.
NextReportIdByLength == FirstId + Len(reports)

NextReportId ==
  Min({n \in FirstId + Len(reports)..FirstId + 2 * Len(reports) : n \notin Ids})

\* submitReport, with a description.
SubmitReport ==
  /\ Len(reports) < MaxReports
  /\ reports' = <<[id |-> NextReportId, by |-> "citizen", st |-> "pending"]>> \o reports
  /\ UNCHANGED <<focus, sev, feedVars>>

\* The event of a field report, when none is pending: its id is drawn.
ReportArrives ==
  /\ \A i \in DOMAIN reports : reports[i].st # "pending"
  /\ Len(reports) < MaxReports
  /\ \E id \in EventIds :
       reports' = <<[id |-> id, by |-> "feed", st |-> "pending"]>> \o reports
  /\ UNCHANGED <<focus, sev, feedVars>>

\* Otherwise the newest pending one is verified.
ReportVerified ==
  /\ \E i \in DOMAIN reports : reports[i].st = "pending"
  /\ LET i == Min({k \in DOMAIN reports : reports[k].st = "pending"})
     IN reports' = [reports EXCEPT ![i].st = "verified"]
  /\ UNCHANGED <<focus, sev, feedVars>>

\* loadState: the reports kept here, the public's among them, are gone.
LoadState(st) ==
  /\ focus' = st
  /\ reports' = Seeded[st]
  /\ UNCHANGED <<sev, feedVars>>

-----------------------------------------------------------------------------

BulletinsInit ==
  /\ focus = Home
  /\ sev \in [States -> {None, Watch, Warn}]
  /\ feed = BuildNationalFeed /\ cursor = 1 /\ issued = <<>>
  /\ reports = Seeded[Home]

BulletinsNext ==
  \/ RefreshNationalFeed \/ IssueAlert \/ Minute
  \/ \E st \in States : DriftSeverity(st) \/ LoadState(st)
  \/ SubmitReport \/ ReportArrives \/ ReportVerified

BulletinsSpec == BulletinsInit /\ [][BulletinsNext]_bulletinsVars

\* The pipeline's ticks keep coming.
FairBulletinsSpec == BulletinsSpec /\ WF_bulletinsVars(RefreshNationalFeed)

-----------------------------------------------------------------------------
(* Properties *)

\* An issued warning is shown at its true age, to the last refresh: never younger
\* or older than the time since it was issued, whatever was refreshed, replaced or
\* issued in between, and none that has run out comes back (refreshNationalFeed,
\* "every entry ages against the wall clock, expired warnings leave").
IssuedAgeTrue ==
  \A i \in DOMAIN feed : feed[i].number # Derived =>
    /\ feed[i].age + feed[i].since = issued[feed[i].number]
    /\ feed[i].age < IssuedWindow

\* A state that stays under a warning is in the feed again and again, even after its
\* warnings ran out ("one state is re-derived per tick, so all 36 turn over").
WarnedStateListed ==
  \A st \in States :
    <>[](sev[st] # None) => []<>(\E i \in DOMAIN feed : feed[i].state = st)

\* A report of the public never takes the identifier of another report in the queue
\* (actions.js, nextReportId), the drawn ones included.
CitizenIdFresh ==
  [][Len(reports') = Len(reports) + 1 /\ reports'[1].by = "citizen" =>
       reports'[1].id \notin Ids]_bulletinsVars
================================================================================

------------------------------- MODULE Figures -------------------------------
(***************************************************************************)
(* The pure functions of Spend and Calendar at work.  An input is chosen   *)
(* in two steps, its shape and then its values, and stays; the properties  *)
(* compare what the functions make of it.                                  *)
(***************************************************************************)
EXTENDS Spend, Calendar

CONSTANTS
  Shapes,      \* what an input is about
  InputsOf(_)  \* the inputs of a shape

VARIABLE input

(***************************************************************************)
(* The inputs                                                              *)
(***************************************************************************)
\* A row of balance_history, as the queries of this program return it.
Snapshots == [at : Nat \ {0}, bal : Int, below : BOOLEAN, project : STRING, name : STRING, type : STRING]

\* Rows of one project, ORDER BY timestamp; in seconds two may be alike.
IsSeries(s) == s \in Seq(Snapshots) /\ s # <<>> /\ \A i, j \in DOMAIN s : i <= j => s[i].at <= s[j].at

\* Rows of every project, those of each in order.
IsFleet(s) ==
  s \in Seq(Snapshots) /\ \A i, j \in DOMAIN s : s[i].project = s[j].project /\ i <= j => s[i].at <= s[j].at

\* To the nanosecond no two are.
IsApart(s) == IsSeries(s) /\ \A i, j \in DOMAIN s : i < j => s[i].at < s[j].at

\* Rows of every project, ORDER BY timestamp.
IsHistory(s) == s \in Seq(Snapshots) /\ \A i, j \in DOMAIN s : i <= j => s[i].at <= s[j].at

\* Rows of usage_events: what a tool reports of a day.
Reported == [name : STRING, source : STRING, date : Nat, model : STRING, currency : STRING, cost : Nat]

\* A month begins at midnight.
Months == {m \in [start : Nat, days : 28..31] : m.start % DayTicks = 0}

\* A request for the current month, or for one it names.
Asks(when) ==
  /\ when.asked \subseteq Months /\ Cardinality(when.asked) <= 1 /\ when.current \in Months /\ when.today \in Nat
  /\ when.current.start <= when.today /\ when.today < when.current.start + (DayTicks * when.current.days)

\* The name of a project is its key.
AreProjects(P) ==
  /\ IsFiniteSet(P) /\ P \subseteq [name : STRING, currency : STRING, budget : Int]
  /\ \A p, q \in P : p.name = q.name => p = q

Sane(x) ==
  CASE x.kind \in {"flows", "shape"} -> IsApart(x.series)
    [] x.kind \in {"agree", "months"} -> IsSeries(x.series) /\ x.with \in Nat
    [] x.kind = "costs" ->
         /\ IsHistory(x.series) /\ Asks(x.when) /\ \A i \in DOMAIN x.series : x.series[i].at <= x.when.today
         /\ AreProjects(x.projects)
         /\ IsFiniteSet(x.cells) /\ x.cells \subseteq Reported
         /\ x.fx \in [DOMAIN x.fx -> Int]
    [] x.kind = "weekly" ->
         /\ IsFleet(x.series) /\ x.now \in Nat
         /\ x.results \in Seq([id : STRING, success : BOOLEAN, alarm : BOOLEAN])
    [] x.kind = "renewal" ->
         /\ x.today \in Nat \ {0} /\ x.span \in Nat
         /\ x.p.cycle \in Cycles /\ x.p.day \in Nat /\ validRenewalDay(x.p.cycle, x.p.day) /\ x.p.before \in Nat
         /\ x.p.mark \in Nat \ {0} \/ (x.p.mark = NoMark /\ ~x.marked)
         /\ x.p.cycle = "lunar_yearly" =>
              /\ x.today \in LunarDaysKnown
              /\ x.marked => x.p.mark \in LunarDaysKnown /\ x.p.mark + x.span \in LunarDaysKnown
    [] OTHER -> TRUE

ASSUME FiguresAssumption ==
  \A shape \in Shapes : shape.step = "shape" /\ \A x \in InputsOf(shape) : x.step = "input" /\ Sane(x)

-------------------------------------------------------------------------------
NoInput == [step |-> "none"]

FiguresInit == input = NoInput

ChooseShape == input = NoInput /\ input' \in Shapes

ChooseInput == input.step = "shape" /\ input' \in InputsOf(input)

FiguresNext == ChooseShape \/ ChooseInput

FiguresSpec == FiguresInit /\ [][FiguresNext]_input

-------------------------------------------------------------------------------
(* What the figures of one input owe each other.                            *)

Given(k) == input.step = "input" /\ input.kind = k

\* The estimates of runway.go and the spend_summary tool read the same series alike.
EstimatesAgree ==
  Given("agree") => SpendAgreesWithRunway(input.series, IF input.with = 0 THEN input.series[Len(input.series)].at ELSE input.with)

\* Spending less top-ups is what the balance lost, in every reading and grouping of trend.go and spend.go,
\* and the thinned trend tells no more spending than there was.
NothingLostInGroups == Given("flows") => FlowsConserve(input.series, input.with)

\* SpendInMonth puts what was spent across a month's boundary in one of the months, once.
MonthBoundaryCounted == Given("months") => MonthsSplit(input.series, input.with)

\* The costs page counts what a month cost, from balances or reports, once, but for
\* what it cannot read or counts again.
CostsCountedOnce ==
  Given("costs") => CountedOnce(input.series, input.projects, input.cells, input.fx, input.when)

\* The weekly report sums what spend_summary reads and charts the largest spenders.
WeeklyReportAgrees ==
  Given("weekly") => ReportAgrees(input.series, input.results, input.subs, input.now)

\* The pieces of code that compute spending agree: the dashboard's estimates, the
\* agents' summaries and groupings, and the weekly report.
SpendingAgrees == EstimatesAgree /\ NothingLostInGroups /\ WeeklyReportAgrees

\* What the costs page counts of a month, and what it misses: spending across the
\* month's boundary, before what is read, and of names with balances and reports.
CostsExact == MonthBoundaryCounted /\ CostsCountedOnce

\* A chart that downsampleTrend thins keeps its ends, order and extremes.
ChartKeepsShape == Given("shape") => ShapeSurvives(input.series)

\* Evaluate gives the first renewal of the schedule from today on, month ends, leap days and lunar months included.
RenewalIsEarliest == Given("renewal") => EarliestRenewal(input.p, input.today)

\* Marking a subscription renewed silences one renewal, the one that was paid.
MarkSilencesOne == Given("renewal") /\ input.marked => MarkPaysForOne(input.p, input.span)

\* Dates and marks together: every renewal is announced unless it was paid.
RenewalsRight == RenewalIsEarliest /\ MarkSilencesOne
===============================================================================

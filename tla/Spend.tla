-------------------------------- MODULE Spend ---------------------------------
(***************************************************************************)
(* Spending read out of balance snapshots.  Four parts of the program turn *)
(* the same snapshots into spending, each with code of its own: the runway *)
(* estimates (runway.go), the MCP spend_summary and balance_trend tools    *)
(* (mcpserver/spend.go, trend.go), the monthly costs (cost.go, costs.go)   *)
(* and the weekly report (weekly.go).  Pure functions; TLC evaluates them  *)
(* on every series of a bounded set.                                       *)
(*                                                                         *)
(* A snapshot is [at, bal, below].  A tick is a quarter of a day, the day  *)
(* begins at the ticks divisible by 4 and tick 0 is a Monday.  Amounts are *)
(* exact: a quotient stays a pair, and the rounding of the reported        *)
(* figures to cents or micro-units is left out.                            *)
(***************************************************************************)
EXTENDS Integers, Sequences, FiniteSets, FiniteSetsExt, SequencesExt

CONSTANT TrendPointCap   \* trendPointCap, 600

ASSUME TrendAssumption == TrendPointCap \in Nat /\ TrendPointCap >= 2

DayTicks == 4
MinPoints == 4
MinSpan == 1             \* MinSpanHours: 6 hours
MinBaselineDays == 3
TopN == 3
UpcomingDays == 30

Day4(at) == at \div DayTicks
Larger(a, b) == IF a > b THEN a ELSE b
Smaller(a, b) == IF a < b THEN a ELSE b
Nil == <<>>   \* an absent figure; a figure is <<n>> or a quotient <<n, d>>
Spent(s, i) == Larger(s[i - 1].bal - s[i].bal, 0)
Gained(s, i) == Larger(s[i].bal - s[i - 1].bal, 0)
Spending(s) == [i \in 2..Len(s) |-> Spent(s, i)]
TopUps(s) == [i \in 2..Len(s) |-> Gained(s, i)]

\* The elements at the positions I of s, as the order R of positions puts them.
Arranged(s, I, R) ==
  [k \in 1..Cardinality(I) |-> s[CHOOSE i \in I : Cardinality({j \in I : <<j, i>> \in R}) = k]]

Pairs(s) == (1..Len(s)) \X (1..Len(s))

\* The elements at the positions I, in the order they have.
Where(s, I) == Arranged(s, I, {p \in Pairs(s) : p[1] <= p[2]})

\* A stable sort of the elements at the positions I.  `less' are the pairs of which the
\* first goes before the second; what does not go before an earlier one stays after it.
SortedBy(s, I, less) ==
  Arranged(s, I, {p \in Pairs(s) : p \in less \/ (p[1] <= p[2] /\ <<p[2], p[1]>> \notin less)})

\* The rows of one account, and of one name.
OfAccount(series, id) == Where(series, {i \in DOMAIN series : series[i].project = id})
OfName(series, name) == Where(series, {i \in DOMAIN series : series[i].name = name})

\* Twice the median, which stays whole: the middle value or the middle two.
Median2(values) ==
  LET sorted == SortedBy(values, DOMAIN values, {p \in Pairs(values) : values[p[1]] < values[p[2]]})
      n == Len(sorted)
  IN  IF n = 0 THEN 0
      ELSE IF n % 2 = 1 THEN 2 * sorted[(n \div 2) + 1]
      ELSE sorted[n \div 2] + sorted[(n \div 2) + 1]

(***************************************************************************)
(* runway.go                                                               *)
(***************************************************************************)
\* validPoints: what has a time, oldest first (sort.Slice leaves a list that is in
\* order as it is, equal times included).
ValidPoints(records) ==
  SortedBy(records, {i \in DOMAIN records : records[i].at # 0},
           {p \in Pairs(records) : records[p[1]].at < records[p[2]].at})

\* splitFlows: a drop is consumption on the later snapshot's day, a rise a top-up.
SplitFlows(points) ==
  FoldLeft(LAMBDA acc, i :
             [consumed |-> acc.consumed + Spent(points, i),
              toppedUp |-> acc.toppedUp + Gained(points, i),
              perDay |-> [acc.perDay EXCEPT ![Day4(points[i].at)] = @ + Spent(points, i)]],
           [consumed |-> 0, toppedUp |-> 0,
            perDay |-> [d \in Day4(points[1].at)..Day4(points[Len(points)].at) |-> 0]],
           [k \in 1..(Len(points) - 1) |-> k + 1])

\* fillDaily: every day from the first snapshot to the last.
FillDaily(perDay, first, last) ==
  [k \in 1..(Day4(last) - Day4(first) + 1) |->
     [date |-> Day4(first) + k - 1, consumed |-> perDay[Day4(first) + k - 1]]]

\* Mutant: today counts toward its own baseline.
SpikeWithToday(daily, today) ==
  IF daily = <<>> \/ daily[Len(daily)].date # today THEN <<Nil, Nil>>
  ELSE LET spent == daily[Len(daily)].consumed
           mid == Median2([i \in DOMAIN daily |-> daily[i].consumed])
       IN  IF Len(daily) - 1 < MinBaselineDays \/ ~(mid > 0) THEN <<<<spent>>, Nil>> ELSE <<<<spent>>, <<2 * spent, mid>>>>

\* spike: today's spending and its ratio to the median of the days before.
Spike(daily, today) ==
  IF daily = <<>> \/ daily[Len(daily)].date # today THEN <<Nil, Nil>>
  ELSE LET spent == daily[Len(daily)].consumed
           mid == Median2([i \in 1..(Len(daily) - 1) |-> daily[i].consumed])
       IN  IF Len(daily) - 1 < MinBaselineDays \/ ~(mid > 0) THEN <<<<spent>>, Nil>>
           ELSE <<<<spent>>, <<2 * spent, mid>>>>

Confidence(points, span) ==
  CASE points < MinPoints \/ span < MinSpan -> "none"
    [] span < DayTicks -> "low"
    [] span < 3 * DayTicks -> "medium"
    [] OTHER -> "high"

NoRunway == [confidence |-> "none", consumed |-> 0, toppedUp |-> 0, burn |-> Nil,
             runway |-> Nil, daily |-> <<>>, today |-> Nil, spike |-> Nil]

\* Compute, for an account that is not a quota.
Compute(records, now) ==
  LET points == ValidPoints(records)
      n == Len(points)
      span == points[n].at - points[1].at
      flows == SplitFlows(points)
      known == [NoRunway EXCEPT !.consumed = flows.consumed, !.toppedUp = flows.toppedUp,
                                !.confidence = Confidence(n, span)]
      daily == FillDaily(flows.perDay, points[1].at, points[n].at)
      today == Spike(daily, Day4(now))
  IN  IF n < 2 THEN NoRunway
      ELSE IF known.confidence = "none" THEN known
      ELSE [known EXCEPT
              !.burn = <<flows.consumed * DayTicks, span>>,
              !.runway = IF flows.consumed = 0 THEN Nil
                         ELSE <<Larger(points[n].bal, 0) * span, flows.consumed * DayTicks>>,
              !.daily = daily, !.today = today[1], !.spike = today[2]]

\* ComputeAll: one profile per account; an account with a quota snapshot has none.
ComputeAll(series, now) ==
  LET ids == {series[i].project : i \in DOMAIN series}
      of(id) == OfAccount(series, id)
      quota(id) == \E i \in DOMAIN of(id) : of(id)[i].type = "quota"
  IN  [id \in {x \in ids : ~quota(x)} |-> Compute(of(id), now)]

\* Attach: a check that succeeded carries its account's profile.
Attach(results, runways) ==
  [i \in DOMAIN results |->
     IF results[i].success /\ results[i].id \in DOMAIN runways
     THEN [results[i] EXCEPT !.runway = runways[results[i].id]] ELSE results[i]]

(***************************************************************************)
(* mcpserver/spend.go, trend.go                                            *)
(***************************************************************************)
\* spendView, of samples in order of time.
SpendView(samples, now) ==
  LET n == Len(samples)
      days == Day4(samples[1].at)..Day4(samples[n].at)
      on(d) == {i \in 2..n : Day4(samples[i].at) = d}
      daily == [k \in 1..Cardinality(days) |->
                  LET d == Day4(samples[1].at) + k - 1
                  IN  [date |-> d,
                       consumed |-> SumFunctionOnSet(Spending(samples), on(d)),
                       toppedUp |-> SumFunctionOnSet(TopUps(samples), on(d))]]
      earlier == [k \in 1..(Len(daily) - 1) |-> daily[k].consumed]
      span == samples[n].at - samples[1].at
      isToday == daily[Len(daily)].date = Day4(now)
  IN  [consumed |-> SumFunction(Spending(samples)),
       toppedUp |-> SumFunction(TopUps(samples)),
       daily |-> daily,
       perDay |-> IF n < 2 THEN Nil ELSE <<SumFunction(Spending(samples)) * DayTicks, span>>,
       today |-> IF isToday THEN <<daily[Len(daily)].consumed>> ELSE Nil,
       spike |-> IF isToday /\ Len(earlier) >= MinBaselineDays /\ Median2(earlier) > 0
                 THEN <<2 * daily[Len(daily)].consumed, Median2(earlier)>> ELSE Nil]

\* bucketStart; weeks start on Monday.
BucketStart(at, interval) ==
  CASE interval = "hour" -> at
    [] interval = "week" -> at - (at % (7 * DayTicks))
    [] OTHER -> at - (at % DayTicks)

\* bucket: one point per interval, with its last balance and its range.
Bucket(samples, interval) ==
  LET open(s) == [at |-> IF interval = "raw" THEN s.at ELSE BucketStart(s.at, interval),
                  bal |-> s.bal, low |-> s.bal, high |-> s.bal, n |-> 1, below |-> s.below]
      join(p, s) == [p EXCEPT !.bal = s.bal, !.below = s.below, !.n = @ + 1,
                              !.low = Smaller(@, s.bal), !.high = Larger(@, s.bal)]
  IN  FoldLeft(LAMBDA points, s :
                 IF interval # "raw" /\ points # <<>> /\ points[Len(points)].at = BucketStart(s.at, interval)
                 THEN [points EXCEPT ![Len(points)] = join(@, s)]
                 ELSE Append(points, open(s)),
               <<>>, samples)

\* summarize: the range and the flows of the samples it is given.
Summarize(samples) ==
  LET balances == {samples[i].bal : i \in DOMAIN samples}
  IN  [count |-> Len(samples), low |-> Min(balances), high |-> Max(balances),
       change |-> samples[Len(samples)].bal - samples[1].bal,
       consumed |-> SumFunction(Spending(samples)),
       toppedUp |-> SumFunction(TopUps(samples)),
       topUps |-> Cardinality({i \in 2..Len(samples) : Gained(samples, i) > 0})]

(***************************************************************************)
(* store/sql.go: the series a chart is drawn from                          *)
(***************************************************************************)
\* Mutant: a bucket keeps its ends, not its extremes.
PicksEnds(points, i, end) ==
  IF end <= i + 2 THEN [k \in 1..(end - i) |-> i + k - 1] ELSE <<i, end - 1>>

\* What a bucket of the 0-based points i..end-1 contributes: its minimum and
\* maximum in the order of time, or all of it when it has one or two points.
Picks(points, i, end) ==
  LET B == i..(end - 1)
      low == Min({j \in B : \A k \in B : points[j + 1].bal <= points[k + 1].bal})
      high == Min({j \in B : \A k \in B : points[j + 1].bal >= points[k + 1].bal})
  IN  IF end <= i + 2 THEN [k \in 1..(end - i) |-> i + k - 1]
      ELSE <<Smaller(low, high), Larger(low, high)>>

\* downsampleTrend
DownsampleTrend(points) ==
  LET n == Len(points)
      buckets == TrendPointCap \div 2
      end(i) == LET bucket == (i * buckets) \div n
                    next == ((bucket + 1) * n + buckets - 1) \div buckets
                IN  Smaller(Larger(next, i + 1), n)
      from[i \in 0..n] == IF i = n THEN <<>> ELSE Picks(points, i, end(i)) \o from[end(i)]
      add(out, i) == IF out # <<>> /\ out[Len(out)].at = points[i + 1].at THEN out
                     ELSE Append(out, points[i + 1])
  IN  IF n <= TrendPointCap THEN points
      ELSE FoldLeft(add, <<>>, <<0>> \o from[1] \o <<n - 1>>)

\* BalanceTrend: the summary is of every row, only the drawn series is thinned.
BalanceTrend(points) ==
  [count |-> Len(points), current |-> points[Len(points)].bal,
   low |-> Min({points[i].bal : i \in DOMAIN points}),
   high |-> Max({points[i].bal : i \in DOMAIN points}),
   history |-> DownsampleTrend(points)]

\* The balance_trend tool summarizes and groups the drawn series, not every row.
TrendTool(rows, interval) ==
  LET samples == BalanceTrend(rows).history
  IN  [summary |-> Summarize(samples), points |-> Bucket(samples, interval)]

(***************************************************************************)
(* cost.go, costs.go                                                       *)
(***************************************************************************)
\* Mutant: the month begins with its first snapshot.
SpendInMonthInside(points, monthStart, now) ==
  SumFunctionOnSet(Spending(points),
                   {i \in 2..Len(points) : points[i - 1].at >= monthStart /\ points[i].at <= now})

\* SpendInMonth: the first snapshot of the month is compared with the last
\* one before it.
SpendInMonth(points, monthStart, now) ==
  SumFunctionOnSet(Spending(points), {i \in 2..Len(points) : points[i].at >= monthStart /\ points[i].at <= now})

\* Projected: to the month's end in proportion; nothing on day one.
Projected(spend, elapsed, inMonth) ==
  IF elapsed <= 1 \/ elapsed >= inMonth THEN <<spend, 1>> ELSE <<spend * inMonth, elapsed>>

\* The month a request is about: the one it asks for when that has begun, else the
\* current one.  A month is [start, days].
MonthShown(when) ==
  LET begun == {m \in when.asked : m.start <= when.today}
  IN  IF begun = {} THEN when.current ELSE CHOOSE m \in begun : TRUE

\* What is read of it.  `now' is today, or the end of the month that was asked for;
\* the balances go back daysInMonth + 1 days, from today whatever the month.
MonthRead(when) ==
  LET m == MonthShown(when)
      now == IF \E x \in when.asked : x.start <= when.today THEN m.start + (DayTicks * m.days) - 1 ELSE when.today
  IN  [start |-> m.start, now |-> now, elapsed |-> Day4(now) - Day4(m.start) + 1, inMonth |-> m.days,
       since |-> when.today - (DayTicks * (m.days + 1))]

\* An amount in the base currency; fx is the value there of one unit.
InBase(amount, currency, fx) == IF currency \in DOMAIN fx THEN amount * fx[currency] ELSE 0

\* The rows of a name that BalanceSeries reads.
NameSince(series, name, since) ==
  Where(series, {i \in DOMAIN series : series[i].name = name /\ series[i].at >= since})

\* Build: the month of every configured project, from the balances.
BuildCosts(series, projects, fx, month) ==
  {LET spend == SpendInMonth(NameSince(series, p.name, month.since), month.start, month.now)
       projected == Projected(spend, month.elapsed, month.inMonth)
   IN  [name |-> p.name, from |-> "balance", source |-> "", currency |-> p.currency, spend |-> spend,
        over |-> p.budget > 0 /\ projected[1] > p.budget * projected[2],
        base |-> InBase(spend, p.currency, fx)] : p \in projects}

\* ListUsageSpend: the cells from a day on, summed by name, source and currency.
ReportedSince(cells, day) ==
  LET read == {c \in cells : c.date >= day}
      like(c) == {x \in read : x.name = c.name /\ x.source = c.source /\ x.currency = c.currency}
  IN  {[name |-> c.name, source |-> c.source, currency |-> c.currency,
        cost |-> SumFunction([x \in like(c) |-> x.cost])] : c \in read}

\* mergeReportedUsage: what was reported for names that are no configured project.
MergeReportedUsage(rows, usage, fx) ==
  LET known == {r.name : r \in rows}
  IN  rows \cup {[name |-> u.name, from |-> "usage", source |-> u.source, currency |-> u.currency, spend |-> u.cost,
                  over |-> FALSE, base |-> InBase(u.cost, u.currency, fx)]
                  : u \in {x \in usage : x.name \notin known /\ x.cost # 0}}

\* handleCostsSummary
CostsSummary(series, projects, cells, fx, when) ==
  LET month == MonthRead(when)
      rows == MergeReportedUsage(BuildCosts(series, projects, fx, month), ReportedSince(cells, Day4(month.start)), fx)
  IN  [rows |-> rows, total |-> SumFunction([r \in rows |-> r.base])]

(***************************************************************************)
(* report/weekly.go                                                        *)
(***************************************************************************)
\* spendRows: a row for each check that succeeded and has a profile.
SpendRows(results, runways) ==
  LET rows == Where(results, {i \in DOMAIN results : results[i].success /\ results[i].id \in DOMAIN runways})
  IN  [i \in DOMAIN rows |-> [id |-> rows[i].id, consumed |-> runways[rows[i].id].consumed,
                              runway |-> runways[rows[i].id].runway]]

Head3(rows) == SubSeq(rows, 1, Smaller(TopN, Len(rows)))
\* A quotient p is less than q.
Sooner(p, q) == p[1] * q[2] < q[1] * p[2]

\* upcomingSubscriptions: due within a month and not renewed this cycle.
Upcoming(subs) ==
  Where(subs, {i \in DOMAIN subs : ~subs[i].renewed /\ subs[i].days \in 0..UpcomingDays})

\* Build
WeeklyReport(results, subs, runways) ==
  LET rows == SpendRows(results, runways)
      ending == {i \in DOMAIN rows : rows[i].runway # Nil}
      upcoming == Upcoming(subs)
  IN  [accounts |-> Len(results), alerting |-> Cardinality({i \in DOMAIN results : results[i].success /\ results[i].alarm}),
       failed |-> Cardinality({i \in DOMAIN results : ~results[i].success}),
       total |-> IF rows = <<>> THEN Nil ELSE <<SumFunction([i \in DOMAIN rows |-> rows[i].consumed])>>,
       topSpend |-> Head3(SortedBy(rows, DOMAIN rows, {p \in Pairs(rows) : rows[p[1]].consumed > rows[p[2]].consumed})),
       shortest |-> Head3(SortedBy(rows, ending, {p \in ending \X ending : Sooner(rows[p[1]].runway, rows[p[2]].runway)})),
       upcoming |-> SortedBy(upcoming, DOMAIN upcoming, {p \in Pairs(upcoming) : upcoming[p[1]].days < upcoming[p[2]].days}),
       amount |-> SumFunction([i \in DOMAIN upcoming |-> upcoming[i].amount])]

-------------------------------------------------------------------------------
(***************************************************************************)
(* What the four readings owe each other.  A series is in order of time.   *)
(***************************************************************************)
\* spend_summary agrees with the runway estimates (spend.go): the same spending
\* and top-ups, the same days, today's part and its spike, and the same rate
\* wherever the runway dares to give one.
SpendAgreesWithRunway(samples, now) ==
  LET r == Compute(samples, now)
      v == SpendView(samples, now)
  IN  /\ r.consumed = v.consumed /\ r.toppedUp = v.toppedUp
      /\ r.confidence # "none" =>
           /\ r.burn = v.perDay /\ r.today = v.today /\ r.spike = v.spike
           /\ Len(r.daily) = Len(v.daily)
           /\ \A k \in DOMAIN r.daily : /\ r.daily[k].date = v.daily[k].date
                                       /\ r.daily[k].consumed = v.daily[k].consumed

\* Whoever reads the rows, spending less top-ups is what the balance lost.  For
\* spend_summary the days add up to all that was spent.  balance_trend "describes
\* every sample of the window" (trend.go:64) up to the chart's cap; above it the range,
\* the ends and the net change are still those of every row, but spending between
\* the drawn ones is missed.  Each drawn snapshot is in one point.
FlowsConserve(rows, interval) ==
  LET n == Len(rows)
      lost == rows[1].bal - rows[n].bal
      balances == {rows[i].bal : i \in DOMAIN rows}
      v == SpendView(rows, rows[n].at)
      tool == TrendTool(rows, interval)
      t == tool.summary
      b == tool.points
  IN  /\ v.consumed - v.toppedUp = lost
      /\ SumFunction([k \in DOMAIN v.daily |-> v.daily[k].consumed]) = v.consumed
      /\ SumFunction([k \in DOMAIN v.daily |-> v.daily[k].toppedUp]) = v.toppedUp
      /\ t.consumed - t.toppedUp = lost /\ t.change = 0 - lost
      /\ t.low = Min(balances) /\ t.high = Max(balances)
      /\ t.count <= n /\ t.consumed <= v.consumed
      /\ n <= TrendPointCap => t.count = n /\ t.consumed = v.consumed
      /\ SumFunction([i \in DOMAIN b |-> b[i].n]) = t.count
      /\ \A i \in DOMAIN b \ {1} : b[i - 1].at < b[i].at
      /\ b[Len(b)].bal = rows[n].bal
      /\ Min({b[i].low : i \in DOMAIN b}) = t.low /\ Max({b[i].high : i \in DOMAIN b}) = t.high

\* "Every dip and spike survives": a thinned series is in order, keeps the ends
\* and the extremes, and stays within two points of the cap.
ShapeSurvives(points) ==
  LET trend == BalanceTrend(points)
      drawn == trend.history
      kept == {drawn[i].bal : i \in DOMAIN drawn}
  IN  /\ \A i \in DOMAIN drawn \ {1} : drawn[i - 1].at < drawn[i].at
      /\ ToSet(drawn) \subseteq ToSet(points)
      /\ drawn[1] = points[1] /\ drawn[Len(drawn)] = points[Len(points)]
      /\ {trend.low, trend.high} \subseteq kept
      /\ Len(drawn) <= Larger(TrendPointCap, Len(points)) /\ Len(drawn) <= TrendPointCap + 2

\* Two months that follow each other split the spending between them: what was
\* spent across the boundary is in one of them, once (cost.go).
MonthsSplit(points, boundary) ==
  LET last == points[Len(points)].at
  IN  SpendInMonth(points, points[1].at, boundary - 1) + SpendInMonth(points, boundary, last)
        = SumFunction(Spending(points))

\* What a name spent in the month m, of all the snapshots that are kept, and the part
\* of it that the page cannot see: it was spent since a snapshot older than the
\* m.days + 1 days that are read (costs.go:35).
StepsIn(all, m) == {i \in 2..Len(all) : m.start <= all[i].at /\ all[i].at < m.start + (DayTicks * m.days)}
StepsUnread(all, m, today) == {i \in StepsIn(all, m) : all[i - 1].at < today - (DayTicks * (m.days + 1))}
SpentIn(all, m) == SumFunctionOnSet(Spending(all), StepsIn(all, m))
SpentUnread(all, m, today) == SumFunctionOnSet(Spending(all), StepsUnread(all, m, today))

\* The name was checked on the day before m began, or never before m.
CheckedBefore(all, m) ==
  \/ \E i \in DOMAIN all : m.start - DayTicks <= all[i].at /\ all[i].at < m.start
  \/ \A i \in DOMAIN all : m.start <= all[i].at

\* What was reported for the days of m, and after them; a name has its balances if it
\* is a configured project.
CellsOf(cells, m) == {c \in cells : Day4(m.start) <= c.date /\ c.date < Day4(m.start) + m.days}
CellsAfter(cells, m) == {c \in cells : c.date >= Day4(m.start) + m.days}
OfProjects(cells, projects) == {c \in cells : \E p \in projects : p.name = c.name}
CellsWorth(cells, fx) == SumFunction([c \in cells |-> InBase(c.cost, c.currency, fx)])

\* The total is what the month cost, of everything that was spent or reported and not
\* of what is read, but for exactly this: spending since snapshots too old to be read
\* is missed; costs reported for a configured project are left out, "reports on the
\* same name would double-count it" (costs.go:52), also when it has no balances; and
\* costs reported for the months after it are in it (usage.go:75).  In the current
\* month nothing is missed of a project that was checked on the day before it.
CountedOnce(series, projects, cells, fx, when) ==
  LET s == CostsSummary(series, projects, cells, fx, when)
      m == MonthShown(when)
      spent(p) == SpentIn(OfName(series, p.name), m)
      unread(p) == SpentUnread(OfName(series, p.name), m, when.today)
      after == CellsAfter(cells, m)
  IN  /\ \A r, x \in s.rows : r.name = x.name => r.from = x.from
      /\ \A p \in projects : \E r \in s.rows :
           r.name = p.name /\ r.from = "balance" /\ r.spend + unread(p) = spent(p)
      /\ s.total + SumFunction([p \in projects |-> InBase(unread(p), p.currency, fx)])
                 + CellsWorth(OfProjects(CellsOf(cells, m), projects), fx)
           = SumFunction([p \in projects |-> InBase(spent(p), p.currency, fx)])
             + CellsWorth(CellsOf(cells, m), fx) + CellsWorth(after \ OfProjects(after, projects), fx)
      /\ m = when.current => \A p \in projects : CheckedBefore(OfName(series, p.name), m) => unread(p) = 0

\* The weekly report's total is what spend_summary reads for the accounts whose
\* checks succeed, and nothing left off the chart spent more than what is on it.
ReportAgrees(series, results, subs, now) ==
  \A runways \in {ComputeAll(series, now)} :
    LET report == WeeklyReport(results, subs, runways)
        counted == {i \in DOMAIN results : results[i].success /\ results[i].id \in DOMAIN runways}
        view(i) == SpendView(OfAccount(series, results[i].id), now)
        charted == {report.topSpend[k].id : k \in DOMAIN report.topSpend}
    IN  /\ counted # {} => report.total = <<SumFunction([i \in counted |-> view(i).consumed])>>
        /\ \A i \in counted : results[i].id \notin charted =>
             \A k \in DOMAIN report.topSpend : report.topSpend[k].consumed >= view(i).consumed
===============================================================================

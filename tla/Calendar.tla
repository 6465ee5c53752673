------------------------------ MODULE Calendar ------------------------------
(***************************************************************************)
(* Renewal dates (src/internal/subscription/date.go).  A date is its day   *)
(* number in the proleptic Gregorian calendar, day 1 being Monday          *)
(* 0001-01-01; time.Time at midnight of a location is such a number, and   *)
(* AddDate(0, 0, n) and the difference of two dates are plain arithmetic.  *)
(* A renewal mark is a date or NoMark.                                     *)
(***************************************************************************)
EXTENDS Integers, Sequences, FiniteSets, Functions

NoMark == -1

Cycles == {"weekly", "monthly", "yearly", "lunar_yearly"}

-----------------------------------------------------------------------------
(* The Gregorian calendar: package time.                                   *)

IsLeap(y) == y % 4 = 0 /\ (y % 100 # 0 \/ y % 400 = 0)

MonthLengths == <<31, 28, 31, 30, 31, 30, 31, 31, 30, 31, 30, 31>>

DaysBeforeMonth == <<0, 31, 59, 90, 120, 151, 181, 212, 243, 273, 304, 334>>

\* The last day of a month: day zero of the next one.
daysInMonth(y, m) == IF m = 2 /\ IsLeap(y) THEN 29 ELSE MonthLengths[m]

DaysBeforeYear(y) == 365 * (y - 1) + (y - 1) \div 4 - (y - 1) \div 100 + (y - 1) \div 400

DayNumber(y, m, d) ==
  DaysBeforeYear(y) + DaysBeforeMonth[m] + (IF m > 2 /\ IsLeap(y) THEN 1 ELSE 0) + d

Year(n) == CHOOSE y \in (n \div 366)..(n \div 365 + 1) :
             DaysBeforeYear(y) < n /\ n <= DaysBeforeYear(y + 1)

Month(n) == LET y == Year(n)
            IN  CHOOSE m \in 1..12 : DayNumber(y, m, 1) <= n /\ n < DayNumber(y, m, 1) + daysInMonth(y, m)

DayOf(n) == n - DayNumber(Year(n), Month(n), 1) + 1

isoWeekday(n) == ((n - 1) % 7) + 1

-----------------------------------------------------------------------------
(* The Chinese calendar, 2023 to 2026: package lunar-go.  A year starts on *)
(* a day, its months have 29 or 30 days and one of them may be repeated.   *)

LunarYears ==
  [y \in 2023..2026 |->
    CASE y = 2023 -> [start |-> DayNumber(2023, 1, 22), repeated |-> 2,
                      days |-> <<29, 30, 29, 29, 30, 30, 29, 30, 30, 29, 30, 29, 30>>]
      [] y = 2024 -> [start |-> DayNumber(2024, 2, 10), repeated |-> 13,
                      days |-> <<29, 30, 29, 29, 30, 29, 30, 30, 29, 30, 30, 29>>]
      [] y = 2025 -> [start |-> DayNumber(2025, 1, 29), repeated |-> 6,
                      days |-> <<30, 29, 30, 29, 29, 30, 29, 30, 29, 30, 30, 30, 29>>]
      [] y = 2026 -> [start |-> DayNumber(2026, 2, 17), repeated |-> 13,
                      days |-> <<30, 29, 30, 29, 29, 30, 29, 29, 30, 30, 30, 29>>]]

\* Days of which the table has the lunar years before, of and after them.
LunarDaysKnown == LunarYears[2024].start..(LunarYears[2026].start - 1)

LunarYear(n) == CHOOSE y \in DOMAIN LunarYears :
                  /\ LunarYears[y].start <= n
                  /\ y + 1 \in DOMAIN LunarYears => n < LunarYears[y + 1].start

\* The days of the first `count' months of a lunar year.
LunarDays(lunarYear, count) == SumFunctionOnSet(LunarYears[lunarYear].days, 1..count)

-----------------------------------------------------------------------------
(* date.go.                                                                *)

\* The month and day of an MMDD value, or nothing.
SplitMMDD(renewalDay) ==
  LET month == renewalDay \div 100
      day == renewalDay % 100
  IN  IF renewalDay > 31 /\ month \in 1..12 /\ day \in 1..31 THEN {<<month, day>>} ELSE {}

\* A renewal day as it is typed: a number, or month and day ("03-15").  Only the
\* yearly cycles keep the month.  Nothing for what cannot be parsed.
CoerceRenewalDay(value, cycleType) ==
  CASE value.kind = "date" ->
         {IF cycleType \in {"yearly", "lunar_yearly"} THEN value.month * 100 + value.day ELSE value.day}
    [] value.kind = "number" -> {value.day}
    [] OTHER -> {}

\* Mutant: a day past the end of the month overflows into the next one.
safeMonthDateOverflow(y, m, day) == DayNumber(y, m, 1) + day - 1

\* A day of a month, no later than the month's end.
safeMonthDate(y, m, day) ==
  LET maxDay == daysInMonth(y, m)
      inMonth == IF day > maxDay THEN maxDay ELSE day
  IN  DayNumber(y, m, IF inMonth < 1 THEN 1 ELSE inMonth)

\* `\div' and `%' of TLA+ round down, as floorDiv and floorMod do.
shiftMonth(base, months, day) ==
  LET total == Month(base) - 1 + months
  IN  safeMonthDate(Year(base) + total \div 12, (total % 12) + 1, day)

safeReplaceYear(base, y) == safeMonthDate(y, Month(base), DayOf(base))

\* The Gregorian date of a lunar month and day, if that year has it.
lunarDate(lunarYear, renewalDay) ==
  LET year == LunarYears[lunarYear]
      Index(m) == IF m > year.repeated THEN m + 1 ELSE m
  IN  {year.start + LunarDays(lunarYear, Index(md[1]) - 1) + md[2] - 1 :
         md \in {x \in SplitMMDD(renewalDay) : x[2] <= year.days[Index(x[1])]}}

\* The lunar year that holds today is tried first, then the next one, and if
\* neither has the day the answer is a year from today.
nextLunarYearlyDate(renewalDay, today) ==
  LET this == {d \in lunarDate(LunarYear(today), renewalDay) : d >= today}
      following == lunarDate(LunarYear(today) + 1, renewalDay)
  IN  CHOOSE d \in (IF this # {} THEN this
                    ELSE IF following # {} THEN following
                    ELSE {safeReplaceYear(today, Year(today) + 1)}) : TRUE

\* AddDate(-1, 0, 0) turns February 29 into March 1.
previousLunarYearlyDate(renewalDay, next) ==
  LET previous == lunarDate(LunarYear(next) - 1, renewalDay)
  IN  IF previous # {} THEN CHOOSE d \in previous : TRUE
      ELSE DayNumber(Year(next) - 1, Month(next), 1) + DayOf(next) - 1

\* A yearly plan without month and day renews on the anniversary of its mark.
newSchedule(cycleType, renewalDay, lastRenewed) ==
  [cycle |-> cycleType, day |-> renewalDay,
   anchor |-> IF cycleType = "yearly" /\ SplitMMDD(renewalDay) = {} THEN lastRenewed ELSE NoMark]

\* The renewal of a yearly plan in one year; `base' stands in when it is unknown.
YearlyIn(s, y, base) ==
  IF SplitMMDD(s.day) # {}
  THEN LET md == CHOOSE x \in SplitMMDD(s.day) : TRUE IN safeMonthDate(y, md[1], md[2])
  ELSE safeReplaceYear(IF s.anchor # NoMark THEN s.anchor ELSE base, y)

\* The first renewal on or after a day.
onOrAfter(s, day) ==
  CASE s.cycle = "weekly" ->
         LET ahead == s.day - isoWeekday(day) IN day + (IF ahead < 0 THEN ahead + 7 ELSE ahead)
    [] s.cycle = "yearly" ->
         IF SplitMMDD(s.day) = {} /\ s.anchor = NoMark THEN YearlyIn(s, Year(day) + 1, day)
         ELSE LET candidate == YearlyIn(s, Year(day), day)
              IN  IF candidate < day THEN YearlyIn(s, Year(day) + 1, day) ELSE candidate
    [] s.cycle = "lunar_yearly" -> nextLunarYearlyDate(s.day, day)
    [] OTHER -> shiftMonth(day, IF DayOf(day) > s.day THEN 1 ELSE 0, s.day)

\* The renewal one cycle before `next'.
before(s, next) ==
  CASE s.cycle = "weekly" -> next - 7
    [] s.cycle = "yearly" -> YearlyIn(s, Year(next) - 1, next)
    [] s.cycle = "lunar_yearly" -> previousLunarYearlyDate(s.day, next)
    [] OTHER -> shiftMonth(next, -1, s.day)

after(s, occurrence) == onOrAfter(s, occurrence + 1)

Nearer(previous, day, next) == IF day - previous < next - day THEN previous ELSE next

\* The renewal a mark pays for: the next one inside its reminder window, else
\* the nearer one.
covering(s, day, alertDaysBefore) ==
  LET Paid(next) == IF next - day <= alertDaysBefore THEN next ELSE Nearer(before(s, next), day, next)
  IN  Paid(onOrAfter(s, day))

\* Where a subscription stands on a day.
Evaluate(cycleType, renewalDay, today, lastRenewed, alertDaysBefore) ==
  LET s == newSchedule(cycleType, renewalDay, lastRenewed)
      Standing(next, renewed) == [Next |-> next, Days |-> next - today, AlreadyRenewed |-> renewed]
      \* paidAhead, paidLast: the mark covers a coming renewal, or the one before it
      From(upcoming, paidAhead, covered, paidLast) ==
        Standing(IF paidAhead THEN after(s, covered) ELSE upcoming,
                 paidAhead \/ (paidLast /\ upcoming - today > alertDaysBefore))
      Marked(upcoming, covered) == From(upcoming, covered >= upcoming, covered, covered = before(s, upcoming))
      Unmarked(upcoming) == From(upcoming, FALSE, upcoming, FALSE)
  IN  IF lastRenewed = NoMark THEN Unmarked(onOrAfter(s, today))
      ELSE Marked(onOrAfter(s, today), covering(s, lastRenewed, alertDaysBefore))

\* Does the renewal day mean something for the cycle?
validRenewalDay(cycleType, day) ==
  CASE cycleType = "weekly" -> day \in 1..7
    [] cycleType = "monthly" -> day \in 1..31
    [] cycleType = "yearly" -> SplitMMDD(day) # {} \/ day \in 1..31
    [] cycleType = "lunar_yearly" -> \E md \in SplitMMDD(day) : md[1] <= 12 /\ md[2] <= 30
    [] OTHER -> FALSE

-----------------------------------------------------------------------------
(* The reference: which days are renewals, said without computing one.     *)

IsRenewal(s, n) ==
  CASE s.cycle = "weekly" -> isoWeekday(n) = s.day
    [] s.cycle = "monthly" -> DayOf(n) = s.day \/ (s.day > DayOf(n) /\ Month(n + 1) # Month(n))
    [] s.cycle = "yearly" ->
         LET m == IF s.day > 31 THEN s.day \div 100 ELSE Month(s.anchor)
             d == IF s.day > 31 THEN s.day % 100 ELSE DayOf(s.anchor)
         IN  Month(n) = m /\ (DayOf(n) = d \/ (d > DayOf(n) /\ Month(n + 1) # m))
    [] OTHER -> n \in lunarDate(LunarYear(n), s.day)

\* Is a reminder due on a day?
Due(p, today) ==
  LET InWindow(r) == r.Days \in 0..p.before /\ ~r.AlreadyRenewed
  IN  InWindow(Evaluate(p.cycle, p.day, today, p.mark, p.before))

\* The next renewal is a renewal day on or after today and no day in between is
\* one.  A lunar day that is over in this lunar year and that the next one does not
\* have, and a yearly plan with neither date nor mark, have no such day; they stay
\* out of every window shorter than a year.
EarliestRenewal(p, today) ==
  LET s == newSchedule(p.cycle, p.day, p.mark)
      next == onOrAfter(s, today)
      unknown == \/ p.cycle = "yearly" /\ p.day <= 31 /\ p.mark = NoMark
                 \/ /\ p.cycle = "lunar_yearly" /\ \A d \in lunarDate(LunarYear(today), p.day) : d < today
                    /\ lunarDate(LunarYear(today) + 1, p.day) = {}
  IN  IF unknown THEN next - today >= 365 /\ (p.cycle = "lunar_yearly" => \A n \in today..next : ~IsRenewal(s, n))
      ELSE IsRenewal(s, next) /\ next >= today /\ \A n \in today..(next - 1) : ~IsRenewal(s, n)

\* A mark silences at most one of the renewals from its day on, and the first; it
\* does silence that one when made in its reminder window or on the day itself.
\* Of every other renewal each day of the window that no earlier renewal claims
\* is due, and no other day is.
MarkPaysForOne(p, span) ==
  LET s == newSchedule(p.cycle, p.day, p.mark)
      renewals == {n \in p.mark..(p.mark + span) : IsRenewal(s, n)}
      Upcoming(t) == {n \in renewals : n >= t /\ \A m \in renewals : m >= t => n <= m}
      silenced == {n \in renewals : ~Due(p, n)}
  IN  /\ Cardinality(silenced) <= 1
      /\ silenced \subseteq Upcoming(p.mark)
      /\ (\E n \in Upcoming(p.mark) : n - p.mark <= p.before) => silenced # {}
      /\ \A t \in p.mark..(p.mark + span) : \A n \in Upcoming(t) :
           Due(p, t) <=> n - t <= p.before /\ n \notin silenced

=============================================================================

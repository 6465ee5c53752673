------------------------------- MODULE History --------------------------------
(***************************************************************************)
(* The history tools of the MCP server: a client reads a time range page   *)
(* by page while rows are recorded (src/internal/mcpserver/paging.go,      *)
(* history.go, src/internal/store/sql.go), and asks for the alert counts.  *)
(*                                                                         *)
(* It makes one request at a time.  A page is a fresh query: the store's   *)
(* newest rows up to its read limit, sorted and cut after the cursor.      *)
(* `events' merges two such reads.                                         *)
(***************************************************************************)
EXTENDS Tables, FiniteSetsExt

CONSTANTS
  HistDay,          \* ticks in a day
  ReadLimit,        \* historyReadLimit, the store's cap on one read (1000)
  PageLimit,        \* rows of a page
  MaxDays,          \* the furthest a read reaches back (365)
  Tools,            \* the tools of a behaviour: [reads |-> sequence of sources, type |-> ...]
  Ranges,           \* the ranges asked for: [since, until, days], 0 for an open bound
  MaxHistTime, MaxRows

ASSUME HistoryAssumption ==
  /\ HistDay \in Nat \ {0} /\ ReadLimit \in Nat \ {0} /\ PageLimit \in Nat \ {0} /\ MaxDays \in Nat \ {0}
  /\ \A t \in Tools : t.reads \in Seq({"alert", "email", "balance"})
  /\ Ranges \subseteq [since : Nat, until : Nat, days : Nat]

VARIABLES
  hNow,
  hRows,        \* alert_history, email_alert_history and balance_history
  ask,          \* what the client asks for: [tool, range, after]
  query,        \* the request in progress: [phase, from, read, entries, capped]
  pages,    \* the rows of the pages so far, in the order of the pages
  atStart,      \* history: the rows there were when the first page was asked for
  stats         \* the alert_stats request: [phase, from, total, byType]

histVars == <<hNow, hRows, ask, query, pages, atStart, stats>>

NoCursor == [at |-> 0, id |-> <<0, 0>>]

Rank(source) == CASE source = "alert" -> 1 [] source = "balance" -> 2 [] source = "email" -> 3

\* A row's place: its time, then its ID; rowID makes IDs of one kind compare
\* as numbers and the kinds compare by their names.
Position(r) == [at |-> r.at, id |-> <<Rank(r.source), r.n>>]

IdAfter(i, j) == i[1] > j[1] \/ (i[1] = j[1] /\ i[2] > j[2])

\* position.before: newest first, then the larger ID.
Before(p, q) == p.at > q.at \/ (p.at = q.at /\ IdAfter(p.id, q.id))

\* timeRange.parse: how many days back the store is asked for.
WindowDays(range, now) ==
  IF range.since = 0 THEN range.days
  ELSE LET back == ((now - range.since + HistDay - 1) \div HistDay) + 1
           least == IF back < 1 THEN 1 ELSE back
       IN  IF least > MaxDays THEN MaxDays ELSE least

\* window.contains
InWindow(range, at) ==
  /\ range.since = 0 \/ at >= range.since
  /\ range.until = 0 \/ at < range.until

\* Mutant: the cursor's own row is inside the next page.
CandidatesInclusive(entries, a) ==
  {r \in entries : /\ InWindow(a.range, r.at)
                   /\ a.after = NoCursor \/ ~Before(Position(r), a.after)}

\* paginate, before the cut: what is inside the range and after the cursor.
Candidates(entries, a) ==
  {r \in entries : /\ InWindow(a.range, r.at)
                   /\ a.after = NoCursor \/ Before(a.after, Position(r))}

\* The page, newest first.
Page(candidates) ==
  LET place(r) == Cardinality({x \in candidates : Before(Position(x), Position(r))})
      size == IF Cardinality(candidates) < PageLimit THEN Cardinality(candidates) ELSE PageLimit
  IN  [i \in 1..size |-> CHOOSE r \in candidates : place(r) = i - 1]

\* One read of a tool: the newest rows of a source within the window.
Reads(source, type, from) ==
  CASE source = "alert" -> ListAlertHistory(hRows, from, "", type, ReadLimit)
    [] source = "email" -> ListEmailAlertHistory(hRows, from, "", ReadLimit)
    [] source = "balance" -> ListBalanceHistory(hRows, from, "", "", ReadLimit)

-------------------------------------------------------------------------------
Quiet == [phase |-> "idle", from |-> 0, read |-> 0, entries |-> {}, capped |-> FALSE]
NoStats == [phase |-> "idle", from |-> 0, total |-> 0, byType |-> 0]

HistInit ==
  /\ hNow = 1
  /\ hRows = {}
  /\ ask \in [tool : Tools, range : Ranges, after : {NoCursor}]
  /\ query = Quiet
  /\ pages = <<>>
  /\ atStart = {}
  /\ stats = NoStats

HistTick ==
  /\ hNow < MaxHistTime
  /\ hNow' = hNow + 1
  /\ UNCHANGED <<hRows, ask, query, pages, atStart, stats>>

\* A check, a delivery or a scan records a row.  The time is taken before the
\* insert, so rows may arrive a little out of order.
HistRecord == \E source \in {"alert", "email", "balance"}, kind \in {"low", "error"}, at \in {hNow - 1, hNow} :
  /\ Cardinality(hRows) < MaxRows
  /\ at >= 1
  /\ kind = "low" \/ (source = "alert" /\ ask.tool.type # "")   \* only what this client can tell apart
  /\ \E i \in DOMAIN ask.tool.reads : ask.tool.reads[i] = source
  /\ hRows' = InsertHistory(hRows, source, "p", kind, at)
  /\ UNCHANGED <<hNow, ask, query, pages, atStart, stats>>

\* The client asks for the first page, or for the next one with the cursor.
AskPage ==
  /\ query.phase = "idle" \/ query.phase = "more"
  /\ stats.phase = "idle"
  /\ query' = [Quiet EXCEPT !.phase = "reading",
                            !.from = hNow - WindowDays(ask.range, hNow) * HistDay]
  /\ atStart' = IF query.phase = "idle" THEN hRows ELSE atStart
  /\ UNCHANGED <<hNow, hRows, ask, pages, stats>>

\* One read of the tool; `events' reads the alerts and then the emails.
ReadSource ==
  /\ query.phase = "reading"
  /\ query.read < Len(ask.tool.reads)
  /\ \E rows \in Reads(ask.tool.reads[query.read + 1], ask.tool.type, query.from) :
       query' = [query EXCEPT !.read = @ + 1, !.entries = @ \cup rows,
                              !.capped = @ \/ Cardinality(rows) >= ReadLimit]
  /\ UNCHANGED <<hNow, hRows, ask, pages, atStart, stats>>

\* paginate: the page and its cursor, or the last page and whether it is truncated.
AnswerPage ==
  /\ query.phase = "reading"
  /\ query.read = Len(ask.tool.reads)
  /\ LET candidates == Candidates(query.entries, ask)
         page == Page(candidates)
         last == Cardinality(candidates) <= PageLimit
     IN  /\ pages' = pages \o page
         /\ query' = [query EXCEPT !.phase = IF last THEN "done" ELSE "more",
                                   !.entries = {}]
         /\ ask' = IF last THEN ask ELSE [ask EXCEPT !.after = Position(page[PageLimit])]
  /\ UNCHANGED <<hNow, hRows, atStart, stats>>

\* AlertStats: three counts, one after the other, over one window.
StatsTotal ==
  /\ stats.phase = "idle" /\ query.phase = "idle"
  /\ stats' = [stats EXCEPT !.phase = "types", !.from = hNow - HistDay,
                            !.total = CountAlerts(hRows, hNow - HistDay)]
  /\ UNCHANGED <<hNow, hRows, ask, query, pages, atStart>>
StatsByType ==
  /\ stats.phase = "types"
  /\ stats' = [stats EXCEPT !.phase = "done",
       !.byType = LET n == CountAlertsByType(hRows, stats.from)
                  IN  MapThenSumSet(LAMBDA t : n[t], DOMAIN n)]
  /\ UNCHANGED <<hNow, hRows, ask, query, pages, atStart>>

HistNext == HistTick \/ HistRecord \/ AskPage \/ ReadSource \/ AnswerPage \/ StatsTotal \/ StatsByType

HistSpec == HistInit /\ [][HistNext]_histVars

\* Paging to the end misses nothing silently: whatever is recorded between the
\* pages and however the reads are cut, every row that was there when the
\* client began, and that the range and the window still hold, is on a page,
\* unless the last page says that it is truncated.
PagesComplete ==
  (query.phase = "done" /\ ~query.capped) =>
    \A r \in atStart :
      (/\ \E i \in DOMAIN ask.tool.reads : ask.tool.reads[i] = r.source
       /\ r.source = "alert" /\ ask.tool.type # "" => r.kind = ask.tool.type
       /\ InWindow(ask.range, r.at)
       /\ r.at >= query.from)
      => \E i \in DOMAIN pages : pages[i] = r

\* No row is on two pages, and the pages together are newest first.
OnceEach ==
  \A i, j \in DOMAIN pages : i < j => Before(Position(pages[i]), Position(pages[j]))

\* The counts of one answer are of one window: what is counted by type is the
\* total or more, never less, whatever ages out of the window meanwhile.
StatsOneWindow == stats.phase = "done" => stats.byType >= stats.total

\* What an agent is told of the past is exact while rows arrive and the clock
\* moves: pages miss nothing silently and repeat nothing, counts fit together.
HistoryExact == PagesComplete /\ OnceEach /\ StatsOneWindow
===============================================================================

-------------------------------- MODULE Usage ---------------------------------
(***************************************************************************)
(* Reported usage: local tools post batches of day/model cells, and each   *)
(* batch is one transaction (src/internal/httpapi/usage.go,                *)
(* store/usage.go).  Reporters run beside each other and post again when   *)
(* an answer is lost; the server may stop in the middle of a batch.        *)
(*                                                                         *)
(* The engines are external: a statement waits for the rows another        *)
(* transaction has written (on SQLite for the whole database), and a cycle *)
(* of waiting transactions is broken by failing one of them.               *)
(***************************************************************************)
EXTENDS Integers, FiniteSets, Sequences, FiniteSetsExt, SequencesExt

CONSTANTS
  Reports,      \* the reports posted: [entries: Seq([cell, cost])], of the same cells
  MaxPosts,     \* posts of one report
  MaxUsageFaults

VARIABLES
  single,      \* SQLite: one writer at a time
  usageRows,   \* what is committed: [cell, cost] rows of usage_events
  batch,       \* [Reports -> [phase, done, rows]]: the request that carries a report
  posts,       \* [Reports -> how often it was posted]
  usageFaults

usageVars == <<single, usageRows, batch, posts, usageFaults>>

\* The refusals of the handler: any bad entry, or no entry, refuses the batch.
Accepted(report) ==
  /\ report.entries # <<>>
  /\ \A i \in DOMAIN report.entries : report.entries[i].cost >= 0

Taken == {r \in Reports : Accepted(r)}

\* What they are about: one day, project and model is a cell.
Cells == UNION {{r.entries[i].cell : i \in DOMAIN r.entries} : r \in Taken}

\* A report that is not refused names each cell once, and all of them.
ASSUME UsageAssumption == \A r \in Taken :
  /\ r.entries \in Seq([cell : Cells, cost : Nat])
  /\ \A i, j \in DOMAIN r.entries : r.entries[i].cell = r.entries[j].cell => i = j
  /\ \A c \in Cells : \E i \in DOMAIN r.entries : r.entries[i].cell = c

\* INSERT ... ON CONFLICT (source, project_name, entry_date, model) DO UPDATE.
UpsertUsageEvent(rows, e) == {r \in rows : r.cell # e.cell} \cup {e}

\* What ListUsageSpend sums for the project the reports name.
ListUsageSpend(rows) == MapThenSumSet(LAMBDA r : r.cost, rows)

\* The cells a transaction has written and so holds until it ends.
Holds(r) == {batch[r].rows[i].cell : i \in DOMAIN batch[r].rows}

CellOf(r) == r.entries[batch[r].done + 1].cell

\* The next statement of r waits for the transaction of x.
WaitsFor(r, x) ==
  /\ batch[r].done < Len(r.entries)
  /\ batch[x].phase = "open"
  /\ CellOf(r) \in Holds(x) \/ (single /\ Holds(x) # {})

-------------------------------------------------------------------------------
UsageInit ==
  /\ single \in BOOLEAN
  /\ usageRows = {}
  /\ batch = [r \in Reports |-> [phase |-> "idle", done |-> 0, rows |-> <<>>]]
  /\ posts = [r \in Reports |-> 0]
  /\ usageFaults = 0

\* A reporter posts its report; the handler validates it and begins the transaction.
Post(r) ==
  /\ batch[r].phase = "idle"
  /\ posts[r] < MaxPosts
  /\ posts' = [posts EXCEPT ![r] = @ + 1]
  /\ batch' = [batch EXCEPT ![r].phase = IF Accepted(r) THEN "open" ELSE "refused"]
  /\ UNCHANGED <<single, usageRows, usageFaults>>

\* Mutant: every statement commits by itself.
WriteCellAutocommit(r) ==
  /\ batch[r].phase = "open"
  /\ batch[r].done < Len(r.entries)
  /\ \A x \in Reports \ {r} : ~WaitsFor(r, x)
  /\ usageRows' = UpsertUsageEvent(usageRows, r.entries[batch[r].done + 1])
  /\ batch' = [batch EXCEPT ![r].done = @ + 1]
  /\ UNCHANGED <<single, posts, usageFaults>>

\* One upsert of the batch, when nobody else holds its row.
WriteCell(r) ==
  /\ batch[r].phase = "open"
  /\ batch[r].done < Len(r.entries)
  /\ \A x \in Reports \ {r} : ~WaitsFor(r, x)
  /\ batch' = [batch EXCEPT ![r].done = @ + 1,
                            ![r].rows = Append(@, r.entries[batch[r].done + 1])]
  /\ UNCHANGED <<single, usageRows, posts, usageFaults>>

\* tx.Commit: the batch becomes visible at once, and the answer is sent.
Commit(r) ==
  /\ batch[r].phase = "open"
  /\ batch[r].done = Len(r.entries)
  /\ usageRows' = FoldLeft(UpsertUsageEvent, usageRows, batch[r].rows)
  /\ batch' = [batch EXCEPT ![r] = [phase |-> "stored", done |-> 0, rows |-> <<>>]]
  /\ UNCHANGED <<single, posts, usageFaults>>

\* A statement or the commit fails, or the engine picks this transaction to
\* break a deadlock: the deferred Rollback undoes the batch.
Rollback(r) ==
  /\ batch[r].phase = "open"
  /\ \/ /\ usageFaults < MaxUsageFaults
        /\ usageFaults' = usageFaults + 1
     \/ /\ \E x \in Reports \ {r} : WaitsFor(r, x) /\ WaitsFor(x, r)
        /\ UNCHANGED usageFaults
  /\ batch' = [batch EXCEPT ![r] = [phase |-> "failed", done |-> 0, rows |-> <<>>]]
  /\ UNCHANGED <<single, usageRows, posts>>

\* The reporter runs again: after a failure, on its schedule, or because the
\* answer was lost on the way.
Again(r) ==
  /\ batch[r].phase \in {"stored", "failed"}
  /\ posts[r] < MaxPosts
  /\ batch' = [batch EXCEPT ![r].phase = "idle"]
  /\ UNCHANGED <<single, usageRows, posts, usageFaults>>

\* The server stops: open transactions are undone, nobody gets an answer.
StopServer ==
  /\ usageFaults < MaxUsageFaults
  /\ \E r \in Reports : batch[r].phase = "open"
  /\ batch' = [r \in Reports |-> IF batch[r].phase = "open"
                                  THEN [phase |-> "failed", done |-> 0, rows |-> <<>>] ELSE batch[r]]
  /\ usageFaults' = usageFaults + 1
  /\ UNCHANGED <<single, usageRows, posts>>

UsageNext ==
  \/ StopServer
  \/ \E r \in Reports : Post(r) \/ WriteCell(r) \/ Commit(r) \/ Rollback(r) \/ Again(r)

UsageSpec == UsageInit /\ [][UsageNext]_usageVars

\* A report posted again is a refresh and a batch is whole: whatever reports of
\* the same cells run beside each other, fail, or are posted twice, the spend
\* read is nothing yet or exactly what one of them that was not refused says.
SpendIsOneReport ==
  ListUsageSpend(usageRows) \in
    {0} \cup {MapThenSumSet(LAMBDA i : r.entries[i].cost, DOMAIN r.entries) : r \in Taken}

===============================================================================

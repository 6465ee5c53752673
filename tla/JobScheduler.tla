----------------------------- MODULE JobScheduler -----------------------------
(***************************************************************************)
(* The scheduling loop and what is kept of the runs (src/internal/          *)
(* scheduler, app.BuildTasks and onJobResult, the jobs of state.Manager).   *)
(*                                                                         *)
(* One goroutine wakes when a task is due, runs every task that was due     *)
(* when it woke, one after the other, and hands each result to the job      *)
(* table and to the failure escalation before it starts the next.           *)
(*                                                                         *)
(* Times are countdowns, and the calendar is a cycle (a day, or a week for  *)
(* schedules with weekdays), so that the model has no last tick.            *)
(***************************************************************************)
EXTENDS Integers, FiniteSets, FiniteSetsExt, Sequences

CONSTANTS
  TaskList,        \* the tasks in the order BuildTasks lists them
  Interval,        \* ticks between runs; 0 for a task with daily times
  Slots,           \* when a daily or weekly task fires: slots of the calendar
  Period,          \* slots of the calendar
  RunAtStart,      \* tasks that run when the loop starts
  Breakable,       \* tasks whose runs may fail
  NeedsDatabase,   \* tasks that fail without a database
  EnableDatabase,
  Threshold,       \* JOB_FAILURE_ALERT_THRESHOLD; 0 switches escalation off
  HasWebhook,      \* is WEBHOOK_URL set?
  MaxLost          \* bound: webhooks that are accepted and answered with an error

Tasks == {TaskList[i] : i \in DOMAIN TaskList}
None == "none"

ASSUME SchedulerAssumption ==
  /\ TaskList \in Seq(Tasks)
  /\ None \notin Tasks
  /\ Interval \in [Tasks -> Nat]
  /\ Slots \in [Tasks -> SUBSET (0 .. Period - 1)]
  /\ Period \in Nat \ {0}
  /\ {RunAtStart, Breakable, NeedsDatabase} \subseteq SUBSET Tasks
  /\ {EnableDatabase, HasWebhook} \subseteq BOOLEAN
  /\ {Threshold, MaxLost} \subseteq Nat
  /\ \A i, j \in DOMAIN TaskList : TaskList[i] = TaskList[j] => i = j

VARIABLES
  slot,        \* where the calendar stands
  wait,        \* ticks until nextRun of an enabled task; 0 when it is due
  loop,        \* the goroutine: asleep, in a pass, or ended
  due,         \* tasks this pass has still to run
  running,     \* the task it runs
  streak,      \* app.jobFailures, up to Threshold
  escalated,   \* app.jobEscalated
  lastError,   \* state: did the last run of the task fail?
  broken,      \* tasks whose next run fails
  channel,     \* does the webhook answer?
  stopping,    \* is the process shutting down?
  sent,        \* history: escalations accepted in this streak, up to 2
  lost,        \* answers lost so far
  owed         \* history: daily tasks with a slot since their last start

vars == <<slot, wait, loop, due, running, streak, escalated, lastError, broken, channel,
          stopping, sent, lost, owed>>

AtMost(n, max) == IF n < max THEN n ELSE max

Enabled(t) == Interval[t] > 0 \/ Slots[t] # {}
EnabledTasks == {t \in Tasks : Enabled(t)}
Daily == {t \in Tasks : Interval[t] = 0 /\ Slots[t] # {}}

\* Ticks to the first slot strictly after now.
NextOccurrence(t) == Min({k \in 1 .. Period : (slot + k) % Period \in Slots[t]})

initialNextRun(t) ==
  IF Interval[t] = 0 THEN NextOccurrence(t)
  ELSE IF t \in RunAtStart THEN 0 ELSE Interval[t]

\* Mutant: the slot that has just fired counts again.
followingRunSameSlot(t) ==
  IF Interval[t] > 0 THEN Interval[t]
  ELSE Min({k \in 0 .. Period : (slot + k) % Period \in Slots[t]})

followingRun(t) == IF Interval[t] > 0 THEN Interval[t] ELSE NextOccurrence(t)

Init ==
  /\ slot \in 0 .. Period - 1
  /\ wait = [t \in EnabledTasks |-> initialNextRun(t)]
  /\ loop = "asleep"
  /\ due = {}
  /\ running = None
  /\ streak = [t \in Tasks |-> 0]
  /\ escalated = [t \in Tasks |-> FALSE]
  /\ lastError = [t \in Tasks |-> FALSE]
  /\ broken \in SUBSET Breakable
  /\ channel = TRUE
  /\ stopping = FALSE
  /\ sent = [t \in Tasks |-> 0]
  /\ lost = 0
  /\ owed = {}

-------------------------------------------------------------------------------
\* Mutant: a disabled task has no next run, and that lies in the past.
DueNowDisabled == {t \in Tasks : t \notin DOMAIN wait \/ wait[t] = 0}

DueNow == {t \in DOMAIN wait : wait[t] = 0}

First(S) == CHOOSE t \in S :
              \A i, j \in DOMAIN TaskList : (TaskList[i] = t /\ TaskList[j] \in S) => i <= j

\* Mutant: a pass runs one task.
RunPendingFirstOnly ==
  /\ loop = "asleep"
  /\ ~stopping
  /\ DueNow # {}
  /\ due' = {First(DueNow)}
  /\ loop' = "pass"
  /\ UNCHANGED <<slot, wait, running, streak, escalated, lastError, broken, channel, stopping, sent, lost, owed>>

\* The loop wakes.  The pass takes the tasks due at this moment; one that falls
\* due while the pass runs waits for the next.
RunPending ==
  /\ loop = "asleep"
  /\ ~stopping
  /\ DueNow # {}
  /\ due' = DueNow
  /\ loop' = "pass"
  /\ UNCHANGED <<slot, wait, running, streak, escalated, lastError, broken, channel, stopping, sent, lost, owed>>

RunTask(t) ==
  /\ loop = "pass"
  /\ running = None
  /\ due # {}
  /\ t = First(due)
  /\ running' = t
  /\ owed' = owed \ {t}
  /\ UNCHANGED <<slot, wait, loop, due, streak, escalated, lastError, broken, channel, stopping, sent, lost>>

\* Whether a run fails.  The shutdown cancels it, which it may or may not notice.
Outcomes(t) ==
  IF t \in broken \/ (t \in NeedsDatabase /\ ~EnableDatabase) THEN {TRUE}
  ELSE IF stopping THEN BOOLEAN ELSE {FALSE}

\* Mutant: a success does not clear the escalation.
SucceedKeepsMark(t) ==
  /\ streak' = [streak EXCEPT ![t] = 0]
  /\ sent' = [sent EXCEPT ![t] = 0]
  /\ UNCHANGED escalated

\* A success ends the streak.
Succeed(t) ==
  /\ streak' = [streak EXCEPT ![t] = 0]
  /\ sent' = [sent EXCEPT ![t] = 0]
  /\ escalated' = [escalated EXCEPT ![t] = FALSE]

\* The run ends: the next time is set, the job table updated, the streak counted.
EndRun(t) ==
  \E fails \in Outcomes(t) :
    LET n == AtMost(streak[t] + 1, Threshold)
        escalate == fails /\ Threshold > 0 /\ n >= Threshold /\ ~escalated[t] /\ HasWebhook
    IN  /\ loop = "pass"
        /\ running = t
        /\ wait' = [wait EXCEPT ![t] = followingRun(t)]
        /\ lastError' = [lastError EXCEPT ![t] = fails]
        /\ IF fails
           THEN streak' = [streak EXCEPT ![t] = n] /\ UNCHANGED <<escalated, sent>>
           ELSE Succeed(t)
        /\ due' = due \ {t}
        /\ loop' = IF escalate THEN "escalate" ELSE "pass"
        /\ running' = IF escalate THEN t ELSE None
        /\ UNCHANGED <<slot, broken, channel, stopping, lost, owed>>

\* Mutant: the escalation is not remembered.
EscalatedForgotten(t) == UNCHANGED escalated

Mark(t) == escalated' = [escalated EXCEPT ![t] = TRUE]

\* maybeEscalateJobFailure: the webhook, and only if it accepted, the mark.
Escalate(t) ==
  /\ loop = "escalate"
  /\ running = t
  /\ \/ /\ channel
        /\ sent' = [sent EXCEPT ![t] = AtMost(@ + 1, 2)]
        /\ Mark(t)
        /\ UNCHANGED lost
     \/ /\ ~channel
        /\ UNCHANGED <<sent, escalated, lost>>
     \/ /\ lost < MaxLost
        /\ lost' = lost + 1
        /\ sent' = [sent EXCEPT ![t] = AtMost(@ + 1, 2)]
        /\ UNCHANGED escalated
  /\ loop' = "pass"
  /\ running' = None
  /\ UNCHANGED <<slot, wait, due, streak, lastError, broken, channel, stopping, owed>>

\* Mutant: the loop goes back to sleep without looking at the stop channel.
SleepOn ==
  /\ loop = "pass"
  /\ running = None
  /\ due = {}
  /\ loop' = "asleep"
  /\ UNCHANGED <<slot, wait, due, running, streak, escalated, lastError, broken, channel, stopping, sent, lost, owed>>

\* The pass is over; the loop sleeps until the next task is due.
Sleep ==
  /\ loop = "pass"
  /\ running = None
  /\ due = {}
  /\ loop' = IF stopping THEN "ended" ELSE "asleep"
  /\ UNCHANGED <<slot, wait, due, running, streak, escalated, lastError, broken, channel, stopping, sent, lost, owed>>

-------------------------------------------------------------------------------
(* Environment                                                              *)

\* Time passes, also while a task runs.  Nothing is more than due.
Tick ==
  /\ slot' = (slot + 1) % Period
  /\ wait' = [t \in DOMAIN wait |-> IF wait[t] > 0 THEN wait[t] - 1 ELSE 0]
  /\ owed' = owed \cup {t \in Daily : slot' \in Slots[t] /\ ~(loop = "pass" /\ running = t)}
  /\ UNCHANGED <<loop, due, running, streak, escalated, lastError, broken, channel, stopping, sent, lost>>

\* A task breaks or recovers; the webhook goes away or comes back.
Weather ==
  /\ \/ /\ \E t \in Breakable : broken' = (broken \ {t}) \cup ({t} \ broken)
        /\ UNCHANGED channel
     \/ channel' = ~channel /\ UNCHANGED broken
  /\ UNCHANGED <<slot, wait, loop, due, running, streak, escalated, lastError, stopping, sent, lost, owed>>

\* SIGTERM.  A sleeping loop ends at once; a pass goes on with a cancelled context.
Stop ==
  /\ ~stopping
  /\ stopping' = TRUE
  /\ loop' = IF loop = "asleep" THEN "ended" ELSE loop
  /\ UNCHANGED <<slot, wait, due, running, streak, escalated, lastError, broken, channel, sent, lost, owed>>

Loop ==
  \/ RunPending
  \/ Sleep
  \/ \E t \in Tasks : RunTask(t) \/ EndRun(t) \/ Escalate(t)

Next == Loop \/ Tick \/ Weather \/ Stop

Spec == Init /\ [][Next]_vars

\* The loop keeps going (a run ends by its timeout at the latest), and so does time.
FairSpec == Spec /\ WF_vars(Loop) /\ WF_vars(Tick)

-------------------------------------------------------------------------------
(* Properties                                                               *)

\* Every variable stays in its type.
TypeOK ==
  /\ slot \in 0 .. Period - 1
  /\ wait \in [EnabledTasks -> Nat]
  /\ loop \in {"asleep", "pass", "escalate", "ended"}
  /\ due \subseteq EnabledTasks
  /\ running \in EnabledTasks \cup {None}
  /\ streak \in [Tasks -> 0 .. Threshold]
  /\ escalated \in [Tasks -> BOOLEAN] /\ lastError \in [Tasks -> BOOLEAN]
  /\ broken \subseteq Tasks /\ owed \subseteq Daily
  /\ {channel, stopping} \subseteq BOOLEAN
  /\ sent \in [Tasks -> 0 .. 2] /\ lost \in 0 .. MaxLost

\* A streak of failures is reported at most once, unless an answer was lost: the
\* webhook then got a report the process does not know of.
OneReportPerStreak == lost = 0 => \A t \in Tasks : sent[t] <= 1

\* A daily task is due exactly when one of its slots has come since it was last
\* started: no slot fires twice, and none is missed but those that pass while the
\* task itself runs.
SlotsFireOnce ==
  \A t \in Daily : (t \in owed <=> wait[t] = 0) \/ (loop = "pass" /\ running = t)

\* Every enabled task is run again and again, however long the others take, until
\* the process stops.
NobodyStarves ==
  []~stopping => \A t \in EnabledTasks : []<>(running = t)

\* A task that keeps failing is reported once the webhook works, and stays
\* reported: every streak anew, also after earlier ones.
StreakReported ==
  \A t \in EnabledTasks :
    (Threshold > 0 /\ HasWebhook) =>
      (<>[](t \in broken /\ channel /\ ~stopping) => <>[](sent[t] >= 1))

\* After SIGTERM the loop ends.
StopEnds == stopping ~> loop = "ended"

\* docs/ARCHITECTURE.md: without a database the optional capabilities degrade
\* gracefully.  While nothing is broken, no job of the table that /health reads has
\* failed.
HealthyUnlessBroken ==
  (Breakable = {} /\ ~stopping) => \A t \in Tasks : ~lastError[t]

===============================================================================

-------------------------- MODULE JobSchedulerProofs --------------------------
(***************************************************************************)
(* Proofs about JobScheduler, for every list of tasks, every schedule and  *)
(* every threshold.                                                        *)
(***************************************************************************)
EXTENDS JobScheduler, WellFoundedInduction, TLAPS

-------------------------------------------------------------------------------
(* Numbers                                                                  *)

\* Every set of natural numbers but the empty one has a least element.
LEMMA Least ==
  ASSUME NEW T \in SUBSET Nat, T # {}
  PROVE  \E x \in T : \A y \in T : x <= y
<1> DEFINE R == OpToRel(<, Nat)
<1>1. IsWellFoundedOn(R, Nat)
  BY NatLessThanWellFounded
<1>2. \A y, x \in T : y < x => <<y, x>> \in R
  BY DEF OpToRel
<1> HIDE DEF R
<1>3. PICK x \in T : \A y \in T : ~ (<<y, x>> \in R)
  BY <1>1, WFMin
<1>4. \A y \in T : ~ (y < x)
  BY <1>2, <1>3
<1>. QED  BY <1>4

\* Min finds the least element of a set of numbers.
LEMMA MinFacts ==
  ASSUME NEW T \in SUBSET Nat, T # {}
  PROVE  Min(T) \in T /\ \A y \in T : Min(T) <= y
<1>1. \E x \in T : \A y \in T : x =< y
  BY Least
<1>. QED  BY <1>1 DEF Min

\* The remainder of a number below twice the divisor.
LEMMA Wrap ==
  ASSUME NEW p \in Nat \ {0}, NEW x \in 0 .. 2 * p - 1
  PROVE  x % p = IF x < p THEN x ELSE x - p
<1>1. x = p * (x \div p) + (x % p) /\ x % p \in 0 .. p - 1 /\ x \div p \in Nat
  OBVIOUS
<1>2. x \div p < 2
  <2>1. SUFFICES ASSUME x \div p >= 2  PROVE FALSE
    BY <1>1
  <2>2. p * (x \div p) >= p * 2
    BY <1>1, <2>1
  <2>. QED  BY <1>1, <2>2
<1>3. CASE x \div p = 0
  BY <1>1, <1>3
<1>4. CASE x \div p = 1
  BY <1>1, <1>4
<1>. QED  BY <1>1, <1>2, <1>3, <1>4

\* A slot of this period is its own remainder.
LEMMA WrapLow ==
  ASSUME NEW p \in Nat \ {0}, NEW x \in 0 .. p - 1
  PROVE  x % p = x
<1>1. x \in 0 .. 2 * p - 1 /\ x < p
  OBVIOUS
<1>2. x % p = IF x < p THEN x ELSE x - p
  BY <1>1, Wrap
<1>. QED  BY <1>1, <1>2

\* A slot of the next period wraps to the same slot of this one.
LEMMA WrapHigh ==
  ASSUME NEW p \in Nat \ {0}, NEW x \in 0 .. p - 1
  PROVE  (x + p) % p = x
<1> DEFINE y == x + p
<1>1. y \in 0 .. 2 * p - 1 /\ ~(y < p)
  OBVIOUS
<1> HIDE DEF y
<1>2. y % p = IF y < p THEN y ELSE y - p
  BY <1>1, Wrap
<1>3. y % p = y - p
  BY <1>1, <1>2
<1>. QED  BY <1>3 DEF y

\* A slot of the calendar, seen from the next tick.
LEMMA Turn ==
  ASSUME NEW p \in Nat \ {0}, NEW s \in 0 .. p - 1, NEW k \in 0 .. p - 1
  PROVE  (((s + 1) % p) + k) % p = (s + (k + 1)) % p
<1>1. CASE s + 1 < p
  <2>1. s + 1 \in 0 .. p - 1
    BY <1>1
  <2>2. (s + 1) % p = s + 1
    BY <2>1, WrapLow
  <2>. QED  BY <2>2
<1>2. CASE s + 1 = p
  <2>1. 0 \in 0 .. p - 1 /\ p = 0 + p
    OBVIOUS
  <2>2. p % p = 0
    BY <2>1, WrapHigh
  <2>3. k % p = k /\ (k + p) % p = k
    BY WrapLow, WrapHigh
  <2>4. s + (k + 1) = k + p
    BY <1>2
  <2>5. ((s + 1) % p) + k = k
    BY <1>2, <2>2
  <2>. QED  BY <2>3, <2>4, <2>5
<1>. QED  BY <1>1, <1>2

-------------------------------------------------------------------------------
(* The invariant                                                            *)

\* n ticks from now comes the next slot of task t.
IsNext(t, n) ==
  /\ n \in 1 .. Period
  /\ (slot + n) % Period \in Slots[t]
  /\ \A k \in 1 .. Period : k < n => (slot + k) % Period \notin Slots[t]

\* A daily task is due or waits for its next slot; the tasks of a pass are due,
\* and one that runs owes nothing and is still in the pass.
SlotInv ==
  /\ \A t \in Daily : wait[t] > 0 => IsNext(t, wait[t])
  /\ \A t \in due : wait[t] = 0
  /\ loop \in {"asleep", "ended"} => due = {} /\ running = None
  /\ (loop = "pass" /\ running # None) => running \in due /\ running \notin owed
  /\ loop = "escalate" => running \in Tasks \ due

\* A report is remembered unless its answer was lost, and it is sent only when
\* the streak has reached the threshold.
ReportInv ==
  /\ lost = 0 => \A t \in Tasks : sent[t] = IF escalated[t] THEN 1 ELSE 0
  /\ loop = "escalate" => ~escalated[running] /\ streak[running] = Threshold
  /\ \A t \in Tasks : sent[t] > 0 \/ escalated[t] => streak[t] = Threshold

Inv == TypeOK /\ SlotInv /\ SlotsFireOnce /\ ReportInv

-------------------------------------------------------------------------------
(* Facts about the operators                                                *)

\* What the assumptions on the constants give.
LEMMA Basics ==
  /\ Period \in Nat \ {0} /\ Threshold \in Nat /\ MaxLost \in Nat
  /\ Interval \in [Tasks -> Nat] /\ Slots \in [Tasks -> SUBSET (0 .. Period - 1)]
  /\ None \notin Tasks /\ EnabledTasks \subseteq Tasks /\ Daily \subseteq EnabledTasks
BY SchedulerAssumption DEF EnabledTasks, Daily, Enabled

\* The search for the next slot ends within a period.
LEMMA NextFound ==
  ASSUME slot \in 0 .. Period - 1, NEW t \in Tasks, Slots[t] # {}
  PROVE  IsNext(t, NextOccurrence(t))
<1> DEFINE K == {k \in 1 .. Period : (slot + k) % Period \in Slots[t]}
<1>1. PICK s \in 0 .. Period - 1 : s \in Slots[t]
  BY Basics
<1>2. PICK k \in 1 .. Period : (slot + k) % Period = s
  <2>1. CASE slot < s
    <3>1. s - slot \in 1 .. Period /\ slot + (s - slot) = s
      BY <2>1, Basics
    <3>2. s % Period = s
      BY WrapLow, Basics
    <3>. QED  BY <3>1, <3>2
  <2>2. CASE slot >= s
    <3>1. s - slot + Period \in 1 .. Period /\ slot + (s - slot + Period) = s + Period
      BY <2>2, Basics
    <3>2. (s + Period) % Period = s
      BY WrapHigh, Basics
    <3>. QED  BY <3>1, <3>2
  <2>. QED  BY <2>1, <2>2, Basics
<1>3. K \in SUBSET Nat /\ k \in K
  BY <1>1, <1>2, Basics
<1>4. NextOccurrence(t) = Min(K)
  BY DEF NextOccurrence
<1>5. Min(K) \in K /\ \A j \in K : Min(K) <= j
  <2> HIDE DEF K
  <2>. QED  BY <1>3, MinFacts
<1> DEFINE m == Min(K)
<1>6. m \in 1 .. Period /\ (slot + m) % Period \in Slots[t]
  BY <1>5
<1>7. \A j \in 1 .. Period : j < m => (slot + j) % Period \notin Slots[t]
  BY <1>5, <1>6
<1>. QED  BY <1>4, <1>6, <1>7 DEF IsNext

\* The first task of a pass is one of its tasks.
LEMMA FirstIn ==
  ASSUME NEW S \in SUBSET Tasks, S # {}
  PROVE  First(S) \in S
<1> DEFINE I == {i \in DOMAIN TaskList : TaskList[i] \in S}
<1>1. DOMAIN TaskList \subseteq Nat
  BY SchedulerAssumption
<1>2. I # {} /\ I \in SUBSET Nat
  BY <1>1 DEF Tasks
<1>3. PICK i \in I : \A j \in I : i <= j
  BY <1>2, Least
<1>4. \A k, j \in DOMAIN TaskList : (TaskList[k] = TaskList[i] /\ TaskList[j] \in S) => k <= j
  BY <1>3, SchedulerAssumption
<1>5. \E t \in S : \A k, j \in DOMAIN TaskList : (TaskList[k] = t /\ TaskList[j] \in S) => k <= j
  BY <1>3, <1>4
<1>. QED  BY <1>5 DEF First

\* AtMost stays within its bound, and reaches it.
LEMMA AtMostFacts ==
  ASSUME NEW n \in Nat, NEW m \in Nat
  PROVE  AtMost(n, m) \in 0 .. m /\ (n >= m => AtMost(n, m) = m)
BY DEF AtMost

\* The run after this one lies ahead, and for a daily task at its next slot.
LEMMA Following ==
  ASSUME slot \in 0 .. Period - 1, NEW t \in EnabledTasks
  PROVE  followingRun(t) \in Nat \ {0} /\ (t \in Daily => IsNext(t, followingRun(t)))
<1>1. CASE Interval[t] > 0
  BY <1>1, Basics DEF followingRun, Daily
<1>2. CASE Interval[t] = 0
  <2>1. Slots[t] # {} /\ t \in Tasks
    BY <1>2, Basics DEF EnabledTasks, Enabled
  <2>2. IsNext(t, NextOccurrence(t))
    BY <2>1, NextFound
  <2>3. followingRun(t) = NextOccurrence(t)
    BY <1>2 DEF followingRun
  <2>4. followingRun(t) \in 1 .. Period
    BY <2>2, <2>3 DEF IsNext
  <2>. QED  BY <2>2, <2>3, <2>4, Basics
<1>. QED  BY <1>1, <1>2, Basics

\* Tasks that are due are enabled and have nothing left to wait.
LEMMA DueFacts ==
  ASSUME TypeOK
  PROVE  DueNow \subseteq EnabledTasks /\ \A t \in DueNow : wait[t] = 0
BY DEF DueNow, TypeOK

-------------------------------------------------------------------------------
(* Startup                                                                  *)

\* The invariant holds when the scheduler starts.
LEMMA InvInit == Init => Inv
<1> SUFFICES ASSUME Init  PROVE Inv
  OBVIOUS
<1> USE Basics
<1>1. slot \in 0 .. Period - 1
  BY DEF Init
<1>2. ASSUME NEW t \in EnabledTasks
      PROVE  initialNextRun(t) \in Nat /\ (t \in Daily => IsNext(t, initialNextRun(t)))
  <2>1. CASE Interval[t] = 0
    <3>1. Slots[t] # {}
      BY <2>1 DEF EnabledTasks, Enabled
    <3>2. IsNext(t, NextOccurrence(t)) /\ initialNextRun(t) = NextOccurrence(t)
      BY <1>1, <2>1, <3>1, NextFound DEF initialNextRun
    <3>. QED  BY <3>2 DEF IsNext
  <2>2. CASE Interval[t] > 0
    BY <2>2 DEF initialNextRun, Daily
  <2>. QED  BY <2>1, <2>2
<1>3. wait \in [EnabledTasks -> Nat]
  BY <1>2 DEF Init
<1>4. \A t \in Daily : IsNext(t, wait[t]) /\ wait[t] # 0
  BY <1>2 DEF Init, IsNext
<1>5. TypeOK
  <2>1. broken \subseteq Tasks
    BY SchedulerAssumption DEF Init
  <2>2. 0 \in 0 .. Threshold /\ 0 \in 0 .. 2 /\ 0 \in 0 .. MaxLost
    OBVIOUS
  <2>3. streak \in [Tasks -> 0 .. Threshold] /\ sent \in [Tasks -> 0 .. 2] /\ lost \in 0 .. MaxLost
    BY <2>2 DEF Init
  <2>4. escalated \in [Tasks -> BOOLEAN] /\ lastError \in [Tasks -> BOOLEAN]
        /\ {channel, stopping} \subseteq BOOLEAN
    BY DEF Init
  <2>. QED  BY <1>1, <1>3, <2>1, <2>3, <2>4 DEF Init, TypeOK
<1>6. SlotInv /\ SlotsFireOnce
  BY <1>4 DEF Init, SlotInv, SlotsFireOnce
<1>7. ReportInv
  BY DEF Init, ReportInv
<1>. QED  BY <1>5, <1>6, <1>7 DEF Inv

-------------------------------------------------------------------------------
(* Steps of the loop                                                        *)

\* Collecting the due tasks keeps the invariant (runPending).
LEMMA RunPendingStep ==
  ASSUME Inv, RunPending
  PROVE  Inv'
<1>1. TypeOK'
  BY DueFacts DEF RunPending, Inv, TypeOK
<1>2. SlotInv'
  BY DueFacts DEF RunPending, Inv, SlotInv, IsNext
<1>3. SlotsFireOnce'
  BY DEF RunPending, Inv, SlotsFireOnce
<1>4. ReportInv'
  BY DEF RunPending, Inv, ReportInv
<1>. QED  BY <1>1, <1>2, <1>3, <1>4 DEF Inv

\* Sleeping to the next tick keeps the invariant.
LEMMA SleepStep ==
  ASSUME Inv, Sleep
  PROVE  Inv'
<1>0. loop' \in {"asleep", "ended"}
  BY DEF Sleep
<1>1. TypeOK'
  BY <1>0 DEF Sleep, Inv, TypeOK
<1>2. SlotInv'
  BY <1>0 DEF Sleep, Inv, SlotInv, IsNext
<1>3. SlotsFireOnce'
  BY Basics DEF Sleep, Inv, SlotsFireOnce
<1>4. ReportInv'
  BY <1>0 DEF Sleep, Inv, ReportInv
<1>. QED  BY <1>1, <1>2, <1>3, <1>4 DEF Inv

\* Starting a due task keeps the invariant.
LEMMA RunTaskStep ==
  ASSUME Inv, NEW t \in Tasks, RunTask(t)
  PROVE  Inv'
<1>0. t \in due /\ due \subseteq EnabledTasks
  BY FirstIn, Basics DEF RunTask, Inv, TypeOK
<1>1. TypeOK'
  BY <1>0 DEF RunTask, Inv, TypeOK
<1>2. SlotInv'
  BY <1>0 DEF RunTask, Inv, SlotInv, IsNext
<1>3. SlotsFireOnce'
  BY Basics DEF RunTask, Inv, SlotsFireOnce
<1>4. ReportInv'
  BY DEF RunTask, Inv, ReportInv
<1>. QED  BY <1>1, <1>2, <1>3, <1>4 DEF Inv

\* The end of a run, good or failed, keeps the invariant.
LEMMA EndRunStep ==
  ASSUME Inv, NEW t \in Tasks, EndRun(t)
  PROVE  Inv'
<1> USE Basics
<1> DEFINE n == AtMost(streak[t] + 1, Threshold)
<1>1. PICK fails \in BOOLEAN :
        LET escalate == fails /\ Threshold > 0 /\ n >= Threshold /\ ~escalated[t] /\ HasWebhook
        IN  /\ loop = "pass"
            /\ running = t
            /\ wait' = [wait EXCEPT ![t] = followingRun(t)]
            /\ lastError' = [lastError EXCEPT ![t] = fails]
            /\ IF fails
               THEN streak' = [streak EXCEPT ![t] = n] /\ UNCHANGED <<escalated, sent>>
               ELSE Succeed(t)
            /\ due' = due \ {t}
            /\ loop' = IF escalate THEN "escalate" ELSE "pass"
            /\ running' = IF escalate THEN t ELSE None
            /\ UNCHANGED <<slot, broken, channel, stopping, lost, owed>>
  BY DEF EndRun, Outcomes
<1>2. n \in 0 .. Threshold /\ (n >= Threshold => n = Threshold)
      /\ (streak[t] = Threshold => n = Threshold)
  <2>1. streak[t] \in 0 .. Threshold
    BY DEF Inv, TypeOK
  <2>. QED  BY <2>1 DEF AtMost
<1> HIDE DEF n
<1>3. t \in EnabledTasks /\ t \in due /\ t \notin owed /\ t # None
  BY <1>1 DEF Inv, TypeOK, SlotInv
<1>4. followingRun(t) \in Nat \ {0} /\ (t \in Daily => IsNext(t, followingRun(t)))
  BY <1>3, Following DEF Inv, TypeOK
<1>5. \A u \in EnabledTasks : wait'[u] = IF u = t THEN followingRun(t) ELSE wait[u]
  BY <1>1, <1>3 DEF Inv, TypeOK
<1>6. TypeOK'
  <2>1. wait' \in [EnabledTasks -> Nat]
    BY <1>1, <1>4 DEF Inv, TypeOK
  <2>2. streak' \in [Tasks -> 0 .. Threshold] /\ escalated' \in [Tasks -> BOOLEAN]
        /\ sent' \in [Tasks -> 0 .. 2]
    <3>1. CASE fails
      BY <1>1, <1>2, <3>1 DEF Inv, TypeOK
    <3>2. CASE ~fails
      <4>1. 0 \in 0 .. Threshold /\ 0 \in 0 .. 2
        OBVIOUS
      <4>2. Succeed(t)
        BY <1>1, <3>2
      <4>. QED  BY <4>1, <4>2 DEF Succeed, Inv, TypeOK
    <3>. QED  BY <3>1, <3>2
  <2>3. lastError' \in [Tasks -> BOOLEAN]
    BY <1>1 DEF Inv, TypeOK
  <2>. QED  BY <1>1, <1>3, <2>1, <2>2, <2>3 DEF Inv, TypeOK
<1>7. SlotInv'
  <2>1. \A u \in Daily : wait'[u] > 0 => IsNext(u, wait[u])' \/ IsNext(u, wait'[u])
    BY <1>4, <1>5 DEF Inv, SlotInv
  <2>2. \A u \in Daily : (wait[u] > 0 => IsNext(u, wait[u]))'
    BY <1>1, <1>4, <1>5 DEF Inv, SlotInv, IsNext
  <2>3. \A u \in due' : wait'[u] = 0
    BY <1>1, <1>5 DEF Inv, SlotInv, TypeOK
  <2>4. loop' \in {"pass", "escalate"} /\ (loop' = "pass" => running' = None)
        /\ (loop' = "escalate" => running' \in Tasks \ due')
    BY <1>1
  <2>. QED  BY <2>2, <2>3, <2>4 DEF SlotInv
<1>8. SlotsFireOnce'
  BY <1>1, <1>3, <1>4, <1>5 DEF Inv, SlotsFireOnce
<1>9. ReportInv'
  <2>1. CASE fails
    <3>1. UNCHANGED <<escalated, sent, lost>> /\ \A u \in Tasks : streak'[u] = IF u = t THEN n ELSE streak[u]
      BY <1>1, <2>1 DEF Inv, TypeOK
    <3>2. loop' = "escalate" => running' = t /\ n = Threshold /\ ~escalated[t]
      BY <1>1, <1>2
    <3>3. sent[t] > 0 \/ escalated[t] => n = Threshold
      BY <1>2 DEF Inv, ReportInv
    <3>. QED  BY <3>1, <3>2, <3>3 DEF Inv, ReportInv
  <2>2. CASE ~fails
    <3>1. /\ \A u \in Tasks : streak'[u] = IF u = t THEN 0 ELSE streak[u]
          /\ \A u \in Tasks : sent'[u] = IF u = t THEN 0 ELSE sent[u]
          /\ \A u \in Tasks : escalated'[u] = IF u = t THEN FALSE ELSE escalated[u]
          /\ loop' = "pass" /\ lost' = lost
      BY <1>1, <2>2 DEF Succeed, Inv, TypeOK
    <3>2. ~escalated'[t] /\ sent'[t] = 0
      BY <3>1
    <3>3. ASSUME NEW u \in Tasks, u # t
          PROVE  sent'[u] = sent[u] /\ escalated'[u] = escalated[u] /\ streak'[u] = streak[u]
      BY <3>1, <3>3
    <3>4. \A u \in Tasks : sent'[u] > 0 \/ escalated'[u] => streak'[u] = Threshold
      BY <3>2, <3>3 DEF Inv, ReportInv
    <3>5. lost' = 0 => \A u \in Tasks : sent'[u] = IF escalated'[u] THEN 1 ELSE 0
      BY <3>1, <3>2, <3>3 DEF Inv, ReportInv
    <3>. QED  BY <3>1, <3>4, <3>5 DEF ReportInv
  <2>. QED  BY <2>1, <2>2
<1>. QED  BY <1>6, <1>7, <1>8, <1>9 DEF Inv

\* Reporting a streak, or failing to, keeps the invariant (escalate).
LEMMA EscalateStep ==
  ASSUME Inv, NEW t \in Tasks, Escalate(t)
  PROVE  Inv'
<1> USE Basics
<1>1. AtMost(sent[t] + 1, 2) \in 0 .. 2 /\ (sent[t] = 0 => AtMost(sent[t] + 1, 2) = 1)
  BY DEF Inv, TypeOK, AtMost
<1>2. TypeOK'
  <2>1. sent' \in [Tasks -> 0 .. 2]
    BY <1>1 DEF Escalate, Inv, TypeOK
  <2>2. escalated' \in [Tasks -> BOOLEAN]
    BY DEF Escalate, Mark, Inv, TypeOK
  <2>3. lost' \in 0 .. MaxLost
    BY DEF Escalate, Inv, TypeOK
  <2>. QED  BY <2>1, <2>2, <2>3 DEF Escalate, Inv, TypeOK
<1>3. SlotInv'
  BY DEF Escalate, Inv, SlotInv, IsNext
<1>4. SlotsFireOnce'
  BY DEF Escalate, Inv, SlotsFireOnce
<1>5. streak[t] = Threshold /\ ~escalated[t] /\ loop' = "pass" /\ streak' = streak
  BY DEF Escalate, Inv, ReportInv
<1>6. ReportInv'
  <2>1. CASE sent' = [sent EXCEPT ![t] = AtMost(@ + 1, 2)] /\ Mark(t) /\ UNCHANGED lost
    <3>1. /\ \A u \in Tasks : sent'[u] = IF u = t THEN AtMost(sent[t] + 1, 2) ELSE sent[u]
          /\ \A u \in Tasks : escalated'[u] = IF u = t THEN TRUE ELSE escalated[u]
      BY <2>1 DEF Mark, Inv, TypeOK
    <3>. QED  BY <1>1, <1>5, <2>1, <3>1 DEF Inv, ReportInv
  <2>2. CASE UNCHANGED <<sent, escalated, lost>>
    BY <1>5, <2>2 DEF Inv, ReportInv
  <2>3. CASE lost' = lost + 1 /\ sent' = [sent EXCEPT ![t] = AtMost(@ + 1, 2)] /\ UNCHANGED escalated
    <3>1. lost' # 0
      BY <2>3 DEF Inv, TypeOK
    <3>2. \A u \in Tasks : u # t => sent'[u] = sent[u]
      BY <2>3 DEF Inv, TypeOK
    <3>. QED  BY <1>5, <2>3, <3>1, <3>2 DEF Inv, ReportInv
  <2>. QED  BY <2>1, <2>2, <2>3 DEF Escalate
<1>. QED  BY <1>2, <1>3, <1>4, <1>6 DEF Inv

-------------------------------------------------------------------------------
(* Steps of the environment                                                 *)

\* A tick brings every waiting task one tick nearer to its slot.
LEMMA TickStep ==
  ASSUME Inv, Tick
  PROVE  Inv'
<1> USE Basics
<1>1. slot \in 0 .. Period - 1 /\ slot' = (slot + 1) % Period /\ slot' \in 0 .. Period - 1
  BY DEF Tick, Inv, TypeOK
<1>2. \A t \in EnabledTasks : wait'[t] = IF wait[t] > 0 THEN wait[t] - 1 ELSE 0
  BY DEF Tick, Inv, TypeOK
<1>3. \A k \in 0 .. Period - 1 : (slot' + k) % Period = (slot + (k + 1)) % Period
  BY <1>1, Turn
<1>4. TypeOK'
  <2>1. wait' \in [EnabledTasks -> Nat]
    BY DEF Tick, Inv, TypeOK
  <2>2. owed' \subseteq Daily
    BY DEF Tick, Inv, TypeOK
  <2>. QED  BY <1>1, <2>1, <2>2 DEF Tick, Inv, TypeOK
<1>5. ASSUME NEW t \in Daily, wait[t] > 0
      PROVE  /\ slot' \in Slots[t] <=> wait'[t] = 0
             /\ wait'[t] > 0 => IsNext(t, wait[t])'
  <2>1. wait[t] \in 1 .. Period /\ wait'[t] = wait[t] - 1
        /\ (slot + wait[t]) % Period \in Slots[t]
        /\ \A k \in 1 .. Period : k < wait[t] => (slot + k) % Period \notin Slots[t]
    BY <1>2, <1>5 DEF Inv, SlotInv, IsNext
  <2>2. 1 \in 1 .. Period
    OBVIOUS
  <2>3. slot' \in Slots[t] <=> wait'[t] = 0
    BY <1>1, <2>1, <2>2
  <2>4. ASSUME wait'[t] > 0
        PROVE  IsNext(t, wait[t])'
    <3>1. wait'[t] \in 1 .. Period /\ (slot' + wait'[t]) % Period = (slot + wait[t]) % Period
      BY <1>3, <2>1, <2>4
    <3>2. ASSUME NEW k \in 1 .. Period, k < wait'[t]
          PROVE  (slot' + k) % Period \notin Slots[t]
      <4>1. k \in 0 .. Period - 1 /\ k + 1 \in 1 .. Period /\ k + 1 < wait[t]
        BY <2>1, <3>2
      <4>. QED  BY <1>3, <2>1, <4>1
    <3>. QED  BY <2>1, <3>1, <3>2 DEF IsNext
  <2>. QED  BY <2>3, <2>4
<1>6. SlotInv'
  <2>1. \A t \in Daily : (wait[t] > 0 => IsNext(t, wait[t]))'
    BY <1>2, <1>5 DEF Inv, TypeOK
  <2>2. due' = due /\ \A t \in due : wait'[t] = 0
    BY <1>2 DEF Tick, Inv, SlotInv, TypeOK
  <2>3. UNCHANGED <<loop, running>> /\ (loop = "pass" /\ running # None => running \notin owed')
    BY DEF Tick, Inv, SlotInv
  <2>. QED  BY <2>1, <2>2, <2>3 DEF Inv, SlotInv
<1>7. SlotsFireOnce'
  <2> SUFFICES ASSUME NEW t \in Daily, ~(loop = "pass" /\ running = t)
               PROVE  t \in owed' <=> wait'[t] = 0
    BY DEF Tick, SlotsFireOnce
  <2>1. t \in owed <=> wait[t] = 0
    BY DEF Inv, SlotsFireOnce
  <2>2. t \in owed' <=> t \in owed \/ slot' \in Slots[t]
    BY DEF Tick
  <2>3. CASE wait[t] = 0
    BY <1>2, <2>1, <2>2, <2>3
  <2>4. CASE wait[t] > 0
    BY <1>5, <2>1, <2>2, <2>4
  <2>. QED  BY <2>3, <2>4 DEF Inv, TypeOK
<1>8. ReportInv'
  BY DEF Tick, Inv, ReportInv
<1>. QED  BY <1>4, <1>6, <1>7, <1>8 DEF Inv

\* A task or the webhook that breaks or recovers keeps the invariant.
LEMMA WeatherStep ==
  ASSUME Inv, Weather
  PROVE  Inv'
<1>1. TypeOK'
  BY SchedulerAssumption DEF Weather, Inv, TypeOK
<1>2. SlotInv' /\ SlotsFireOnce'
  BY DEF Weather, Inv, SlotInv, SlotsFireOnce, IsNext
<1>3. ReportInv'
  BY DEF Weather, Inv, ReportInv
<1>. QED  BY <1>1, <1>2, <1>3 DEF Inv

\* A stop and restart keeps the invariant.
LEMMA StopStep ==
  ASSUME Inv, Stop
  PROVE  Inv'
<1>1. loop' = loop \/ (loop = "asleep" /\ loop' = "ended")
  BY DEF Stop
<1>2. TypeOK'
  BY <1>1 DEF Stop, Inv, TypeOK
<1>3. SlotInv'
  BY <1>1 DEF Stop, Inv, SlotInv, IsNext
<1>4. SlotsFireOnce'
  BY <1>1 DEF Stop, Inv, SlotsFireOnce
<1>5. ReportInv'
  BY <1>1 DEF Stop, Inv, ReportInv
<1>. QED  BY <1>2, <1>3, <1>4, <1>5 DEF Inv

\* A step that changes nothing keeps the invariant.
LEMMA StutterStep ==
  ASSUME Inv, UNCHANGED vars
  PROVE  Inv'
<1>1. TypeOK' /\ SlotsFireOnce'
  BY DEF vars, Inv, TypeOK, SlotsFireOnce
<1>2. SlotInv' /\ ReportInv'
  BY DEF vars, Inv, SlotInv, ReportInv, IsNext
<1>. QED  BY <1>1, <1>2 DEF Inv

-------------------------------------------------------------------------------
(* Theorems                                                                 *)

\* The inductive invariant of the scheduler: a daily task is due or waits for its
\* next slot, a pass owes only what is due, and the streak of failures, the
\* persisted mark and the reports agree, for any tasks, schedules, outages and
\* restarts (scheduler.Run, recordJobRun and maybeEscalateJobFailure).
THEOREM Invariance == Spec => []Inv
<1>1. Inv /\ [Next]_vars => Inv'
  BY RunPendingStep, SleepStep, RunTaskStep, EndRunStep, EscalateStep, TickStep, WeatherStep,
     StopStep, StutterStep DEF Next, Loop
<1>. QED  BY InvInit, <1>1, PTL DEF Spec

\* Every variable stays in its type: in particular a pass only ever runs tasks
\* that have a schedule.
THEOREM TypeCorrect == Spec => []TypeOK
<1>1. Inv => TypeOK
  BY DEF Inv
<1>. QED  BY <1>1, Invariance, PTL

\* No slot of a daily schedule fires twice and none is missed, but those that pass
\* while the task itself runs (followingRun, nextDaily and nextWeekly).
THEOREM SlotsFire == Spec => []SlotsFireOnce
<1>1. Inv => SlotsFireOnce
  BY DEF Inv
<1>. QED  BY <1>1, Invariance, PTL

\* A streak of failures is reported at most once unless an answer was lost
\* (maybeEscalateJobFailure).
THEOREM ReportedOnce == Spec => []OneReportPerStreak
<1>1. Inv => OneReportPerStreak
  BY DEF Inv, ReportInv, OneReportPerStreak
<1>. QED  BY <1>1, Invariance, PTL

\* A report is never early: what was sent belongs to a streak that has reached
\* JOB_FAILURE_ALERT_THRESHOLD and has not been ended by a success.
THEOREM NoEarlyReport == Spec => [](\A t \in Tasks : sent[t] > 0 => streak[t] = Threshold)
<1>1. Inv => (\A t \in Tasks : sent[t] > 0 => streak[t] = Threshold)
  BY DEF Inv, ReportInv
<1>. QED  BY <1>1, Invariance, PTL

===============================================================================

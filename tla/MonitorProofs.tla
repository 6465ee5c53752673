----------------------------- MODULE MonitorProofs -----------------------------
(***************************************************************************)
(* Proofs about Monitor, for every number of projects and pages, every     *)
(* cooldown and every bound.                                               *)
(***************************************************************************)
EXTENDS Monitor, FiniteSetTheorems, TLAPS

-------------------------------------------------------------------------------
(* Facts about the operators                                                *)

\* The look-back of LastSentAlert, a whole number of days, covers the cooldown.
LEMMA WindowCovers ==
  ASSUME NEW within \in Nat, NEW day \in Nat \ {0}
  PROVE  within <= (within \div day + 1) * day
<1>1. within = day * (within \div day) + (within % day) /\ (within % day) < day
  OBVIOUS
<1>2. within \div day \in Nat /\ within % day \in Nat
  OBVIOUS
<1>3. (within \div day + 1) * day = day * (within \div day) + day
  BY <1>2
<1>. QED  BY <1>1, <1>2, <1>3

\* Updating one cell of a table of an actor's projects.
LEMMA Cell ==
  ASSUME NEW V, NEW f \in [Actors -> [Projects -> V]],
         NEW a \in Actors, NEW p \in Projects, NEW v \in V
  PROVE  /\ [f EXCEPT ![a][p] = v] \in [Actors -> [Projects -> V]]
         /\ \A b \in Actors, q \in Projects :
              [f EXCEPT ![a][p] = v][b][q] = IF b = a /\ q = p THEN v ELSE f[b][q]
OBVIOUS

\* Updating one entry of a table over keys.
LEMMA Entry ==
  ASSUME NEW f \in [Keys -> Nat \cup {Never}], NEW k \in Keys, NEW n \in Nat
  PROVE  /\ [f EXCEPT ![k] = n] \in [Keys -> Nat \cup {Never}]
         /\ \A j \in Keys : [f EXCEPT ![k] = n][j] = IF j = k THEN n ELSE f[j]
OBVIOUS

\* An alert that is finished leads to the next check of the project or to its end.
LEMMA FinishStage == \A s : Finish(s) \in {"spike", "done"}
BY DEF Finish

-------------------------------------------------------------------------------
(* Types                                                                    *)

\* Every variable has its type at startup.
LEMMA TypeInit == Init => TypeOK
<1> SUFFICES ASSUME Init  PROVE TypeOK
  OBVIOUS
<1> USE MonitorAssumption
<1>1. StoreTypes
  BY DEF Init, StoreTypes, Balances
<1>2. RoundTypes
  BY DEF Init, RoundTypes, Phases, Stages, Active
<1>3. HistoryTypes
  BY DEF Init, HistoryTypes
<1>4. FlagTypes
  BY DEF Init, FlagTypes
<1>. QED  BY <1>1, <1>2, <1>3, <1>4 DEF TypeOK

\* A delivery that moves on keeps the tables' types.
LEMMA MoveType ==
  ASSUME RoundTypes, NEW a \in Actors, NEW p \in Projects,
         NEW v \in Stages, NEW s \in Sources \cup {"none"},
         pc' = [pc EXCEPT ![a][p] = v], src' = [src EXCEPT ![a][p] = s],
         UNCHANGED <<phase, res>>
  PROVE  RoundTypes'
BY DEF RoundTypes

\* A project and a source make a cooldown key.
LEMMA KeyType ==
  ASSUME NEW p \in Projects, NEW s \in Sources
  PROVE  <<p, s>> \in Keys
BY DEF Keys

\* A judged or failed check keeps the types of what it assigns.
LEMMA JudgeType ==
  ASSUME TypeOK, NEW a \in Actors, NEW p \in Projects, NEW b, Judge(a, p, b), UNCHANGED phase
  PROVE  RoundTypes' /\ saved' \in [Projects -> Nat \cup {Never}]
<1>1. saved' \in [Projects -> Nat \cup {Never}]
  BY DEF Judge, TypeOK, StoreTypes
<1>2. pc' \in [Actors -> [Projects -> Stages]]
  BY DEF Judge, TypeOK, RoundTypes, Stages, Active
<1>3. src' \in [Actors -> [Projects -> Sources \cup {"none"}]]
  BY DEF Judge, TypeOK, RoundTypes, Sources
<1>4. res' \in [Actors -> [Projects -> {"none", "ok", "low", "failed"}]]
  BY DEF Judge, TypeOK, RoundTypes
<1>. QED  BY <1>1, <1>2, <1>3, <1>4 DEF TypeOK, RoundTypes

\* A failure leaves the types of the round.
LEMMA FailureType ==
  ASSUME TypeOK, NEW a \in Actors, NEW p \in Projects, Failure(a, p), UNCHANGED phase
  PROVE  RoundTypes' /\ saved' \in [Projects -> Nat \cup {Never}]
<1>1. saved' \in [Projects -> Nat \cup {Never}]
  BY DEF Failure, TypeOK, StoreTypes
<1>2. pc' \in [Actors -> [Projects -> Stages]]
  BY DEF Failure, TypeOK, RoundTypes, Stages, Active
<1>3. src' \in [Actors -> [Projects -> Sources \cup {"none"}]]
  BY DEF Failure, TypeOK, RoundTypes, Sources
<1>4. res' \in [Actors -> [Projects -> {"none", "ok", "low", "failed"}]]
  BY DEF Failure, TypeOK, RoundTypes
<1>. QED  BY <1>1, <1>2, <1>3, <1>4 DEF TypeOK, RoundTypes

\* Every step keeps the types.  DeliveryInv is needed for the keys in `tainted':
\* what is being delivered has a kind.
LEMMA TypeStep ==
  ASSUME TypeOK, DeliveryInv, [Next]_vars
  PROVE  TypeOK'
<1> USE MonitorAssumption, StoreAssumption
<1>1. ASSUME NEW a \in Actors, Run(a)
      PROVE  TypeOK'
  <2>1. RoundTypes'
    BY <1>1 DEF Run, TypeOK, RoundTypes, Phases, Stages
  <2>2. StoreTypes' /\ HistoryTypes'
    BY <1>1 DEF Run, TypeOK, StoreTypes, HistoryTypes
  <2>3. FlagTypes'
    BY <1>1 DEF Run, DryRuns, TypeOK, FlagTypes
  <2>. QED  BY <2>1, <2>2, <2>3 DEF TypeOK
<1>2. ASSUME NEW a \in Actors, Advance(a)
      PROVE  TypeOK'
  <2>1. NextPhase(phase[a]) \in Phases
    BY DEF NextPhase, AfterBudgets, Phases
  <2>2. RoundTypes'
    BY <1>2, <2>1 DEF Advance, TypeOK, RoundTypes, Stages
  <2>3. StoreTypes' /\ HistoryTypes'
    BY <1>2 DEF Advance, TypeOK, StoreTypes, HistoryTypes
  <2>4. FlagTypes'
    BY <1>2 DEF Advance, TypeOK, FlagTypes
  <2>. QED  BY <2>2, <2>3, <2>4 DEF TypeOK
<1>3. ASSUME NEW a \in Actors, NEW p \in Projects, CheckProject(a, p)
      PROVE  TypeOK'
  <2>1. RoundTypes' /\ saved' \in [Projects -> Nat \cup {Never}]
    <3>1. CASE \E e \in cache : Judge(a, p, e.credits)
      BY <1>3, <3>1, JudgeType DEF CheckProject
    <3>2. CASE pc' = [pc EXCEPT ![a][p] = "fetch"] /\ UNCHANGED <<saved, src, res>>
      BY <1>3, <3>2 DEF CheckProject, TypeOK, StoreTypes, RoundTypes, Stages, Active
    <3>. QED  BY <1>3, <3>1, <3>2 DEF CheckProject
  <2>2. StoreTypes' /\ HistoryTypes'
    BY <1>3, <2>1 DEF CheckProject, TypeOK, StoreTypes, HistoryTypes
  <2>3. FlagTypes'
    BY <1>3 DEF CheckProject, TypeOK, FlagTypes
  <2>. QED  BY <2>1, <2>2, <2>3 DEF TypeOK
<1>4. ASSUME NEW a \in Actors, NEW p \in Projects, Fetch(a, p)
      PROVE  TypeOK'
  <2>1. RoundTypes' /\ saved' \in [Projects -> Nat \cup {Never}]
    BY <1>4, JudgeType, FailureType DEF Fetch
  <2>2. cache' \subseteq [cred : Creds, at : Nat, credits : Balances]
    BY <1>4 DEF Fetch, TypeOK, StoreTypes, Balances
  <2>3. StoreTypes' /\ HistoryTypes'
    BY <1>4, <2>1, <2>2 DEF Fetch, TypeOK, StoreTypes, HistoryTypes
  <2>4. FlagTypes'
    BY <1>4 DEF Fetch, TypeOK, FlagTypes
  <2>. QED  BY <2>1, <2>3, <2>4 DEF TypeOK
<1>5. ASSUME NEW a \in Actors, NEW p \in Projects, NoAdapter(a, p)
      PROVE  TypeOK'
  <2>1. RoundTypes' /\ saved' \in [Projects -> Nat \cup {Never}]
    BY <1>5, FailureType DEF NoAdapter
  <2>2. StoreTypes' /\ HistoryTypes'
    BY <1>5, <2>1 DEF NoAdapter, TypeOK, StoreTypes, HistoryTypes
  <2>3. FlagTypes'
    BY <1>5 DEF NoAdapter, TypeOK, FlagTypes
  <2>. QED  BY <2>1, <2>2, <2>3 DEF TypeOK
<1>6. ASSUME NEW a \in Actors, SkipPhase(a)
      PROVE  TypeOK'
  <2>1. RoundTypes'
    BY <1>6 DEF SkipPhase, TypeOK, RoundTypes, Stages
  <2>2. StoreTypes' /\ HistoryTypes'
    BY <1>6 DEF SkipPhase, TypeOK, StoreTypes, HistoryTypes
  <2>3. FlagTypes'
    BY <1>6 DEF SkipPhase, TypeOK, FlagTypes
  <2>. QED  BY <2>1, <2>2, <2>3 DEF TypeOK
<1>7. ASSUME NEW a \in Actors, NEW p \in Projects, NEW due, NEW s \in Sources,
             NEW otherwise \in {"done", "spike"}, Raise(a, p, due, s, otherwise),
             faults' = faults \/ (faults < MaxFaults /\ faults' = faults + 1)
      PROVE  TypeOK'
  <2>1. RoundTypes'
    BY <1>7, MoveType DEF Raise, TypeOK, Stages, Active
  <2>2. StoreTypes' /\ HistoryTypes'
    BY <1>7 DEF Raise, TypeOK, StoreTypes, HistoryTypes
  <2>3. FlagTypes'
    BY <1>7 DEF Raise, TypeOK, FlagTypes
  <2>. QED  BY <2>1, <2>2, <2>3 DEF TypeOK
<1>8. ASSUME NEW a \in Actors, NEW p \in Projects,
             \/ BudgetCheck(a, p) \/ CheckUsage(a, p) \/ CheckUsageBlind(a, p)
             \/ RunwayCheck(a, p) \/ SpikeCheck(a, p)
      PROVE  TypeOK'
  BY <1>7, <1>8 DEF BudgetCheck, CheckUsage, CheckUsageBlind, RunwayCheck, SpikeCheck, Sources
<1>9. ASSUME NEW a \in Actors, NEW p \in Projects, pc[a][p] \in InFlight \cup {"query"}
      PROVE  src[a][p] \in Sources /\ <<p, src[a][p]>> \in Keys
  BY <1>9 DEF DeliveryInv, Keys
<1>10. ASSUME NEW a \in Actors, NEW p \in Projects, NEW s \in Sources, Proceed(a, p, s),
              UNCHANGED <<phase, res>>
       PROVE  RoundTypes' /\ pushed' \in [Keys -> Nat \cup {Never}]
  <2>1. RoundTypes'
    BY <1>10, MoveType DEF Proceed, Finish, TypeOK, Stages, Active
  <2>2. <<p, s>> \in Keys
    BY KeyType
  <2>3. pushed' \in [Keys -> Nat \cup {Never}]
    BY <1>10, <2>2 DEF Proceed, TypeOK, StoreTypes, HistoryTypes
  <2>. QED  BY <2>1, <2>3
<1>11. ASSUME NEW a \in Actors, NEW p \in Projects, QueryCooldown(a, p)
       PROVE  TypeOK'
  <2> DEFINE s == src[a][p]
  <2>1. s \in Sources /\ <<p, s>> \in Keys
    BY <1>9, <1>11 DEF QueryCooldown, InFlight
  <2>2. RoundTypes' /\ HistoryTypes'
    <3>1. CASE CoolingDown(p, s)
      <4>1. RoundTypes'
        BY <1>11, <2>1, <3>1, MoveType DEF QueryCooldown, Finish, TypeOK, Stages, Active
      <4>. QED  BY <1>11, <3>1, <4>1 DEF QueryCooldown, TypeOK, HistoryTypes
    <3>2. CASE ~CoolingDown(p, s)
      <4>1. RoundTypes' /\ pushed' \in [Keys -> Nat \cup {Never}]
        BY <1>10, <1>11, <2>1, <3>2 DEF QueryCooldown
      <4>2. tainted' \subseteq Keys
        BY <1>11, <2>1, <3>2 DEF QueryCooldown, TypeOK, HistoryTypes
      <4>. QED  BY <1>11, <4>1, <4>2 DEF QueryCooldown, TypeOK, HistoryTypes
    <3>. QED  BY <3>1, <3>2
  <2>3. StoreTypes'
    BY <1>11 DEF QueryCooldown, TypeOK, StoreTypes
  <2>4. FlagTypes'
    BY <1>11 DEF QueryCooldown, TypeOK, FlagTypes
  <2>. QED  BY <2>2, <2>3, <2>4 DEF TypeOK
<1>12. ASSUME NEW a \in Actors, NEW p \in Projects, QueryFails(a, p)
       PROVE  TypeOK'
  <2> DEFINE s == src[a][p]
  <2>1. s \in Sources /\ <<p, s>> \in Keys
    BY <1>9, <1>12 DEF QueryFails, InFlight
  <2>2. RoundTypes' /\ pushed' \in [Keys -> Nat \cup {Never}]
    BY <1>10, <1>12, <2>1 DEF QueryFails
  <2>3. StoreTypes' /\ HistoryTypes'
    BY <1>12, <2>1, <2>2 DEF QueryFails, TypeOK, StoreTypes, HistoryTypes
  <2>4. FlagTypes'
    BY <1>12 DEF QueryFails, TypeOK, FlagTypes
  <2>. QED  BY <2>2, <2>3, <2>4 DEF TypeOK
<1>13. ASSUME NEW a \in Actors, NEW p \in Projects, Send(a, p)
       PROVE  TypeOK'
  <2>1. <<p, src[a][p]>> \in Keys
    BY <1>9, <1>13 DEF Send, InFlight
  <2>2. RoundTypes'
    BY <1>13 DEF Send, TypeOK, RoundTypes, Stages, Active
  <2>3. StoreTypes' /\ HistoryTypes'
    BY <1>13, <2>1 DEF Send, TypeOK, StoreTypes, HistoryTypes
  <2>4. FlagTypes'
    BY <1>13 DEF Send, TypeOK, FlagTypes
  <2>. QED  BY <2>2, <2>3, <2>4 DEF TypeOK
<1>14. ASSUME NEW a \in Actors, NEW p \in Projects, SendFails(a, p)
       PROVE  TypeOK'
  <2> DEFINE s == src[a][p]
  <2>1. s \in Sources /\ <<p, s>> \in Keys
    BY <1>9, <1>14 DEF SendFails, InFlight
  <2>2. RoundTypes'
    <3>1. CASE s \in ByDeliver
      <4>1. pc' = [pc EXCEPT ![a][p] = "failed"] /\ UNCHANGED <<src, phase, res>>
        BY <1>14, <3>1 DEF SendFails
      <4>. QED  BY <4>1 DEF TypeOK, RoundTypes, Stages, Active
    <3>2. CASE s \notin ByDeliver
      <4>1. /\ pc' = [pc EXCEPT ![a][p] = Finish(s)]
            /\ src' = [src EXCEPT ![a][p] = "none"]
            /\ UNCHANGED <<phase, res>>
        BY <1>14, <3>2 DEF SendFails
      <4>2. Finish(s) \in Stages
        BY FinishStage DEF Stages, Active
      <4>. QED  BY <4>1, <4>2, MoveType DEF TypeOK
    <3>. QED  BY <3>1, <3>2
  <2>3. delivered' \in [Keys -> Nat \cup {Never}] /\ tainted' \subseteq Keys
    BY <1>14, <2>1 DEF SendFails, TypeOK, StoreTypes, HistoryTypes
  <2>4. StoreTypes' /\ HistoryTypes'
    BY <1>14, <2>3 DEF SendFails, TypeOK, StoreTypes, HistoryTypes
  <2>5. FlagTypes'
    BY <1>14 DEF SendFails, TypeOK, FlagTypes
  <2>. QED  BY <2>2, <2>4, <2>5 DEF TypeOK
<1>15. ASSUME NEW a \in Actors, NEW p \in Projects, RecordAlert(a, p)
       PROVE  TypeOK'
  <2> DEFINE s == src[a][p]
  <2>1. s \in Sources /\ <<p, s>> \in Keys
    BY <1>9, <1>15 DEF RecordAlert, InFlight
  <2>2. RoundTypes'
    BY <1>15, MoveType DEF RecordAlert, Finish, TypeOK, Stages, Active
  <2>3. alerts' \subseteq [key : Keys, status : Statuses, at : Nat]
    <3>1. Row(RecordKey(p, s), pc[a][p], now) \in [key : Keys, status : Statuses, at : Nat]
      BY <1>15, <2>1 DEF RecordAlert, RecordKey, Row, Statuses, TypeOK, StoreTypes
    <3>2. alerts' \subseteq alerts \cup {Row(RecordKey(p, s), pc[a][p], now)}
      BY <1>15 DEF RecordAlert, SaveAlert
    <3>. QED  BY <3>1, <3>2 DEF TypeOK, StoreTypes
  <2>4. StoreTypes' /\ HistoryTypes'
    BY <1>15, <2>3 DEF RecordAlert, TypeOK, StoreTypes, HistoryTypes
  <2>5. FlagTypes'
    BY <1>15 DEF RecordAlert, TypeOK, FlagTypes
  <2>. QED  BY <2>2, <2>4, <2>5 DEF TypeOK
<1>16. ASSUME NEW a \in Actors, NEW p \in Projects, RecordFails(a, p)
       PROVE  TypeOK'
  <2>1. <<p, src[a][p]>> \in Keys
    BY <1>9, <1>16 DEF RecordFails, InFlight
  <2>2. RoundTypes'
    BY <1>16, MoveType DEF RecordFails, Finish, TypeOK, Stages, Active
  <2>3. StoreTypes' /\ HistoryTypes'
    BY <1>16, <2>1 DEF RecordFails, TypeOK, StoreTypes, HistoryTypes
  <2>4. FlagTypes'
    BY <1>16 DEF RecordFails, TypeOK, FlagTypes
  <2>. QED  BY <2>2, <2>3, <2>4 DEF TypeOK
<1>17. ASSUME NEW S, RoundsLost(S)
       PROVE  RoundTypes'
  BY <1>17 DEF RoundsLost, TypeOK, RoundTypes, Phases, Stages
<1>18. \A S : Unrecorded(S) \subseteq Keys
  BY DEF Unrecorded
<1>19. ASSUME ProcessLost
       PROVE  /\ RoundTypes'
              /\ cache' = {}
              /\ alerts' \subseteq alerts
              /\ tainted' \subseteq Keys
  BY <1>17, <1>18, <1>19 DEF ProcessLost, TypeOK, HistoryTypes
<1>20. ASSUME Restart
       PROVE  TypeOK'
  <2>1. StoreTypes' /\ HistoryTypes'
    BY <1>19, <1>20 DEF Restart, TypeOK, StoreTypes, HistoryTypes
  <2>2. FlagTypes'
    BY <1>20 DEF Restart, TypeOK, FlagTypes
  <2>. QED  BY <1>19, <1>20, <2>1, <2>2 DEF Restart, TypeOK
<1>21. ASSUME NEW a \in Actors, NEW p \in Projects, NilNotifier(a, p)
       PROVE  TypeOK'
  <2>1. RoundTypes' /\ tainted' \subseteq Keys
    BY <1>17, <1>18, <1>19, <1>21 DEF NilNotifier, TypeOK, HistoryTypes
  <2>2. (cache' = {} \/ cache' = cache) /\ alerts' \subseteq alerts
    BY <1>19, <1>21 DEF NilNotifier
  <2>3. StoreTypes' /\ HistoryTypes'
    BY <1>21, <2>1, <2>2 DEF NilNotifier, TypeOK, StoreTypes, HistoryTypes
  <2>4. FlagTypes'
    BY <1>21 DEF NilNotifier, TypeOK, FlagTypes
  <2>. QED  BY <2>1, <2>3, <2>4 DEF TypeOK
<1>22. ASSUME Tick \/ Upstream \/ PruneHistory
       PROVE  TypeOK'
  <2>1. StoreTypes'
    BY <1>22 DEF Tick, Upstream, PruneHistory, PruneHistoryBefore, TypeOK, StoreTypes
  <2>2. RoundTypes' /\ HistoryTypes'
    BY <1>22 DEF Tick, Upstream, PruneHistory, TypeOK, RoundTypes, HistoryTypes
  <2>3. FlagTypes'
    BY <1>22 DEF Tick, Upstream, PruneHistory, TypeOK, FlagTypes
  <2>. QED  BY <2>1, <2>2, <2>3 DEF TypeOK
<1>23. CASE UNCHANGED vars
  <2>1. StoreTypes' /\ RoundTypes' /\ HistoryTypes'
    BY <1>23 DEF vars, TypeOK, StoreTypes, RoundTypes, HistoryTypes
  <2>2. FlagTypes'
    BY <1>23 DEF vars, TypeOK, FlagTypes
  <2>. QED  BY <2>1, <2>2 DEF TypeOK
<1>. QED
  BY <1>1, <1>2, <1>3, <1>4, <1>5, <1>6, <1>8, <1>11, <1>12, <1>13, <1>14, <1>15, <1>16,
     <1>20, <1>21, <1>22, <1>23 DEF Next, Step, Fault

-------------------------------------------------------------------------------
(* Deliveries                                                               *)

\* No delivery is under way when the process starts.
LEMMA DeliveryInit == Init => DeliveryInv
BY DEF Init, DeliveryInv, InFlight

\* Moving one project of one actor's round keeps DeliveryInv when the new stage
\* does.
LEMMA MoveDelivery ==
  ASSUME TypeOK, DeliveryInv, NEW a \in Actors, NEW p \in Projects,
         NEW v \in Stages, NEW s \in Sources \cup {"none"},
         pc' = [pc EXCEPT ![a][p] = v], src' = [src EXCEPT ![a][p] = s],
         UNCHANGED <<phase, dry, webhook>>,
         phase[a] # "idle",
         v \in InFlight \cup {"query"} => s \in Sources /\ ~dry[a],
         v \in InFlight => webhook
  PROVE  DeliveryInv'
<1> SUFFICES ASSUME NEW b \in Actors, NEW q \in Projects
             PROVE  /\ phase'[b] = "idle" => pc'[b][q] = "idle"
                    /\ pc'[b][q] \in InFlight \cup {"query"} => src'[b][q] \in Sources /\ ~dry'[b]
                    /\ pc'[b][q] \in InFlight => webhook'
  BY DEF DeliveryInv
<1>1. /\ pc'[b][q] = IF b = a /\ q = p THEN v ELSE pc[b][q]
      /\ src'[b][q] = IF b = a /\ q = p THEN s ELSE src[b][q]
  BY Cell DEF TypeOK, RoundTypes
<1>2. CASE b = a /\ q = p
  BY <1>1, <1>2
<1>3. CASE ~(b = a /\ q = p)
  BY <1>1, <1>3 DEF DeliveryInv
<1>. QED  BY <1>2, <1>3

\* Steps of a project's check: where it stands and where it goes.
LEMMA JudgeMove ==
  ASSUME TypeOK, NEW a \in Actors, NEW p \in Projects, NEW b, Judge(a, p, b) \/ Failure(a, p)
  PROVE  \E v \in {"done", "query"}, s \in Sources \cup {"none"} :
            /\ pc' = [pc EXCEPT ![a][p] = v]
            /\ src' = [src EXCEPT ![a][p] = s]
            /\ v = "query" => s \in Sources /\ ~dry[a]
            /\ s \notin Unguarded
<1>1. CASE pc' = [pc EXCEPT ![a][p] = "done"] /\ src' = [src EXCEPT ![a][p] = "none"]
  <2>1. "none" \notin Unguarded
    BY DEF Unguarded
  <2>. QED  BY <1>1, <2>1
<1>2. ASSUME NEW s \in ByDeliver, ~dry[a],
             pc' = [pc EXCEPT ![a][p] = "query"], src' = [src EXCEPT ![a][p] = s]
      PROVE  \E v \in {"done", "query"}, k \in Sources \cup {"none"} :
                /\ pc' = [pc EXCEPT ![a][p] = v]
                /\ src' = [src EXCEPT ![a][p] = k]
                /\ v = "query" => k \in Sources /\ ~dry[a]
                /\ k \notin Unguarded
  <2>1. s \in Sources /\ s \notin Unguarded
    BY DEF ByDeliver, Sources, Unguarded
  <2>. QED  BY <1>2, <2>1
<1>3. CASE Judge(a, p, b)
  <2>1. CASE b < Threshold[p] /\ ~dry[a]
    BY <1>2, <1>3, <2>1 DEF Judge, ByDeliver
  <2>2. CASE ~(b < Threshold[p] /\ ~dry[a])
    BY <1>1, <1>3, <2>2 DEF Judge
  <2>. QED  BY <2>1, <2>2
<1>4. CASE Failure(a, p)
  <2>1. CASE dry[a]
    BY <1>1, <1>4, <2>1 DEF Failure
  <2>2. CASE ~dry[a]
    BY <1>2, <1>4, <2>2 DEF Failure, ByDeliver
  <2>. QED  BY <2>1, <2>2
<1>. QED  BY <1>3, <1>4

\* Where a project is after a condition was met: asking for the cooldown, or past it.
LEMMA RaiseMove ==
  ASSUME NEW a \in Actors, NEW p \in Projects, NEW due, NEW s \in Sources,
         NEW otherwise \in {"done", "spike"}, Raise(a, p, due, s, otherwise)
  PROVE  \E v \in {"done", "spike", "query"}, k \in Sources \cup {"none"} :
            /\ pc' = [pc EXCEPT ![a][p] = v]
            /\ src' = [src EXCEPT ![a][p] = k]
            /\ v = "query" => k = s /\ ~dry[a]
            /\ k \in {s, "none"}
<1>1. CASE due /\ ~dry[a]
  BY <1>1 DEF Raise
<1>2. CASE ~(due /\ ~dry[a])
  BY <1>2 DEF Raise
<1>. QED  BY <1>1, <1>2

\* Where a project is after the cooldown answered: sending, or past it.
LEMMA ProceedMove ==
  ASSUME NEW a \in Actors, NEW p \in Projects, NEW s \in Sources, Proceed(a, p, s)
  PROVE  \E v \in {"done", "spike", "send"}, k \in Sources \cup {"none"} :
            /\ pc' = [pc EXCEPT ![a][p] = v]
            /\ src' = [src EXCEPT ![a][p] = k]
            /\ v = "send" => k = s /\ webhook
<1>1. CASE webhook
  BY <1>1 DEF Proceed
<1>2. CASE ~webhook
  BY <1>2, FinishStage DEF Proceed
<1>. QED  BY <1>1, <1>2

\* A step that ends or never starts a delivery: what the checks and the loops
\* after them do to one project.
CheckStep(a, p) ==
  \/ CheckProject(a, p) \/ Fetch(a, p) \/ NoAdapter(a, p)
  \/ BudgetCheck(a, p) \/ CheckUsage(a, p) \/ CheckUsageBlind(a, p)
  \/ RunwayCheck(a, p) \/ SpikeCheck(a, p)

\* Where a project is after one check of a round.
LEMMA CheckStepMove ==
  ASSUME TypeOK, NEW a \in Actors, NEW p \in Projects, CheckStep(a, p)
  PROVE  /\ pc[a][p] \in {"queued", "fetch", "spike"}
         /\ \E v \in {"fetch", "done", "spike", "query"}, s \in Sources \cup {"none"} :
              /\ pc' = [pc EXCEPT ![a][p] = v]
              /\ src' = [src EXCEPT ![a][p] = s]
              /\ v = "query" => s \in Sources /\ ~dry[a]
              /\ s \in Unguarded => s = src[a][p] \/ phase[a] \in {"budget", "usage"}
         /\ UNCHANGED <<now, alerts, phase, dry, delivered, tainted, webhook>>
<1>1. CASE CheckProject(a, p)
  <2>1. CASE \E e \in cache : Judge(a, p, e.credits)
    BY <1>1, <2>1, JudgeMove DEF CheckProject
  <2>2. CASE pc' = [pc EXCEPT ![a][p] = "fetch"] /\ UNCHANGED src
    <3>1. src = [src EXCEPT ![a][p] = src[a][p]] /\ src[a][p] \in Sources \cup {"none"}
      BY DEF TypeOK, RoundTypes
    <3>. QED  BY <1>1, <2>2, <3>1 DEF CheckProject
  <2>. QED  BY <1>1, <2>1, <2>2 DEF CheckProject
<1>2. CASE Fetch(a, p) \/ NoAdapter(a, p)
  BY <1>2, JudgeMove DEF Fetch, NoAdapter
<1>3. ASSUME NEW due, NEW s \in Sources, NEW otherwise \in {"done", "spike"},
             Raise(a, p, due, s, otherwise), s \in Unguarded => phase[a] \in {"budget", "usage"}
      PROVE  /\ \E v \in {"fetch", "done", "spike", "query"}, k \in Sources \cup {"none"} :
                  /\ pc' = [pc EXCEPT ![a][p] = v]
                  /\ src' = [src EXCEPT ![a][p] = k]
                  /\ v = "query" => k \in Sources /\ ~dry[a]
                  /\ k \in Unguarded => k = src[a][p] \/ phase[a] \in {"budget", "usage"}
             /\ UNCHANGED <<now, alerts, phase, dry, delivered, tainted, webhook>>
  BY <1>3, RaiseMove DEF Raise, Unguarded
<1>4. CASE BudgetCheck(a, p) \/ CheckUsage(a, p) \/ CheckUsageBlind(a, p)
  BY <1>3, <1>4 DEF BudgetCheck, CheckUsage, CheckUsageBlind, NextInLoop, Sources
<1>5. CASE RunwayCheck(a, p) \/ SpikeCheck(a, p)
  BY <1>3, <1>5 DEF RunwayCheck, SpikeCheck, NextInLoop, Sources, Unguarded
<1>. QED  BY <1>1, <1>2, <1>4, <1>5 DEF CheckStep

\* What the steps of a delivery do to its project.
LEMMA QueryMove ==
  ASSUME DeliveryInv, NEW a \in Actors, NEW p \in Projects, QueryCooldown(a, p) \/ QueryFails(a, p)
  PROVE  /\ pc[a][p] = "query" /\ src[a][p] \in Sources
         /\ \E v \in {"done", "spike", "send"}, s \in Sources \cup {"none"} :
              /\ pc' = [pc EXCEPT ![a][p] = v]
              /\ src' = [src EXCEPT ![a][p] = s]
              /\ v = "send" => s = src[a][p] /\ webhook
         /\ UNCHANGED <<now, alerts, phase, dry, delivered, webhook>>
<1>1. pc[a][p] = "query" /\ src[a][p] \in Sources
  BY DEF QueryCooldown, QueryFails, DeliveryInv
<1>2. CASE QueryCooldown(a, p) /\ CoolingDown(p, src[a][p])
  BY <1>1, <1>2, FinishStage DEF QueryCooldown
<1>3. CASE QueryCooldown(a, p) /\ ~CoolingDown(p, src[a][p])
  BY <1>1, <1>3, ProceedMove DEF QueryCooldown
<1>4. CASE QueryFails(a, p)
  BY <1>1, <1>4, ProceedMove DEF QueryFails
<1>. QED  BY <1>2, <1>3, <1>4

\* Where a project is after a message was sent or failed.
LEMMA SendMove ==
  ASSUME TypeOK, DeliveryInv, NEW a \in Actors, NEW p \in Projects, Send(a, p) \/ SendFails(a, p)
  PROVE  /\ pc[a][p] = "send" /\ src[a][p] \in Sources
         /\ \E v \in {"sent", "failed", "done", "spike"}, s \in Sources \cup {"none"} :
              /\ pc' = [pc EXCEPT ![a][p] = v]
              /\ src' = [src EXCEPT ![a][p] = s]
              /\ v \in {"sent", "failed"} => s = src[a][p]
              /\ SendFails(a, p) => v # "sent"
         /\ UNCHANGED <<now, alerts, phase, dry, webhook>>
<1>1. pc[a][p] = "send" /\ src[a][p] \in Sources
  BY DEF Send, SendFails, DeliveryInv, InFlight
<1>2. src = [src EXCEPT ![a][p] = src[a][p]]
  BY DEF TypeOK, RoundTypes
<1>3. CASE SendFails(a, p)
  <2>1. CASE src[a][p] \in ByDeliver
    <3>1. pc' = [pc EXCEPT ![a][p] = "failed"] /\ UNCHANGED src
      BY <1>3, <2>1 DEF SendFails
    <3>. QED  BY <1>1, <1>2, <1>3, <3>1 DEF SendFails
  <2>2. CASE src[a][p] \notin ByDeliver
    <3>1. pc' = [pc EXCEPT ![a][p] = Finish(src[a][p])] /\ src' = [src EXCEPT ![a][p] = "none"]
      BY <1>3, <2>2 DEF SendFails
    <3>. QED  BY <1>1, <1>3, <3>1, FinishStage DEF SendFails
  <2>. QED  BY <2>1, <2>2
<1>4. CASE Send(a, p) /\ ~SendFails(a, p)
  BY <1>1, <1>2, <1>4 DEF Send
<1>. QED  BY <1>3, <1>4

\* Where a project is after its alert was recorded or failed to be.
LEMMA RecordMove ==
  ASSUME DeliveryInv, NEW a \in Actors, NEW p \in Projects, RecordAlert(a, p) \/ RecordFails(a, p)
  PROVE  /\ pc[a][p] \in {"sent", "failed"} /\ src[a][p] \in Sources
         /\ \E v \in {"done", "spike"} :
              /\ pc' = [pc EXCEPT ![a][p] = v]
              /\ src' = [src EXCEPT ![a][p] = "none"]
         /\ UNCHANGED <<now, phase, dry, delivered, webhook>>
BY FinishStage DEF RecordAlert, RecordFails, DeliveryInv, InFlight

\* A round that is gone leaves no delivery behind.
LEMMA LostCells ==
  ASSUME TypeOK, NEW S, RoundsLost(S), NEW b \in Actors, NEW q \in Projects
  PROVE  /\ phase'[b] = IF b \in S THEN "idle" ELSE phase[b]
         /\ pc'[b][q] = IF b \in S THEN "idle" ELSE pc[b][q]
         /\ src'[b][q] = IF b \in S THEN "none" ELSE src[b][q]
BY DEF RoundsLost

\* Every step keeps DeliveryInv.
LEMMA DeliveryStep ==
  ASSUME TypeOK, DeliveryInv, [Next]_vars
  PROVE  DeliveryInv'
<1>1. ASSUME NEW a \in Actors, NEW p \in Projects, CheckStep(a, p)
      PROVE  DeliveryInv'
  <2>1. phase[a] # "idle"
    BY <1>1, CheckStepMove DEF DeliveryInv
  <2>2. PICK v \in {"fetch", "done", "spike", "query"}, s \in Sources \cup {"none"} :
            /\ pc' = [pc EXCEPT ![a][p] = v]
            /\ src' = [src EXCEPT ![a][p] = s]
            /\ v = "query" => s \in Sources /\ ~dry[a]
    BY <1>1, CheckStepMove
  <2>3. UNCHANGED <<phase, dry, webhook>>
    BY <1>1, CheckStepMove
  <2>4. v \in Stages /\ v \notin InFlight
    BY DEF Stages, Active, InFlight
  <2>. QED  BY <2>1, <2>2, <2>3, <2>4, MoveDelivery
<1>2. ASSUME NEW a \in Actors, NEW p \in Projects, QueryCooldown(a, p) \/ QueryFails(a, p)
      PROVE  DeliveryInv'
  <2>1. phase[a] # "idle" /\ ~dry[a] /\ src[a][p] \in Sources
    BY <1>2, QueryMove DEF DeliveryInv
  <2>2. PICK v \in {"done", "spike", "send"}, s \in Sources \cup {"none"} :
            /\ pc' = [pc EXCEPT ![a][p] = v]
            /\ src' = [src EXCEPT ![a][p] = s]
            /\ v = "send" => s = src[a][p] /\ webhook
    BY <1>2, QueryMove
  <2>3. UNCHANGED <<phase, dry, webhook>>
    BY <1>2, QueryMove
  <2>4. v \in Stages /\ (v \in InFlight \cup {"query"} => v = "send")
    BY DEF Stages, Active, InFlight
  <2>. QED  BY <2>1, <2>2, <2>3, <2>4, MoveDelivery
<1>3. ASSUME NEW a \in Actors, NEW p \in Projects, Send(a, p) \/ SendFails(a, p)
      PROVE  DeliveryInv'
  <2>1. phase[a] # "idle" /\ ~dry[a] /\ webhook /\ src[a][p] \in Sources
    BY <1>3, SendMove DEF DeliveryInv, InFlight
  <2>2. PICK v \in {"sent", "failed", "done", "spike"}, s \in Sources \cup {"none"} :
            /\ pc' = [pc EXCEPT ![a][p] = v]
            /\ src' = [src EXCEPT ![a][p] = s]
            /\ v \in {"sent", "failed"} => s = src[a][p]
    BY <1>3, SendMove
  <2>3. UNCHANGED <<phase, dry, webhook>>
    BY <1>3, SendMove
  <2>4. v \in Stages /\ (v \in InFlight \cup {"query"} => v \in {"sent", "failed"})
    BY DEF Stages, Active, InFlight
  <2>. QED  BY <2>1, <2>2, <2>3, <2>4, MoveDelivery
<1>4. ASSUME NEW a \in Actors, NEW p \in Projects, RecordAlert(a, p) \/ RecordFails(a, p)
      PROVE  DeliveryInv'
  <2>1. phase[a] # "idle"
    BY <1>4, RecordMove DEF DeliveryInv, InFlight
  <2>2. PICK v \in {"done", "spike"} :
            pc' = [pc EXCEPT ![a][p] = v] /\ src' = [src EXCEPT ![a][p] = "none"]
    BY <1>4, RecordMove
  <2>3. UNCHANGED <<phase, dry, webhook>>
    BY <1>4, RecordMove
  <2>4. v \in Stages /\ v \notin InFlight \cup {"query"}
    BY DEF Stages, Active, InFlight
  <2>. QED  BY <2>1, <2>2, <2>3, <2>4, MoveDelivery
<1>5. ASSUME NEW a \in Actors, Run(a) \/ Advance(a) \/ SkipPhase(a)
      PROVE  DeliveryInv'
  <2> SUFFICES ASSUME NEW b \in Actors, NEW q \in Projects
               PROVE  /\ phase'[b] = "idle" => pc'[b][q] = "idle"
                      /\ pc'[b][q] \in InFlight \cup {"query"} => src'[b][q] \in Sources /\ ~dry'[b]
                      /\ pc'[b][q] \in InFlight => webhook'
    BY DEF DeliveryInv
  <2>1. CASE b = a
    <3>1. pc'[b][q] \in {"idle", "queued", "done"}
      BY <1>5, <2>1 DEF Run, Advance, SkipPhase, TypeOK, RoundTypes
    <3>2. phase'[b] = "idle" => pc'[b][q] = "idle"
      BY <1>5, <2>1 DEF Run, Advance, SkipPhase, TypeOK, RoundTypes
    <3>. QED  BY <3>1, <3>2 DEF InFlight
  <2>2. CASE b # a
    <3>1. UNCHANGED <<pc[b], phase[b], src[b], webhook>>
      BY <1>5, <2>2 DEF Run, Advance, SkipPhase, TypeOK, RoundTypes
    <3>2. dry'[b] = dry[b]
      BY <1>5, <2>2 DEF Run, Advance, SkipPhase, TypeOK, FlagTypes
    <3>. QED  BY <3>1, <3>2 DEF DeliveryInv
  <2>. QED  BY <2>1, <2>2
<1>6. ASSUME NEW S, RoundsLost(S), UNCHANGED <<dry, webhook>>
      PROVE  DeliveryInv'
  BY <1>6, LostCells DEF DeliveryInv, InFlight
<1>7. CASE Restart \/ \E a \in Actors, p \in Projects : NilNotifier(a, p)
  BY <1>6, <1>7 DEF Restart, NilNotifier, ProcessLost
<1>8. CASE Tick \/ Upstream \/ PruneHistory \/ UNCHANGED vars
  BY <1>8 DEF Tick, Upstream, PruneHistory, vars, DeliveryInv
<1>. QED
  BY <1>1, <1>2, <1>3, <1>4, <1>5, <1>7, <1>8 DEF Next, Step, Fault, CheckStep

-------------------------------------------------------------------------------
(* Cooldowns                                                                *)

\* What almost every step does to the cooldowns.  Time passes; rows may go once
\* they are a cooldown old; no delivery of an intact key begins, none reaches
\* "sent", and none leaves it; a webhook accepted outside of this order taints
\* its key.  Only three steps do more: a cooldown query that lets an alert
\* through, an accepted webhook, and the saving of its row.
Harmless ==
  /\ now \in Nat /\ now' \in Nat /\ now <= now'
  /\ alerts' \subseteq alerts
  /\ \A r \in alerts \ alerts' : r.key \in tainted' \/ r.at + Cooldown <= now
  /\ tainted \subseteq tainted'
  /\ \A k \in Keys : delivered'[k] = delivered[k] \/ (k \in tainted' /\ delivered'[k] = now)
  /\ \A b \in Actors, q \in Projects :
       /\ (pc'[b][q] \in InFlight /\ Intact(q, src[b][q])')
            => pc[b][q] \in InFlight /\ src'[b][q] = src[b][q]
       /\ pc'[b][q] = "sent" => pc[b][q] = "sent" /\ src'[b][q] = src[b][q]
       /\ (pc[b][q] = "sent" /\ <<q, src[b][q]>> \notin tainted')
            => pc'[b][q] = "sent" /\ src'[b][q] = src[b][q]

\* A step that lets no alert through, delivers none in order and saves no row keeps the cooldown.
LEMMA HarmlessStep ==
  ASSUME TypeOK, TypeOK', DeliveryInv, CooldownInv, Harmless
  PROVE  CooldownInv'
<1> USE MonitorAssumption
<1>0. /\ now \in Nat /\ now' \in Nat
      /\ \A r \in alerts : r.at \in Nat /\ r.key \in Keys
      /\ \A k \in Keys : delivered[k] \in Nat \cup {-1} /\ delivered'[k] \in Nat \cup {-1}
      /\ \A p \in Projects, s \in Sources : <<p, s>> \in Keys
      /\ Cooldown \in Nat
  BY DEF TypeOK, StoreTypes, HistoryTypes, Never, Keys
<1>1. ClockInv'
  BY <1>0 DEF CooldownInv, ClockInv, Harmless
<1>2. OneInFlight'
  BY DEF CooldownInv, OneInFlight, Harmless, Intact
<1>3. PastQuery'
  <2> SUFFICES ASSUME NEW b \in Actors, NEW q \in Projects, NEW r \in alerts',
                      pc'[b][q] \in InFlight, Intact(q, src[b][q])',
                      r.key = <<q, src'[b][q]>>, r.status = "sent"
               PROVE  r.at + Cooldown <= now'
    BY DEF PastQuery
  <2>1. pc[b][q] \in InFlight /\ Intact(q, src[b][q]) /\ src'[b][q] = src[b][q] /\ r \in alerts
    BY DEF Harmless, Intact
  <2>2. r.at + Cooldown <= now
    BY <2>1 DEF CooldownInv, PastQuery
  <2>. QED  BY <1>0, <2>1, <2>2 DEF Harmless
<1>4. Remembered'
  <2> SUFFICES ASSUME NEW p \in Projects, NEW s \in Sources, Intact(p, s)'
               PROVE  \/ Rested(<<p, s>>)'
                      \/ \E r \in alerts' :
                           r.key = <<p, s>> /\ r.status = "sent" /\ delivered'[<<p, s>>] <= r.at
                      \/ \E a \in Actors : pc'[a][p] = "sent" /\ src'[a][p] = s
    BY DEF Remembered
  <2>1. Intact(p, s) /\ <<p, s>> \notin tainted' /\ delivered'[<<p, s>>] = delivered[<<p, s>>]
    BY <1>0 DEF Intact, Harmless
  <2>2. CASE Rested(<<p, s>>)
    BY <1>0, <2>1, <2>2 DEF Rested, Harmless, Never
  <2>3. ASSUME NEW r \in alerts, r.key = <<p, s>>, r.status = "sent", delivered[<<p, s>>] <= r.at
        PROVE  Rested(<<p, s>>)' \/ r \in alerts'
    BY <1>0, <2>1, <2>3 DEF Rested, Harmless, Never
  <2>4. ASSUME NEW a \in Actors, pc[a][p] = "sent", src[a][p] = s
        PROVE  pc'[a][p] = "sent" /\ src'[a][p] = s
    BY <2>1, <2>4 DEF Harmless
  <2>5. \/ Rested(<<p, s>>)
        \/ \E r \in alerts : r.key = <<p, s>> /\ r.status = "sent" /\ delivered[<<p, s>>] <= r.at
        \/ \E a \in Actors : pc[a][p] = "sent" /\ src[a][p] = s
    BY <2>1 DEF CooldownInv, Remembered
  <2>6. CASE \E r \in alerts : r.key = <<p, s>> /\ r.status = "sent" /\ delivered[<<p, s>>] <= r.at
    BY <2>1, <2>3, <2>6
  <2>. QED  BY <2>2, <2>4, <2>5, <2>6
<1>5. RowsSpaced'
  BY DEF CooldownInv, RowsSpaced, Harmless, Intact
<1>6. SentIsDelivered'
  <2> SUFFICES ASSUME NEW b \in Actors, NEW q \in Projects, pc'[b][q] = "sent"
               PROVE  delivered'[<<q, src'[b][q]>>] # Never
    BY DEF SentIsDelivered
  <2>1. pc[b][q] = "sent" /\ src'[b][q] = src[b][q] /\ src[b][q] \in Sources
    BY DEF Harmless, DeliveryInv, InFlight
  <2>. QED  BY <1>0, <2>1 DEF CooldownInv, SentIsDelivered, Harmless, Never
<1>7. FailuresNeverMute'
  BY <1>0 DEF CooldownInv, FailuresNeverMute, Harmless, Never
<1>. QED  BY <1>1, <1>2, <1>3, <1>4, <1>5, <1>6, <1>7 DEF CooldownInv

\* Moving one project outside of the stages of a delivery is harmless, unless it
\* forgets an accepted webhook of an intact key.
LEMMA HarmlessMove ==
  ASSUME TypeOK, NEW a \in Actors, NEW p \in Projects,
         NEW v \in Stages, NEW s \in Sources \cup {"none"},
         pc' = [pc EXCEPT ![a][p] = v], src' = [src EXCEPT ![a][p] = s],
         UNCHANGED <<now, alerts>>, tainted \subseteq tainted',
         \A k \in Keys : delivered'[k] = delivered[k] \/ (k \in tainted' /\ delivered'[k] = now),
         v # "sent",
         v \in InFlight => \/ s = "usage" \/ <<p, s>> \in tainted'
                           \/ pc[a][p] \in InFlight /\ s = src[a][p],
         pc[a][p] = "sent" => <<p, src[a][p]>> \in tainted'
  PROVE  Harmless
<1>1. now \in Nat
  BY DEF TypeOK, StoreTypes
<1>2. \A b \in Actors, q \in Projects :
         /\ pc'[b][q] = IF b = a /\ q = p THEN v ELSE pc[b][q]
         /\ src'[b][q] = IF b = a /\ q = p THEN s ELSE src[b][q]
  BY Cell DEF TypeOK, RoundTypes
<1>3. ASSUME NEW b \in Actors, NEW q \in Projects
      PROVE  /\ (pc'[b][q] \in InFlight /\ Intact(q, src[b][q])')
                  => pc[b][q] \in InFlight /\ src'[b][q] = src[b][q]
             /\ pc'[b][q] = "sent" => pc[b][q] = "sent" /\ src'[b][q] = src[b][q]
             /\ (pc[b][q] = "sent" /\ <<q, src[b][q]>> \notin tainted')
                  => pc'[b][q] = "sent" /\ src'[b][q] = src[b][q]
  <2>1. CASE b = a /\ q = p
    BY <1>2, <2>1 DEF Intact
  <2>2. CASE ~(b = a /\ q = p)
    BY <1>2, <2>2
  <2>. QED  BY <2>1, <2>2
<1>. QED  BY <1>1, <1>3 DEF Harmless

\* The end of a round is harmless: an accepted webhook whose row is lost taints
\* its key.
LEMMA HarmlessLoss ==
  ASSUME TypeOK, DeliveryInv, NEW S, RoundsLost(S), UNCHANGED <<now, delivered>>,
         tainted \cup Unrecorded(S) \subseteq tainted',
         alerts' \subseteq alerts, \A r \in alerts \ alerts' : r.key \in tainted'
  PROVE  Harmless
<1>1. now \in Nat
  BY DEF TypeOK, StoreTypes
<1>2. ASSUME NEW b \in Actors, NEW q \in Projects, b \in S, pc[b][q] = "sent"
      PROVE  <<q, src[b][q]>> \in tainted'
  <2>1. <<q, src[b][q]>> \in Keys
    BY <1>2 DEF DeliveryInv, InFlight, Keys
  <2>. QED  BY <1>2, <2>1 DEF Unrecorded
<1>. QED  BY <1>1, <1>2, LostCells DEF Harmless, InFlight

\* A cooldown query that finds an intact key not cooling down has seen every sent
\* row younger than a cooldown: the row limit of LastSentAlert hides none.
LEMMA QuerySeesAll ==
  ASSUME TypeOK, CooldownInv, NEW p \in Projects, NEW s \in Sources, Intact(p, s),
         ~CoolingDown(p, s), NEW r \in alerts, r.key = <<p, s>>, r.status = "sent"
  PROVE  r.at + Cooldown <= now
<1> USE MonitorAssumption, StoreAssumption
<1>1. now \in Nat /\ Cooldown \in Nat /\ r.at \in Nat /\ r.at <= now
  BY DEF TypeOK, StoreTypes, CooldownInv, ClockInv
<1>2. QueryKey(p, s) = <<p, s>>
  BY DEF Intact, QueryKey
<1>3. SUFFICES ASSUME now < r.at + Cooldown
               PROVE  FALSE
  BY <1>1
<1>4. Cooldown > 0 /\ r.at >= now - Cooldown
  BY <1>1, <1>3
<1>5. CASE s \in ByDeliver
  <2> DEFINE window == IF Persistent THEN (Cooldown \div Day + 1) * Day ELSE Cooldown
             newer == {n \in alerts : n.key = <<p, s>> /\ n.at > r.at}
  <2>1. newer = {}
    <3> SUFFICES ASSUME NEW n \in alerts, n.key = <<p, s>>, n.at > r.at
                 PROVE  FALSE
      OBVIOUS
    <3>1. n.at \in Nat /\ n.at <= now
      BY DEF TypeOK, StoreTypes, CooldownInv, ClockInv
    <3>2. r.at + Cooldown <= n.at
      BY <1>1, <3>1 DEF CooldownInv, RowsSpaced
    <3>. QED  BY <1>1, <1>3, <3>1, <3>2
  <2>2. Cardinality(newer) < RowLimit
    <3>1. Cardinality({}) = 0
      BY FS_EmptySet
    <3>2. Cardinality(newer) = 0
      BY <2>1, <3>1
    <3>. QED  BY <3>2
  <2>3. r.at >= now - window
    <3>1. window \in Int /\ Cooldown <= window
      BY <1>1, WindowCovers
    <3>. QED  BY <1>1, <1>4, <3>1
  <2>4. r \in RecentAlerts(alerts, <<p, s>>, window, now)
    BY <2>2, <2>3 DEF RecentAlerts
  <2>5. r.at \in LastSentAlert(alerts, <<p, s>>, Cooldown, now)
    BY <1>1, <1>4, <2>4 DEF LastSentAlert
  <2>. QED  BY <1>2, <1>3, <1>5, <2>5 DEF CoolingDown
<1>6. CASE s \notin ByDeliver
  BY <1>2, <1>4, <1>6 DEF CoolingDown, HasRecentAlert
<1>. QED  BY <1>5, <1>6

\* A query that lets an alert of an intact key through finds the key at rest and
\* nobody else delivering it.
LEMMA LetThrough ==
  ASSUME TypeOK, TypeOK', CooldownInv, NEW a \in Actors, NEW p \in Projects, NEW s \in Sources,
         pc' = [pc EXCEPT ![a][p] = "send"], src' = [src EXCEPT ![a][p] = s],
         UNCHANGED <<now, alerts, delivered, tainted>>,
         Intact(p, s), ~CoolingDown(p, s), ~Overlapping(a, p, s), pc[a][p] # "sent"
  PROVE  CooldownInv'
<1>1. \A b \in Actors, q \in Projects :
         /\ pc'[b][q] = IF b = a /\ q = p THEN "send" ELSE pc[b][q]
         /\ src'[b][q] = IF b = a /\ q = p THEN s ELSE src[b][q]
  BY Cell DEF TypeOK, RoundTypes, Stages, Active
<1>2. ClockInv' /\ RowsSpaced' /\ FailuresNeverMute'
  BY DEF CooldownInv, ClockInv, RowsSpaced, FailuresNeverMute, Intact
<1>3. OneInFlight'
  <2> SUFFICES ASSUME NEW b \in Actors, NEW c \in Actors, NEW q \in Projects, b # c,
                      pc'[b][q] \in InFlight, pc'[c][q] \in InFlight, src'[b][q] = src'[c][q]
               PROVE  ~Intact(q, src[b][q])'
    BY DEF OneInFlight
  <2>1. CASE q = p /\ (b = a \/ c = a)
    BY <1>1, <2>1 DEF Overlapping, InFlight
  <2>2. CASE ~(q = p /\ (b = a \/ c = a))
    BY <1>1, <2>2 DEF CooldownInv, OneInFlight, Intact
  <2>. QED  BY <2>1, <2>2
<1>4. PastQuery'
  <2> SUFFICES ASSUME NEW b \in Actors, NEW q \in Projects, NEW r \in alerts,
                      pc'[b][q] \in InFlight, Intact(q, src[b][q])',
                      r.key = <<q, src'[b][q]>>, r.status = "sent"
               PROVE  r.at + Cooldown <= now
    BY DEF PastQuery
  <2>1. CASE b = a /\ q = p
    BY <1>1, <2>1, QuerySeesAll
  <2>2. CASE ~(b = a /\ q = p)
    BY <1>1, <2>2 DEF CooldownInv, PastQuery, Intact
  <2>. QED  BY <2>1, <2>2
<1>5. Remembered'
  <2> SUFFICES ASSUME NEW q \in Projects, NEW k \in Sources, Intact(q, k)
               PROVE  \/ Rested(<<q, k>>)
                      \/ \E r \in alerts :
                           r.key = <<q, k>> /\ r.status = "sent" /\ delivered[<<q, k>>] <= r.at
                      \/ \E b \in Actors : pc'[b][q] = "sent" /\ src'[b][q] = k
    BY DEF Remembered, Rested, Intact
  <2>1. ASSUME NEW b \in Actors, pc[b][q] = "sent"
        PROVE  pc'[b][q] = "sent" /\ src'[b][q] = src[b][q]
    BY <1>1, <2>1
  <2>2. \/ Rested(<<q, k>>)
        \/ \E r \in alerts : r.key = <<q, k>> /\ r.status = "sent" /\ delivered[<<q, k>>] <= r.at
        \/ \E b \in Actors : pc[b][q] = "sent" /\ src[b][q] = k
    BY DEF CooldownInv, Remembered
  <2>. QED  BY <2>1, <2>2
<1>6. SentIsDelivered'
  BY <1>1 DEF CooldownInv, SentIsDelivered
<1>. QED  BY <1>2, <1>3, <1>4, <1>5, <1>6 DEF CooldownInv

\* An accepted webhook.
LEMMA SendCooldown ==
  ASSUME TypeOK, TypeOK', DeliveryInv, CooldownInv, NEW a \in Actors, NEW p \in Projects, Send(a, p)
  PROVE  CooldownInv'
<1> DEFINE s == src[a][p]
<1>1. pc[a][p] = "send" /\ s \in Sources /\ <<p, s>> \in Keys /\ now \in Nat
  BY DEF Send, DeliveryInv, InFlight, Keys, TypeOK, StoreTypes
<1>2. \A b \in Actors, q \in Projects :
         /\ pc'[b][q] = IF b = a /\ q = p THEN "sent" ELSE pc[b][q]
         /\ src'[b][q] = src[b][q]
  BY Cell DEF Send, TypeOK, RoundTypes, Stages, Active
<1>3. \A k \in Keys : delivered'[k] = IF k = <<p, s>> THEN now ELSE delivered[k]
  BY <1>1 DEF Send, TypeOK, HistoryTypes
<1>4. UNCHANGED <<now, alerts, tainted>>
  BY DEF Send
<1>5. ClockInv'
  BY <1>1, <1>3, <1>4 DEF CooldownInv, ClockInv
<1>6. OneInFlight' /\ PastQuery' /\ RowsSpaced'
  BY <1>1, <1>2, <1>4 DEF CooldownInv, OneInFlight, PastQuery, RowsSpaced, Intact, InFlight
<1>7. Remembered'
  <2> SUFFICES ASSUME NEW q \in Projects, NEW k \in Sources, Intact(q, k)'
               PROVE  \/ Rested(<<q, k>>)'
                      \/ \E r \in alerts' :
                           r.key = <<q, k>> /\ r.status = "sent" /\ delivered'[<<q, k>>] <= r.at
                      \/ \E b \in Actors : pc'[b][q] = "sent" /\ src'[b][q] = k
    BY DEF Remembered
  <2>1. CASE q = p /\ k = s
    BY <1>2, <2>1
  <2>2. CASE <<q, k>> # <<p, s>>
    <3>1. delivered'[<<q, k>>] = delivered[<<q, k>>]
      BY <1>3, <2>2 DEF Keys
    <3>2. Intact(q, k)
      BY <1>4 DEF Intact
    <3>3. \A b \in Actors : pc[b][q] = "sent" => pc'[b][q] = "sent" /\ src'[b][q] = src[b][q]
      BY <1>1, <1>2
    <3>4. \/ Rested(<<q, k>>)
          \/ \E r \in alerts : r.key = <<q, k>> /\ r.status = "sent" /\ delivered[<<q, k>>] <= r.at
          \/ \E b \in Actors : pc[b][q] = "sent" /\ src[b][q] = k
      BY <3>2 DEF CooldownInv, Remembered
    <3>5. CASE Rested(<<q, k>>)
      BY <1>4, <3>1, <3>5 DEF Rested
    <3>6. CASE \E r \in alerts : r.key = <<q, k>> /\ r.status = "sent" /\ delivered[<<q, k>>] <= r.at
      BY <1>4, <3>1, <3>6
    <3>7. CASE \E b \in Actors : pc[b][q] = "sent" /\ src[b][q] = k
      BY <3>3, <3>7
    <3>. QED  BY <3>4, <3>5, <3>6, <3>7
  <2>. QED  BY <2>1, <2>2
<1>8. SentIsDelivered'
  <2> SUFFICES ASSUME NEW b \in Actors, NEW q \in Projects, pc'[b][q] = "sent"
               PROVE  delivered'[<<q, src'[b][q]>>] # Never
    BY DEF SentIsDelivered
  <2>1. src'[b][q] = src[b][q] /\ <<q, src[b][q]>> \in Keys
    BY <1>1, <1>2 DEF DeliveryInv, InFlight, Keys
  <2>. QED  BY <1>1, <1>2, <1>3, <2>1 DEF CooldownInv, SentIsDelivered, Never
<1>9. FailuresNeverMute'
  BY <1>1, <1>3, <1>4 DEF CooldownInv, FailuresNeverMute, Never, TypeOK, StoreTypes
<1>. QED  BY <1>5, <1>6, <1>7, <1>8, <1>9 DEF CooldownInv

\* The row of a delivery is saved: as long as its key is intact, that delivery was
\* the only one, and every earlier sent row is a cooldown old.
LEMMA RecordCooldown ==
  ASSUME TypeOK, TypeOK', DeliveryInv, CooldownInv,
         NEW a \in Actors, NEW p \in Projects, RecordAlert(a, p)
  PROVE  CooldownInv'
<1> USE MonitorAssumption, StoreAssumption
<1> DEFINE s == src[a][p]
           row == Row(<<p, s>>, pc[a][p], now)
<1>1. pc[a][p] \in {"sent", "failed"} /\ s \in Sources /\ <<p, s>> \in Keys
  BY RecordMove DEF Keys
<1>2. PICK v \in {"done", "spike"} :
        \A b \in Actors, q \in Projects :
          /\ pc'[b][q] = IF b = a /\ q = p THEN v ELSE pc[b][q]
          /\ src'[b][q] = IF b = a /\ q = p THEN "none" ELSE src[b][q]
  <2>1. PICK v \in {"done", "spike"} :
          pc' = [pc EXCEPT ![a][p] = v] /\ src' = [src EXCEPT ![a][p] = "none"]
    BY RecordMove
  <2>2. v \in Stages
    BY DEF Stages, Active
  <2>. QED  BY <2>1, <2>2, Cell DEF TypeOK, RoundTypes
<1>3. UNCHANGED <<now, delivered, tainted>>
  BY DEF RecordAlert
<1>4. /\ now \in Nat /\ Cooldown \in Nat
      /\ \A r \in alerts : r.at \in Nat /\ r.at <= now /\ r.key \in Keys
      /\ \A k \in Keys : delivered[k] \in Nat \cup {-1} /\ delivered[k] <= now
  BY DEF TypeOK, StoreTypes, HistoryTypes, Never, CooldownInv, ClockInv
<1>5. /\ alerts' \subseteq alerts \cup {row}
      /\ \A r \in alerts \ alerts' : r.at + Cooldown <= now \/ (r.key = <<p, s>> /\ row \in alerts')
      /\ pc[a][p] = "sent" => row \in alerts'
      /\ row.key = <<p, s>> /\ row.status = pc[a][p] /\ row.at = now
  <2>1. CASE Persistent
    BY <1>1, <2>1 DEF RecordAlert, RecordKey, SaveAlert, Row
  <2>2. CASE ~Persistent /\ pc[a][p] # "sent"
    BY <1>1, <2>2 DEF RecordAlert, RecordKey, SaveAlert, Row
  <2>3. CASE ~Persistent /\ pc[a][p] = "sent"
    <3>1. alerts' = {r \in alerts : r.key # <<p, s>> /\ now - r.at <= Retention} \cup {row}
      BY <1>1, <2>3 DEF RecordAlert, RecordKey, SaveAlert
    <3>2. \A r \in alerts : ~(now - r.at <= Retention) => r.at + Cooldown <= now
      BY <1>4, RetentionAssumption
    <3>. QED  BY <3>1, <3>2 DEF Row
  <2>. QED  BY <1>1, <2>1, <2>2, <2>3
<1>6. \A b \in Actors, q \in Projects :
         pc'[b][q] \in InFlight => /\ ~(b = a /\ q = p)
                                   /\ pc[b][q] = pc'[b][q] /\ src[b][q] = src'[b][q]
  BY <1>2 DEF InFlight
<1>7. \A q, k : Intact(q, k)' <=> Intact(q, k)
  BY <1>3 DEF Intact
<1>8. ClockInv'
  BY <1>3, <1>4, <1>5 DEF ClockInv
<1>9. OneInFlight'
  BY <1>6, <1>7 DEF CooldownInv, OneInFlight
<1>10. PastQuery'
  <2> SUFFICES ASSUME NEW b \in Actors, NEW q \in Projects, NEW r \in alerts',
                      pc'[b][q] \in InFlight, Intact(q, src[b][q])',
                      r.key = <<q, src'[b][q]>>, r.status = "sent"
               PROVE  r.at + Cooldown <= now'
    BY DEF PastQuery
  <2>1. /\ pc[b][q] \in InFlight /\ src'[b][q] = src[b][q] /\ Intact(q, src[b][q])
        /\ ~(b = a /\ q = p)
    BY <1>3, <1>6 DEF Intact
  <2>2. CASE r \in alerts
    BY <1>3, <2>1, <2>2 DEF CooldownInv, PastQuery
  <2>3. CASE r = row
    <3>1. q = p /\ src[b][q] = s /\ pc[a][p] = "sent"
      BY <1>5, <2>1, <2>3
    <3>. QED  BY <2>1, <3>1 DEF CooldownInv, OneInFlight, InFlight
  <2>. QED  BY <1>5, <2>2, <2>3
<1>11. Remembered'
  <2> SUFFICES ASSUME NEW q \in Projects, NEW k \in Sources, Intact(q, k)'
               PROVE  \/ Rested(<<q, k>>)'
                      \/ \E r \in alerts' :
                           r.key = <<q, k>> /\ r.status = "sent" /\ delivered'[<<q, k>>] <= r.at
                      \/ \E b \in Actors : pc'[b][q] = "sent" /\ src'[b][q] = k
    BY DEF Remembered
  <2>1. Rested(<<q, k>>)' <=> Rested(<<q, k>>)
    BY <1>3 DEF Rested
  <2>2. <<q, k>> \in Keys
    BY DEF Keys
  <2>3. \/ Rested(<<q, k>>)
        \/ \E r \in alerts : r.key = <<q, k>> /\ r.status = "sent" /\ delivered[<<q, k>>] <= r.at
        \/ \E b \in Actors : pc[b][q] = "sent" /\ src[b][q] = k
    BY <1>7 DEF CooldownInv, Remembered
  <2>4. ASSUME NEW r \in alerts, r.key = <<q, k>>, r.status = "sent", delivered[<<q, k>>] <= r.at
        PROVE  Rested(<<q, k>>) \/ r \in alerts' \/ (row \in alerts' /\ <<q, k>> = <<p, s>>)
    <3>1. r \in alerts' \/ r.at + Cooldown <= now \/ (row \in alerts' /\ <<q, k>> = <<p, s>>)
      BY <1>5, <2>4
    <3>2. r.at + Cooldown <= now => delivered[<<q, k>>] + Cooldown <= now
      BY <1>4, <2>2, <2>4
    <3>. QED  BY <3>1, <3>2 DEF Rested
  <2>5. CASE row \in alerts' /\ <<q, k>> = <<p, s>> /\ pc[a][p] = "sent"
    BY <1>3, <1>4, <1>5, <2>2, <2>5
  <2>6. CASE \E b \in Actors : pc[b][q] = "sent" /\ src[b][q] = k
    <3>1. PICK b \in Actors : pc[b][q] = "sent" /\ src[b][q] = k
      BY <2>6
    <3>2. CASE b = a /\ q = p
      BY <1>5, <2>5, <3>1, <3>2
    <3>3. CASE ~(b = a /\ q = p)
      BY <1>2, <3>1, <3>3
    <3>. QED  BY <3>2, <3>3
  <2>7. ASSUME NEW r \in alerts, r.key = <<q, k>>, r.status = "sent", delivered[<<q, k>>] <= r.at,
               pc[a][p] # "sent", r \notin alerts'
        PROVE  Rested(<<q, k>>)
    <3>1. alerts \subseteq alerts'
      BY <1>1, <2>7 DEF RecordAlert, SaveAlert
    <3>. QED  BY <2>7, <3>1
  <2>. QED  BY <1>3, <2>1, <2>3, <2>4, <2>5, <2>6, <2>7
<1>12. RowsSpaced'
  <2> SUFFICES ASSUME NEW q \in Projects, NEW k \in Sources, Intact(q, k),
                      NEW r1 \in alerts', NEW r2 \in alerts',
                      r1.key = <<q, k>>, r2.key = <<q, k>>, r1.status = "sent", r1.at < r2.at
               PROVE  r1.at + Cooldown <= r2.at
    BY <1>7 DEF RowsSpaced
  <2>1. CASE r1 \in alerts /\ r2 \in alerts
    BY <2>1 DEF CooldownInv, RowsSpaced
  <2>2. CASE r1 = row
    <3>1. r1.at = now /\ r2.at \in Nat /\ r2.at <= now
      BY <1>4, <1>5, <2>2
    <3>. QED  BY <1>4, <3>1
  <2>3. CASE r1 \in alerts /\ r2 = row
    <3>1. q = p /\ k = s
      BY <1>5, <2>3
    <3>. QED  BY <1>1, <1>5, <2>3, <3>1 DEF CooldownInv, PastQuery, InFlight
  <2>. QED  BY <1>5, <2>1, <2>2, <2>3
<1>13. SentIsDelivered'
  BY <1>3, <1>6 DEF CooldownInv, SentIsDelivered, InFlight
<1>14. FailuresNeverMute'
  BY <1>3, <1>5 DEF CooldownInv, FailuresNeverMute, SentIsDelivered
<1>. QED  BY <1>8, <1>9, <1>10, <1>11, <1>12, <1>13, <1>14 DEF CooldownInv

\* Every step keeps the cooldowns.
LEMMA CooldownStep ==
  ASSUME TypeOK, TypeOK', DeliveryInv, CooldownInv, [Next]_vars
  PROVE  CooldownInv'
<1>1. ASSUME NEW a \in Actors, NEW p \in Projects, CheckStep(a, p)
      PROVE  Harmless
  <2>1. PICK v \in {"fetch", "done", "spike", "query"}, s \in Sources \cup {"none"} :
          pc' = [pc EXCEPT ![a][p] = v] /\ src' = [src EXCEPT ![a][p] = s]
    BY <1>1, CheckStepMove
  <2>2. UNCHANGED <<now, alerts, delivered, tainted>> /\ pc[a][p] # "sent"
    BY <1>1, CheckStepMove
  <2>3. v \in Stages /\ v \notin InFlight /\ v # "sent"
    BY DEF Stages, Active, InFlight
  <2>. QED  BY <2>1, <2>2, <2>3, HarmlessMove
<1>2. ASSUME NEW a \in Actors, NEW p \in Projects, QueryCooldown(a, p) \/ QueryFails(a, p)
      PROVE  CooldownInv'
  <2>1. pc[a][p] = "query" /\ src[a][p] \in Sources /\ UNCHANGED <<now, alerts, delivered>>
    BY <1>2, QueryMove
  <2>2. PICK v \in {"done", "spike", "send"}, s \in Sources \cup {"none"} :
            /\ pc' = [pc EXCEPT ![a][p] = v]
            /\ src' = [src EXCEPT ![a][p] = s]
            /\ v = "send" => s = src[a][p]
    BY <1>2, QueryMove
  <2>3. tainted \subseteq tainted'
    BY <1>2 DEF QueryCooldown, QueryFails
  <2>4. v \in Stages /\ v # "sent" /\ (v \in InFlight => v = "send")
    BY DEF Stages, Active, InFlight
  <2>5. CASE v # "send" \/ s = "usage" \/ <<p, s>> \in tainted'
    <3>1. Harmless
      BY <2>1, <2>2, <2>3, <2>4, <2>5, HarmlessMove
    <3>. QED  BY <3>1, HarmlessStep
  <2>6. CASE v = "send" /\ s # "usage" /\ <<p, s>> \notin tainted'
    <3>1. s = src[a][p] /\ s \in Sources
      BY <2>1, <2>2, <2>6
    <3>2. QueryCooldown(a, p) /\ ~CoolingDown(p, s)
      <4>1. pc'[a][p] = "send"
        BY <2>2, <2>4, <2>6 DEF TypeOK, RoundTypes
      <4>2. ~QueryFails(a, p)
        BY <2>6, <3>1 DEF QueryFails
      <4>3. pc' # [pc EXCEPT ![a][p] = Finish(s)]
        <5>1. Finish(s) \in Stages /\ Finish(s) # "send"
          BY FinishStage DEF Stages, Active
        <5>2. [pc EXCEPT ![a][p] = Finish(s)][a][p] = Finish(s)
          BY <5>1, Cell DEF TypeOK, RoundTypes
        <5>. QED  BY <4>1, <5>1, <5>2
      <4>. QED  BY <1>2, <3>1, <4>2, <4>3 DEF QueryCooldown
    <3>3. ~Overlapping(a, p, s) /\ UNCHANGED tainted
      BY <2>6, <3>1, <3>2 DEF QueryCooldown
    <3>4. Intact(p, s)
      BY <2>6, <3>3 DEF Intact
    <3>. QED  BY <2>1, <2>2, <2>6, <3>1, <3>2, <3>3, <3>4, LetThrough
  <2>. QED  BY <2>5, <2>6
<1>3. ASSUME NEW a \in Actors, NEW p \in Projects, SendFails(a, p)
      PROVE  Harmless
  <2>1. pc[a][p] = "send" /\ src[a][p] \in Sources /\ UNCHANGED <<now, alerts>>
    BY <1>3, SendMove
  <2>2. PICK v \in {"sent", "failed", "done", "spike"}, s \in Sources \cup {"none"} :
            /\ pc' = [pc EXCEPT ![a][p] = v]
            /\ src' = [src EXCEPT ![a][p] = s]
            /\ v \in {"sent", "failed"} => s = src[a][p]
            /\ v # "sent"
    BY <1>3, SendMove
  <2>3. /\ tainted \subseteq tainted'
        /\ \A k \in Keys : delivered'[k] = delivered[k] \/ (k \in tainted' /\ delivered'[k] = now)
    <3>1. CASE UNCHANGED <<delivered, tainted>>
      BY <3>1
    <3>2. CASE /\ delivered' = [delivered EXCEPT ![<<p, src[a][p]>>] = now]
               /\ tainted' = tainted \cup {<<p, src[a][p]>>}
      BY <3>2 DEF TypeOK, HistoryTypes
    <3>. QED  BY <1>3, <3>1, <3>2 DEF SendFails
  <2>4. v \in Stages /\ (v \in InFlight => v = "failed") /\ pc[a][p] \in InFlight
    BY <2>1, <2>2 DEF Stages, Active, InFlight
  <2>. QED  BY <2>1, <2>2, <2>3, <2>4, HarmlessMove
<1>4. ASSUME NEW a \in Actors, NEW p \in Projects, RecordFails(a, p)
      PROVE  Harmless
  <2>1. UNCHANGED <<now, alerts, delivered>>
    BY <1>4 DEF RecordFails
  <2>2. PICK v \in {"done", "spike"} :
          pc' = [pc EXCEPT ![a][p] = v] /\ src' = [src EXCEPT ![a][p] = "none"]
    BY <1>4, RecordMove
  <2>3. tainted \subseteq tainted' /\ (pc[a][p] = "sent" => <<p, src[a][p]>> \in tainted')
    BY <1>4 DEF RecordFails
  <2>4. v \in Stages /\ v \notin InFlight /\ v # "sent"
    BY DEF Stages, Active, InFlight
  <2>. QED  BY <2>1, <2>2, <2>3, <2>4, HarmlessMove
<1>5. ASSUME NEW a \in Actors, Run(a) \/ Advance(a) \/ SkipPhase(a)
      PROVE  Harmless
  <2>1. UNCHANGED <<now, alerts, delivered, tainted, src>> /\ now \in Nat
    BY <1>5 DEF Run, Advance, SkipPhase, TypeOK, StoreTypes
  <2>2. ASSUME NEW b \in Actors, NEW q \in Projects
        PROVE  pc'[b][q] = pc[b][q] \/ (pc'[b][q] \notin InFlight /\ pc[b][q] # "sent")
    <3>1. CASE b = a
      <4>1. pc'[b][q] \in {"idle", "queued", "done"}
        BY <1>5, <3>1 DEF Run, Advance, SkipPhase, TypeOK, RoundTypes
      <4>2. pc[b][q] # "sent"
        BY <1>5, <3>1 DEF Run, Advance, SkipPhase, RoundDone, DeliveryInv
      <4>. QED  BY <4>1, <4>2 DEF InFlight
    <3>2. CASE b # a
      BY <1>5, <3>2 DEF Run, Advance, SkipPhase, TypeOK, RoundTypes
    <3>. QED  BY <3>1, <3>2
  <2>. QED  BY <2>1, <2>2 DEF Harmless, InFlight
<1>6. ASSUME ProcessLost, UNCHANGED <<now, delivered>>
      PROVE  Harmless
  <2>1. RoundsLost(Actors) /\ Unrecorded(Actors) \subseteq Keys
    BY <1>6 DEF ProcessLost, Unrecorded
  <2>2. tainted \cup Unrecorded(Actors) \subseteq tainted'
    BY <1>6, <2>1 DEF ProcessLost, TypeOK, HistoryTypes
  <2>3. alerts' \subseteq alerts /\ \A r \in alerts \ alerts' : r.key \in tainted'
    BY <1>6 DEF ProcessLost, TypeOK, StoreTypes
  <2>. QED  BY <1>6, <2>1, <2>2, <2>3, HarmlessLoss
<1>7. CASE Restart
  BY <1>6, <1>7, HarmlessStep DEF Restart
<1>8. ASSUME NEW a \in Actors, NEW p \in Projects, NilNotifier(a, p)
      PROVE  Harmless
  <2>1. CASE a = Scheduler
    BY <1>6, <1>8, <2>1 DEF NilNotifier
  <2>2. CASE a # Scheduler
    BY <1>8, <2>2, HarmlessLoss DEF NilNotifier
  <2>. QED  BY <2>1, <2>2
<1>9. CASE Tick \/ Upstream \/ UNCHANGED vars
  <2>1. Harmless
    <3>1. now \in Nat /\ now' \in Nat /\ now <= now'
      BY <1>9 DEF Tick, Upstream, vars, TypeOK, StoreTypes
    <3>. QED  BY <1>9, <3>1 DEF Tick, Upstream, vars, Harmless
  <2>. QED  BY <2>1, HarmlessStep
<1>10. CASE PruneHistory
  <2>1. /\ now \in Nat /\ Cooldown \in Nat /\ Retention \in Nat
        /\ \A r \in alerts : r.at \in Nat
    BY MonitorAssumption, StoreAssumption DEF TypeOK, StoreTypes
  <2>2. \A r \in alerts \ alerts' : r.at + Cooldown <= now
    BY <1>10, <2>1, RetentionAssumption DEF PruneHistory, PruneHistoryBefore
  <2>3. Harmless
    BY <1>10, <2>1, <2>2 DEF PruneHistory, PruneHistoryBefore, Harmless
  <2>. QED  BY <2>3, HarmlessStep
<1>. QED
  BY <1>1, <1>2, <1>3, <1>4, <1>5, <1>7, <1>8, <1>9, <1>10, HarmlessStep, SendCooldown, RecordCooldown
     DEF Next, Step, Fault, CheckStep

-------------------------------------------------------------------------------
(* Quiet pages                                                              *)

\* Nothing is in flight when the server starts.
LEMMA QuietInit == Init => QuietInv
<1> SUFFICES ASSUME Init  PROVE QuietInv
  OBVIOUS
<1>1. \A a \in Pages : ~EnableWebAlarm => dry[a]
  BY DEF Init, Actors
<1>2. /\ \A a \in Actors : phase[a] \in {"budget", "usage", "trend"} => Persistent
      /\ \A a \in Actors, p \in Projects : src[a][p] \in Unguarded => Persistent
      /\ tainted = {}
  BY DEF Init, Unguarded
<1>. QED  BY <1>1, <1>2 DEF QuietInv

\* The dry-run flag and the phase of a round change when it begins, moves on or
\* is lost, and only then.
LEMMA RoundFrame ==
  ASSUME TypeOK, DeliveryInv, [Next]_vars
  PROVE  /\ (\E a \in Actors : Run(a)) \/ UNCHANGED dry
         /\ \/ \E a \in Actors : Run(a) \/ Advance(a)
            \/ \E S : RoundsLost(S)
            \/ UNCHANGED phase
<1>1. ASSUME NEW a \in Actors, NEW p \in Projects,
             \/ CheckStep(a, p) \/ QueryCooldown(a, p) \/ QueryFails(a, p)
             \/ Send(a, p) \/ SendFails(a, p) \/ RecordAlert(a, p) \/ RecordFails(a, p)
      PROVE  UNCHANGED <<phase, dry>>
  BY <1>1, CheckStepMove, QueryMove, SendMove, RecordMove
<1>2. ASSUME NEW a \in Actors, Advance(a) \/ SkipPhase(a)
      PROVE  UNCHANGED dry /\ (Advance(a) \/ UNCHANGED phase)
  BY <1>2 DEF Advance, SkipPhase
<1>3. ASSUME NEW a \in Actors, NEW p \in Projects, NilNotifier(a, p)
      PROVE  UNCHANGED dry /\ \E S : RoundsLost(S)
  BY <1>3 DEF NilNotifier, ProcessLost
<1>4. ASSUME Restart
      PROVE  UNCHANGED dry /\ \E S : RoundsLost(S)
  BY <1>4 DEF Restart, ProcessLost
<1>5. ASSUME Tick \/ Upstream \/ PruneHistory \/ UNCHANGED vars
      PROVE  UNCHANGED <<phase, dry>>
  BY <1>5 DEF Tick, Upstream, PruneHistory, vars
<1>. QED  BY <1>1, <1>2, <1>3, <1>4, <1>5 DEF Next, Step, Fault, CheckStep

\* Every step keeps QuietInv: without web alarms the rounds that deliver are the
\* scheduler's alone.
LEMMA QuietStep ==
  ASSUME TypeOK, DeliveryInv, QuietInv, [Next]_vars
  PROVE  QuietInv'
<1> USE MonitorAssumption, StoreAssumption
<1>1. \A a \in Pages : ~EnableWebAlarm => dry'[a]
  <2>1. CASE \E a \in Actors : Run(a)
    <3>1. PICK a \in Actors : Run(a)
      BY <2>1
    <3>2. PICK d \in DryRuns(a) : dry' = [dry EXCEPT ![a] = d]
      BY <3>1 DEF Run
    <3> SUFFICES ASSUME NEW b \in Pages, ~EnableWebAlarm
                 PROVE  dry'[b]
      OBVIOUS
    <3>3. CASE b = a
      BY <3>2, <3>3 DEF DryRuns, TypeOK, FlagTypes, Actors
    <3>4. CASE b # a
      BY <3>2, <3>4 DEF TypeOK, FlagTypes, QuietInv, Actors
    <3>. QED  BY <3>3, <3>4
  <2>2. CASE UNCHANGED dry
    BY <2>2 DEF QuietInv
  <2>. QED  BY <2>1, <2>2, RoundFrame
<1>2. \A a \in Actors : phase'[a] \in {"budget", "usage", "trend"} => Persistent
  <2>1. ASSUME NEW a \in Actors, Run(a) \/ Advance(a)
        PROVE  \A b \in Actors : phase'[b] \in {"budget", "usage", "trend"} => Persistent
    <3>1. CASE Run(a)
      BY <3>1 DEF Run, TypeOK, RoundTypes, QuietInv
    <3>2. CASE Advance(a)
      <4>1. NextPhase(phase[a]) \in {"budget", "usage", "trend"} => Persistent
        BY DEF NextPhase, AfterBudgets, QuietInv, TypeOK, RoundTypes, Phases
      <4>. QED  BY <3>2, <4>1 DEF Advance, TypeOK, RoundTypes, QuietInv
    <3>. QED  BY <2>1, <3>1, <3>2
  <2>2. ASSUME NEW S, RoundsLost(S)
        PROVE  \A b \in Actors : phase'[b] \in {"budget", "usage", "trend"} => Persistent
    BY <2>2 DEF RoundsLost, QuietInv
  <2>3. CASE UNCHANGED phase
    BY <2>3 DEF QuietInv
  <2>. QED  BY <2>1, <2>2, <2>3, RoundFrame
<1>3. \A a \in Actors, p \in Projects : src'[a][p] \in Unguarded => Persistent
  <2>1. ASSUME NEW a \in Actors, NEW p \in Projects, NEW v \in Sources \cup {"none"},
               src' = [src EXCEPT ![a][p] = v],
               v \in Unguarded => v = src[a][p] \/ phase[a] \in {"budget", "usage"}
        PROVE  \A b \in Actors, q \in Projects : src'[b][q] \in Unguarded => Persistent
    <3> SUFFICES ASSUME NEW b \in Actors, NEW q \in Projects, src'[b][q] \in Unguarded
                 PROVE  Persistent
      OBVIOUS
    <3>1. src'[b][q] = IF b = a /\ q = p THEN v ELSE src[b][q]
      BY <2>1, Cell DEF TypeOK, RoundTypes
    <3>. QED  BY <2>1, <3>1 DEF QuietInv
  <2>2. ASSUME NEW a \in Actors, NEW p \in Projects,
               CheckStep(a, p) \/ QueryCooldown(a, p) \/ QueryFails(a, p)
        PROVE  \A b \in Actors, q \in Projects : src'[b][q] \in Unguarded => Persistent
    <3>1. CASE CheckStep(a, p)
      BY <2>1, <3>1, CheckStepMove
    <3>2. CASE QueryCooldown(a, p) \/ QueryFails(a, p)
      <4>1. PICK s \in Sources \cup {"none"} : src' = [src EXCEPT ![a][p] = s] /\ s \in {src[a][p], "none"}
        <5>1. CASE CoolingDown(p, src[a][p]) /\ QueryCooldown(a, p)
          BY <5>1 DEF QueryCooldown
        <5>2. CASE Proceed(a, p, src[a][p])
          <6>1. src[a][p] \in Sources
            BY <3>2, QueryMove
          <6>. QED  BY <5>2, <6>1 DEF Proceed
        <5>. QED  BY <3>2, <5>1, <5>2 DEF QueryCooldown, QueryFails
      <4>. QED  BY <2>1, <4>1 DEF Unguarded
    <3>. QED  BY <2>2, <3>1, <3>2
  <2>3. ASSUME NEW a \in Actors, NEW p \in Projects,
               Send(a, p) \/ SendFails(a, p) \/ RecordAlert(a, p) \/ RecordFails(a, p)
        PROVE  \A b \in Actors, q \in Projects : src'[b][q] \in Unguarded => Persistent
    <3>1. CASE UNCHANGED src
      BY <3>1 DEF QuietInv
    <3>2. CASE src' = [src EXCEPT ![a][p] = "none"]
      BY <2>1, <3>2 DEF Unguarded
    <3>. QED  BY <2>3, <3>1, <3>2 DEF Send, SendFails, RecordAlert, RecordFails
  <2>4. ASSUME NEW S, RoundsLost(S)
        PROVE  \A b \in Actors, q \in Projects : src'[b][q] \in Unguarded => Persistent
    BY <2>4, LostCells DEF QuietInv, Unguarded
  <2>5. CASE Restart \/ \E a \in Actors, p \in Projects : NilNotifier(a, p)
    BY <2>4, <2>5 DEF Restart, NilNotifier, ProcessLost
  <2>6. CASE \/ \E a \in Actors : Run(a) \/ Advance(a) \/ SkipPhase(a)
             \/ Tick \/ Upstream \/ PruneHistory \/ UNCHANGED vars
    <3>1. UNCHANGED src
      BY <2>6 DEF Run, Advance, SkipPhase, Tick, Upstream, PruneHistory, vars
    <3>. QED  BY <3>1 DEF QuietInv
  <2>. QED  BY <2>2, <2>3, <2>5, <2>6 DEF Next, Step, Fault, CheckStep
<1>4. (~EnableWebAlarm /\ faults' = 0) => tainted' = {}
  <2> SUFFICES ASSUME ~EnableWebAlarm, faults' = 0
               PROVE  tainted' = {}
    OBVIOUS
  <2>1. ASSUME tainted' = tainted, faults' = faults
        PROVE  tainted' = {}
    BY <2>1 DEF QuietInv
  <2>2. ASSUME faults' = faults + 1
        PROVE  FALSE
    BY <2>2 DEF TypeOK, HistoryTypes
  <2>3. ASSUME NEW a \in Actors, NEW p \in Projects, QueryCooldown(a, p)
        PROVE  tainted' = {}
    <3>1. ~Overlapping(a, p, src[a][p])
      <4> SUFFICES ASSUME NEW b \in Actors, b # a, pc[b][p] \in InFlight
                   PROVE  FALSE
        BY DEF Overlapping, InFlight
      <4>1. ~dry[a] /\ ~dry[b]
        BY <2>3 DEF QueryCooldown, DeliveryInv
      <4>. QED  BY <4>1 DEF QuietInv, Actors
    <3>2. tainted' = tainted /\ faults' = faults
      BY <2>3, <3>1 DEF QueryCooldown
    <3>. QED  BY <2>1, <3>2
  <2>4. ASSUME NEW a \in Actors, NEW p \in Projects, NilNotifier(a, p)
        PROVE  tainted' = {}
    <3>1. Persistent /\ ~webhook
      BY <2>4 DEF NilNotifier, QuietInv
    <3>2. \A S \in SUBSET Actors : Unrecorded(S) = {}
      BY <3>1 DEF Unrecorded, DeliveryInv, InFlight, Keys
    <3>3. tainted' = tainted \cup Unrecorded(Actors) \/ tainted' = tainted \cup Unrecorded({a})
      BY <2>4, <3>1 DEF NilNotifier, ProcessLost
    <3>4. faults' = faults
      BY <2>2, <2>4 DEF NilNotifier
    <3>. QED  BY <2>1, <3>2, <3>3, <3>4
  <2>5. ASSUME NEW a \in Actors, NEW p \in Projects,
               \/ CheckProject(a, p) \/ Fetch(a, p) \/ Send(a, p) \/ RecordAlert(a, p)
               \/ BudgetCheck(a, p) \/ CheckUsage(a, p) \/ RunwayCheck(a, p) \/ SpikeCheck(a, p)
        PROVE  tainted' = tainted /\ faults' = faults
    BY <2>5 DEF CheckProject, Fetch, Send, RecordAlert, BudgetCheck, CheckUsage, RunwayCheck,
                SpikeCheck, Raise
  <2>6. ASSUME \E a \in Actors : Run(a) \/ Advance(a)
        PROVE  tainted' = tainted /\ faults' = faults
    BY <2>6 DEF Run, Advance
  <2>7. ASSUME Tick \/ Upstream \/ PruneHistory \/ UNCHANGED vars
        PROVE  tainted' = tainted /\ faults' = faults
    BY <2>7 DEF Tick, Upstream, PruneHistory, vars
  <2>8. ASSUME Restart \/ \E a \in Actors : Fault(a)
        PROVE  FALSE
    BY <2>2, <2>8 DEF Restart, Fault, SkipPhase, NoAdapter, QueryFails, SendFails, RecordFails,
                     CheckUsageBlind
  <2>. QED  BY <2>1, <2>3, <2>4, <2>5, <2>6, <2>7, <2>8 DEF Next, Step
<1>. QED  BY <1>1, <1>2, <1>3, <1>4 DEF QuietInv

-------------------------------------------------------------------------------
(* The theorems                                                             *)

\* The inductive invariant holds at startup.
LEMMA CooldownInit == Init => CooldownInv
<1> SUFFICES ASSUME Init  PROVE CooldownInv
  OBVIOUS
<1>1. ClockInv
  BY DEF Init, ClockInv, Never
<1>2. OneInFlight /\ PastQuery /\ SentIsDelivered
  BY DEF Init, OneInFlight, PastQuery, SentIsDelivered, InFlight
<1>3. Remembered /\ RowsSpaced /\ FailuresNeverMute
  BY DEF Init, Remembered, RowsSpaced, FailuresNeverMute, Rested, Keys
<1>. QED  BY <1>1, <1>2, <1>3 DEF CooldownInv

\* The inductive invariant holds in every reachable state, for any number of
\* projects and pages, any cooldown no longer than the retention and any number of
\* failures.
THEOREM Invariance == Spec => []IInv
<1>1. Init => IInv
  BY TypeInit, DeliveryInit, CooldownInit, QuietInit DEF IInv
<1>2. IInv /\ [Next]_vars => IInv'
  BY TypeStep, DeliveryStep, CooldownStep, QuietStep DEF IInv
<1>. QED  BY <1>1, <1>2, PTL DEF Spec

\* Every variable keeps its type.
THEOREM TypeCorrect == Spec => []TypeOK
<1>1. IInv => TypeOK
  BY DEF IInv
<1>. QED  BY <1>1, Invariance, PTL

\* What is about to be posted under an intact key rests on the last accepted
\* webhook being a cooldown ago: its row, if it is younger, would have stopped the
\* cooldown query, and the delivery that has yet to save it would be a second one.
LEMMA IntactKeyRested ==
  ASSUME IInv, NEW a \in Actors, NEW p \in Projects, pc[a][p] = "send", Intact(p, src[a][p])
  PROVE  Rested(<<p, src[a][p]>>)
<1> DEFINE s == src[a][p]
<1>1. s \in Sources /\ <<p, s>> \in Keys
  BY DEF IInv, DeliveryInv, InFlight, Keys
<1>2. ASSUME NEW r \in alerts, r.key = <<p, s>>, r.status = "sent", delivered[<<p, s>>] <= r.at
      PROVE  Rested(<<p, s>>)
  <2>1. r.at + Cooldown <= now
    BY <1>2 DEF IInv, CooldownInv, PastQuery, InFlight
  <2>2. /\ r.at \in Nat /\ now \in Nat /\ Cooldown \in Nat
        /\ delivered[<<p, s>>] \in Nat \cup {-1}
    BY <1>1, MonitorAssumption DEF IInv, TypeOK, StoreTypes, HistoryTypes, Never
  <2>. QED  BY <1>2, <2>1, <2>2 DEF Rested
<1>3. ASSUME NEW b \in Actors, pc[b][p] = "sent", src[b][p] = s
      PROVE  FALSE
  BY <1>3 DEF IInv, CooldownInv, OneInFlight, InFlight
<1>. QED  BY <1>1, <1>2, <1>3 DEF IInv, CooldownInv, Remembered

\* Once per project, kind and cooldown: a check never posts an alert within a
\* cooldown of the last accepted one, unless an overlapping round, a failed query,
\* a lost row or a restart without a database has defeated that key's cooldown.
THEOREM CooldownKept == Spec => []NoRepeatWithinCooldown
<1>1. IInv => NoRepeatWithinCooldown
  BY IntactKeyRested DEF NoRepeatWithinCooldown, Intact
<1>. QED  BY <1>1, Invariance, PTL

\* With web alarms off, the promise of docs/overview.md holds until something
\* fails: the pages' rounds are dry, so nothing overlaps the scheduler's.
THEOREM QuietPages == Spec => []QuietPagesKeepCooldown
<1>1. IInv => QuietPagesKeepCooldown
  BY IntactKeyRested
     DEF QuietPagesKeepCooldown, OncePerCooldown, Intact, ByDeliver, IInv, QuietInv
<1>. QED  BY <1>1, Invariance, PTL

\* A failed webhook call never starts a cooldown, in either store.
THEOREM FailuresDoNotMute == Spec => []FailuresNeverMute
<1>1. IInv => FailuresNeverMute
  BY DEF IInv, CooldownInv
<1>. QED  BY <1>1, Invariance, PTL

===============================================================================

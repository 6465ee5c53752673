---------------------------- MODULE DashboardProofs ----------------------------
(***************************************************************************)
(* Proofs about Dashboard, for every set of projects, pages and            *)
(* thresholds, every table at start and every bound.                       *)
(***************************************************************************)
EXTENDS Dashboard, FiniteSetTheorems, TLAPS

-------------------------------------------------------------------------------
(* Maps from project names                                                  *)

\* What it is to be a map from some of the names.
LEMMA MapsFacts ==
  ASSUME NEW S, NEW f
  PROVE  f \in Maps(S) <=> /\ DOMAIN f \subseteq Names
                           /\ f = [n \in DOMAIN f |-> f[n]]
                           /\ \A n \in DOMAIN f : f[n] \in S
BY DEF Maps

\* A function on some of the names is a map.
LEMMA MapOn ==
  ASSUME NEW S, NEW D \in SUBSET Names, NEW f \in [D -> S]
  PROVE  f \in Maps(S)
BY DEF Maps

\* One map laid over another is a map.
LEMMA Laid ==
  ASSUME NEW S, NEW f \in Maps(S), NEW g \in Maps(S)
  PROVE  Over(f, g) \in Maps(S)
<1> DEFINE D == DOMAIN f \cup DOMAIN g
<1>1. D \in SUBSET Names
  BY MapsFacts
<1>2. ASSUME NEW n \in D
      PROVE  (IF n \in DOMAIN f THEN f[n] ELSE g[n]) \in S
  BY MapsFacts
<1>3. Over(f, g) \in [D -> S]
  BY <1>2 DEF Over
<1>. QED  BY <1>1, <1>3, MapOn

\* A map with one entry.
LEMMA Single ==
  ASSUME NEW S, NEW n \in Names, NEW v \in S
  PROVE  Entry(n, v) \in Maps(S)
<1>1. Entry(n, v) \in [{n} -> S]
  BY DEF Entry
<1>. QED  BY <1>1, MapOn

\* A map without one of its names is a map.
LEMMA Dropped ==
  ASSUME NEW S, NEW f \in Maps(S), NEW n
  PROVE  [m \in DOMAIN f \ {n} |-> f[m]] \in Maps(S)
<1>1. DOMAIN f \ {n} \in SUBSET Names
  BY MapsFacts
<1>2. [m \in DOMAIN f \ {n} |-> f[m]] \in [DOMAIN f \ {n} -> S]
  BY MapsFacts
<1>. QED  BY <1>1, <1>2, MapOn

\* The empty map.
LEMMA NothingMap == \A S : Nothing \in Maps(S)
BY DEF Nothing, Maps

\* A map of no names is the empty one.
LEMMA EmptyMap ==
  ASSUME NEW S, NEW f \in Maps(S), DOMAIN f = {}
  PROVE  f = Nothing
<1>1. f \in [{} -> S]
  BY DEF Maps
<1>2. Nothing \in [{} -> S]
  BY DEF Nothing
<1>3. \A n \in {} : f[n] = Nothing[n]
  OBVIOUS
<1>. QED  BY <1>1, <1>2, <1>3

\* The configuration is a map, whether it comes from the database or from the
\* environment alone.
LEMMA ConfigMap ==
  ASSUME NEW t \in Maps(Projects)
  PROVE  Config(t) \in Maps(Projects)
<1> DEFINE declared == {ProviderOf[n] : n \in DOMAIN t}
           found == {n \in Env : ProviderOf[n] \notin declared}
<1>1. Discovered \in Projects
  BY DashboardAssumption DEF Discovered, Projects
<1>2. [n \in found |-> Discovered] \in Maps(Projects)
  <2>1. found \in SUBSET Names
    BY DashboardAssumption
  <2>2. [n \in found |-> Discovered] \in [found -> Projects]
    BY <1>1
  <2>. QED  BY <2>1, <2>2, MapOn
<1>3. Config(t) = Over(t, [n \in found |-> Discovered])
  BY DEF Config
<1>. QED  BY <1>2, <1>3, Laid

-------------------------------------------------------------------------------
(* The invariant                                                            *)

\* What a request at a stage is.
StageInv ==
  \A a \in Actors :
    /\ pc[a] = "idle" => req[a].op = "none"
    /\ pc[a] = "upsert" => req[a].op = "save" /\ req[a].name \in Names
    /\ pc[a] = "drop" => req[a].op = "delete"

\* The guard is taken exactly while a manual refresh is under way, there is only
\* one, and a guard that rests is free.
GuardInv ==
  /\ \A a, b \in Actors : req[a].op = "refresh" /\ req[b].op = "refresh" => a = b
  /\ busy <=> \E a \in Actors : req[a].op = "refresh"
  /\ rest > 0 => ~busy
  /\ req[Scheduler].op # "refresh"

Inv == TypeOK /\ StageInv /\ GuardInv /\ NeverFresherThanRead

-------------------------------------------------------------------------------
(* Types                                                                    *)

\* What the assumptions on the constants give.
LEMMA Bounds ==
  /\ StaleLimit \in Nat \ {0} /\ GuardTicks \in Nat \ {0}
  /\ MaxEdits \in Nat /\ MaxFaults \in Nat
  /\ Scheduler \in Actors /\ Pages \subseteq Actors
BY DashboardAssumption DEF Actors

\* Every configuration that can be loaded maps known names to projects.
LEMMA ConfigsTyped ==
  ASSUME db \in Maps(Projects), NEW cfg \in Configs
  PROVE  /\ cfg \in Maps(Projects)
         /\ DOMAIN cfg \subseteq Names
         /\ \A n \in DOMAIN cfg : cfg[n] \in Projects
         /\ EnabledProjects(cfg) \subseteq DOMAIN cfg
<1>1. cfg \in Maps(Projects)
  BY ConfigMap, NothingMap DEF Configs
<1>. QED  BY <1>1, MapsFacts DEF EnabledProjects

\* A request that begins leaves the types of stages and requests.
LEMMA BeginType ==
  ASSUME TypeOK, NEW a \in Actors, NEW r \in Requests, NEW at \in Stages, Begin(a, r, at)
  PROVE  pc' \in [Actors -> Stages] /\ req' \in [Actors -> Requests] /\ edits' \in 0 .. MaxEdits
BY Bounds DEF Begin, TypeOK

\* A request that ends leaves the types of everything it clears.
LEMMA EndType ==
  ASSUME TypeOK, NEW a \in Actors, End(a)
  PROVE  /\ pc' \in [Actors -> Stages] /\ req' \in [Actors -> Requests]
         /\ snap' \in [Actors -> Maps(Projects)] /\ results' \in [Actors -> Maps(Cards)]
         /\ draft' \in [Actors -> Projects] /\ out' \in [Actors -> SUBSET Names]
<1>1. pc' \in [Actors -> Stages]
  BY DEF End, TypeOK, Stages
<1>2. req' \in [Actors -> Requests]
  BY DEF End, TypeOK, Requests
<1>3. snap' \in [Actors -> Maps(Projects)] /\ results' \in [Actors -> Maps(Cards)]
  BY NothingMap DEF End, TypeOK
<1>4. Discovered \in Projects
  BY DashboardAssumption DEF Discovered, Projects
<1>5. draft' \in [Actors -> Projects] /\ out' \in [Actors -> SUBSET Names]
  BY <1>4 DEF End, TypeOK
<1>. QED  BY <1>1, <1>2, <1>3, <1>5

\* Releasing the refresh guard leaves its types.
LEMMA ReleaseType ==
  ASSUME TypeOK, NEW a \in Actors, release(a)
  PROVE  busy' \in BOOLEAN /\ rest' \in 0 .. GuardTicks
<1>1. busy \in BOOLEAN /\ rest \in 0 .. GuardTicks /\ GuardTicks \in 0 .. GuardTicks
  BY Bounds DEF TypeOK
<1>2. CASE req[a].op = "refresh"
  BY <1>1, <1>2 DEF release
<1>3. CASE req[a].op # "refresh"
  BY <1>1, <1>3 DEF release, guard
<1>. QED  BY <1>2, <1>3

\* A named or a full round leaves a map of cards.
LEMMA CardsType ==
  ASSUME TypeOK, NEW rs \in Maps(Cards), SetBalance(rs) \/ MergeBalance(rs)
  PROVE  shown' \in Maps(Cards) /\ checked' = TRUE /\ age' \in Ages
<1>1. Over(rs, shown) \in Maps(Cards)
  BY Laid DEF TypeOK
<1>. QED  BY <1>1 DEF SetBalance, MergeBalance, setBalanceLocked, TypeOK, Ages

\* Loading the configuration leaves the count of faults within its bound.
LEMMA LoadType ==
  ASSUME TypeOK, NEW cfg, Load(cfg)
  PROVE  faults' \in 0 .. MaxFaults
BY Bounds DEF Load, TypeOK

\* Every variable has its type at startup.
LEMMA TypeInit == Init => TypeOK
<1> SUFFICES ASSUME Init  PROVE TypeOK
  OBVIOUS
<1>1. Discovered \in Projects
  BY DashboardAssumption DEF Discovered, Projects
<1>2. req \in [Actors -> Requests] /\ pc \in [Actors -> Stages]
  BY DEF Init, Requests, Stages
<1>3. /\ snap \in [Actors -> Maps(Projects)] /\ results \in [Actors -> Maps(Cards)]
      /\ draft \in [Actors -> Projects] /\ out \in [Actors -> SUBSET Names]
      /\ db \in Maps(Projects) /\ shown \in Maps(Cards)
  BY <1>1, NothingMap, TableAssumption DEF Init
<1>4. age \in Ages /\ readAge \in Ages /\ rest \in 0 .. GuardTicks
      /\ edits \in 0 .. MaxEdits /\ faults \in 0 .. MaxFaults
  BY Bounds DEF Init, Ages
<1>. QED  BY <1>2, <1>3, <1>4 DEF Init, TypeOK

\* Every step keeps the types.  StageInv is needed for the name a save writes.
LEMMA TypeStep ==
  ASSUME TypeOK, StageInv, [Next]_vars
  PROVE  TypeOK'
<1> USE Bounds
<1>1. CASE StartJob
  <2>1. [op |-> "job", name |-> "all"] \in Requests /\ "run" \in Stages
    BY DEF Requests, Stages
  <2>. QED  BY <1>1, <2>1, BeginType DEF StartJob, TypeOK, dashboard, guard, history
<1>2. CASE RecordJobRun
  BY <1>2, EndType DEF RecordJobRun, TypeOK, guard, world, history
<1>3. ASSUME NEW a \in Actors, UpsertProject(a)
      PROVE  TypeOK'
  <2>1. req[a].name \in Names /\ draft[a] \in Projects
    BY <1>3 DEF UpsertProject, StageInv, TypeOK
  <2>2. db' \in Maps(Projects)
    BY <1>3, <2>1, Single, Laid DEF UpsertProject, TypeOK
  <2>3. Discovered \in Projects
    BY DashboardAssumption DEF Discovered, Projects
  <2>4. draft' \in [Actors -> Projects] /\ pc' \in [Actors -> Stages]
    BY <1>3, <2>3 DEF UpsertProject, TypeOK, Stages
  <2>. QED  BY <1>3, <2>2, <2>4 DEF UpsertProject, TypeOK, dashboard, guard, world, history
<1>4. ASSUME NEW a \in Actors, DropProject(a)
      PROVE  TypeOK'
  <2>1. db' \in Maps(Projects)
    BY <1>4, Dropped DEF DropProject, TypeOK
  <2>2. pc' \in [Actors -> Stages]
    BY <1>4 DEF DropProject, TypeOK, Stages
  <2>. QED  BY <1>4, <2>1, <2>2 DEF DropProject, TypeOK, dashboard, guard, world, history
<1>5. ASSUME NEW a \in Actors, RemoveCard(a)
      PROVE  TypeOK'
  <2>1. shown' \in Maps(Cards) /\ age' = age /\ checked' = checked
    BY <1>5, Dropped DEF RemoveCard, RemoveBalanceProject, setBalanceLocked, TypeOK
  <2>2. pc' \in [Actors -> Stages]
    BY <1>5 DEF RemoveCard, TypeOK, Stages
  <2>. QED  BY <1>5, <2>1, <2>2 DEF RemoveCard, TypeOK, guard, world, history
<1>6. ASSUME NEW a \in Actors, SelectProjects(a)
      PROVE  TypeOK'
  <2> DEFINE n == req[a].name
  <2>1. PICK cfg \in Configs :
          /\ Load(cfg)
          /\ \/ /\ snap' = [snap EXCEPT ![a] = [m \in EnabledProjects(cfg) |-> cfg[m]]]
                /\ pc' = [pc EXCEPT ![a] = "check"]
                /\ UNCHANGED <<guard, req, results, draft, out>>
             \/ /\ n \in EnabledProjects(cfg)
                /\ snap' = [snap EXCEPT ![a] = Entry(n, cfg[n])]
                /\ pc' = [pc EXCEPT ![a] = "check"]
                /\ UNCHANGED <<guard, req, results, draft, out>>
             \/ /\ pc' = [pc EXCEPT ![a] = "remove"]
                /\ UNCHANGED <<guard, req, snap, results, draft, out>>
             \/ release(a) /\ End(a)
    BY <1>6 DEF SelectProjects
  <2>2. /\ cfg \in Maps(Projects) /\ DOMAIN cfg \subseteq Names
        /\ \A m \in DOMAIN cfg : cfg[m] \in Projects
        /\ EnabledProjects(cfg) \subseteq DOMAIN cfg
    BY ConfigsTyped DEF TypeOK
  <2>3. [m \in EnabledProjects(cfg) |-> cfg[m]] \in Maps(Projects)
    <3>1. [m \in EnabledProjects(cfg) |-> cfg[m]] \in [EnabledProjects(cfg) -> Projects]
      BY <2>2
    <3>. QED  BY <3>1, <2>2, MapOn
  <2>4. n \in EnabledProjects(cfg) => Entry(n, cfg[n]) \in Maps(Projects)
    BY <2>2, Single
  <2>5. pc' \in [Actors -> Stages] /\ req' \in [Actors -> Requests]
        /\ snap' \in [Actors -> Maps(Projects)] /\ results' \in [Actors -> Maps(Cards)]
        /\ draft' \in [Actors -> Projects] /\ out' \in [Actors -> SUBSET Names]
    <3>1. CASE release(a) /\ End(a)
      BY <3>1, EndType
    <3>2. CASE /\ \/ snap' = [snap EXCEPT ![a] = [m \in EnabledProjects(cfg) |-> cfg[m]]]
                  \/ n \in EnabledProjects(cfg) /\ snap' = [snap EXCEPT ![a] = Entry(n, cfg[n])]
                  \/ UNCHANGED snap
               /\ pc' = [pc EXCEPT ![a] = "check"] \/ pc' = [pc EXCEPT ![a] = "remove"]
               /\ UNCHANGED <<req, results, draft, out>>
      <4>1. snap' \in [Actors -> Maps(Projects)]
        BY <3>2, <2>3, <2>4 DEF TypeOK
      <4>2. pc' \in [Actors -> Stages]
        BY <3>2 DEF TypeOK, Stages
      <4>. QED  BY <3>2, <4>1, <4>2 DEF TypeOK
    <3>. QED  BY <2>1, <3>1, <3>2 DEF guard
  <2>6. busy' \in BOOLEAN /\ rest' \in 0 .. GuardTicks
    BY <2>1, ReleaseType DEF TypeOK, guard
  <2>7. faults' \in 0 .. MaxFaults
    BY <2>1, LoadType
  <2>. QED  BY <1>6, <2>5, <2>6, <2>7 DEF SelectProjects, TypeOK, dashboard, history
<1>7. ASSUME NEW a \in Actors, CheckAll(a)
      PROVE  TypeOK'
  <2>1. snap[a] \in Maps(Projects) /\ DOMAIN snap[a] \subseteq Names
        /\ \A n \in DOMAIN snap[a] : snap[a][n] \in Projects
    BY MapsFacts DEF TypeOK
  <2>2. PICK good \in SUBSET DOMAIN snap[a] :
          results' = [results EXCEPT ![a] =
            [n \in DOMAIN snap[a] |->
               [ok |-> n \in good, threshold |-> IF n \in good THEN snap[a][n].threshold ELSE Never]]]
    BY <1>7 DEF CheckAll
  <2> DEFINE card(n) == [ok |-> n \in good, threshold |-> IF n \in good THEN snap[a][n].threshold ELSE Never]
             rs == [n \in DOMAIN snap[a] |-> card(n)]
  <2>3. \A n \in DOMAIN snap[a] : card(n) \in Cards
    BY <2>1 DEF Cards, Projects
  <2> HIDE DEF card
  <2>4. rs \in [DOMAIN snap[a] -> Cards]
    BY <2>3
  <2>5. rs \in Maps(Cards)
    BY <2>4, <2>1, MapOn
  <2>6. results' = [results EXCEPT ![a] = rs]
    BY <2>2 DEF card
  <2> HIDE DEF rs
  <2>7. results' \in [Actors -> Maps(Cards)] /\ snap' \in [Actors -> Maps(Projects)]
    BY <1>7, <2>5, <2>6, NothingMap DEF CheckAll, TypeOK
  <2>8. pc' \in [Actors -> Stages]
    BY <1>7 DEF CheckAll, TypeOK, Stages
  <2>. QED  BY <1>7, <2>7, <2>8 DEF CheckAll, TypeOK, dashboard, guard, world, history
<1>8. ASSUME NEW a \in Actors, Apply(a)
      PROVE  TypeOK'
  <2>1. results[a] \in Maps(Cards) /\ DOMAIN results[a] \subseteq Names
    BY MapsFacts DEF TypeOK
  <2>2. shown' \in Maps(Cards) /\ checked' = TRUE /\ age' \in Ages
    BY <1>8, <2>1, CardsType DEF Apply
  <2>3. readAge' \in Ages /\ emptied' \in BOOLEAN
    BY <1>8 DEF Apply, TypeOK, Ages
  <2>4. results' \in [Actors -> Maps(Cards)] /\ out' \in [Actors -> SUBSET Names]
    BY <1>8, <2>1, NothingMap DEF Apply, TypeOK
  <2>5. pc' \in [Actors -> Stages]
    BY <1>8 DEF Apply, TypeOK, Stages
  <2>. QED  BY <1>8, <2>2, <2>3, <2>4, <2>5 DEF Apply, TypeOK, guard, world
<1>9. ASSUME NEW a \in Actors, CopyBalance(a)
      PROVE  TypeOK'
  <2>1. DOMAIN shown \subseteq Names
    BY MapsFacts DEF TypeOK
  <2>2. out' \in [Actors -> SUBSET Names] /\ pc' \in [Actors -> Stages]
    BY <1>9, <2>1 DEF CopyBalance, TypeOK, Stages
  <2>. QED  BY <1>9, <2>2 DEF CopyBalance, TypeOK, dashboard, guard, world, history
<1>10. ASSUME NEW a \in Actors, UpdateBalance(a)
       PROVE  TypeOK'
  <2>1. metrics' \subseteq Names
    BY <1>10 DEF UpdateBalance, TypeOK
  <2>2. /\ pc' \in [Actors -> Stages] /\ req' \in [Actors -> Requests]
        /\ snap' \in [Actors -> Maps(Projects)] /\ results' \in [Actors -> Maps(Cards)]
        /\ draft' \in [Actors -> Projects] /\ out' \in [Actors -> SUBSET Names]
        /\ busy' \in BOOLEAN /\ rest' \in 0 .. GuardTicks
    <3>1. CASE a = Scheduler
      BY <1>10, <3>1 DEF UpdateBalance, TypeOK, Stages, guard
    <3>2. CASE a # Scheduler
      BY <1>10, <3>2, EndType, ReleaseType DEF UpdateBalance
    <3>. QED  BY <3>1, <3>2
  <2>. QED  BY <1>10, <2>1, <2>2 DEF UpdateBalance, TypeOK, world, history
<1>11. ASSUME NEW a \in Actors, WriteFails(a)
       PROVE  TypeOK'
  <2>1. faults' \in 0 .. MaxFaults
    BY <1>11 DEF WriteFails, TypeOK
  <2>. QED  BY <1>11, <2>1, EndType DEF WriteFails, TypeOK, dashboard, guard, history
<1>12. ASSUME NEW a \in Pages, RefreshAll(a)
       PROVE  TypeOK'
  <2>1. [op |-> "refresh", name |-> "all"] \in Requests /\ "run" \in Stages
    BY DEF Requests, Stages
  <2>. QED  BY <1>12, <2>1, BeginType DEF RefreshAll, acquire, TypeOK, dashboard, history
<1>13. ASSUME NEW a \in Pages, NEW n \in Names, RefreshProject(a, n)
       PROVE  TypeOK'
  <2>1. [op |-> "refresh", name |-> n] \in Requests /\ "run" \in Stages
    BY DEF Requests, Stages
  <2>2. faults' \in 0 .. MaxFaults
    BY <1>13, LoadType DEF RefreshProject
  <2>. QED  BY <1>13, <2>1, <2>2, BeginType DEF RefreshProject, acquire, TypeOK, dashboard, history
<1>14. ASSUME NEW a \in Pages, NEW n \in Names, SaveProject(a, n)
       PROVE  TypeOK'
  <2>1. [op |-> "save", name |-> n] \in Requests /\ "upsert" \in Stages
    BY DEF Requests, Stages
  <2>2. PICK cfg \in Configs, field \in {"threshold", "enabled"} :
          /\ Load(cfg)
          /\ Begin(a, [op |-> "save", name |-> n], "upsert")
          /\ LET target == IF n \in DOMAIN cfg THEN cfg[n] ELSE Discovered
             IN  \/ \E t \in Thresholds : draft' = [draft EXCEPT ![a] = [target EXCEPT !.threshold = t]]
                 \/ \E e \in BOOLEAN : draft' = [draft EXCEPT ![a] = [target EXCEPT !.enabled = e]]
    BY <1>14 DEF SaveProject
  <2> DEFINE target == IF n \in DOMAIN cfg THEN cfg[n] ELSE Discovered
  <2>3. target \in Projects
    BY ConfigsTyped, DashboardAssumption DEF TypeOK, Discovered, Projects
  <2> HIDE DEF target
  <2>4. /\ \A t \in Thresholds : [target EXCEPT !.threshold = t] \in Projects
        /\ \A e \in BOOLEAN : [target EXCEPT !.enabled = e] \in Projects
    BY <2>3 DEF Projects
  <2>5. draft' \in [Actors -> Projects]
    BY <2>2, <2>4 DEF target, TypeOK
  <2>. QED  BY <1>14, <2>1, <2>2, <2>5, BeginType, LoadType
            DEF SaveProject, TypeOK, dashboard, guard, history
<1>15. ASSUME NEW a \in Pages, NEW n \in Names, DeleteProject(a, n)
       PROVE  TypeOK'
  <2>1. [op |-> "delete", name |-> n] \in Requests /\ "drop" \in Stages
    BY DEF Requests, Stages
  <2>. QED  BY <1>15, <2>1, BeginType DEF DeleteProject, TypeOK, dashboard, guard, history
<1>16. CASE Tick
  <2>1. age' \in Ages /\ readAge' \in Ages /\ rest' \in 0 .. GuardTicks
    BY <1>16 DEF Tick, TypeOK, Older, Ages, Never
  <2>. QED  BY <1>16, <2>1 DEF Tick, TypeOK, world
<1>17. CASE Outage
  BY <1>17 DEF Outage, TypeOK, dashboard, guard, history
<1>18. CASE UNCHANGED vars
  BY <1>18 DEF vars, TypeOK
<1>. QED  BY <1>1, <1>2, <1>3, <1>4, <1>5, <1>6, <1>7, <1>8, <1>9, <1>10, <1>11, <1>12, <1>13,
             <1>14, <1>15, <1>16, <1>17, <1>18 DEF Next, Proceed

-------------------------------------------------------------------------------
(* The refresh guard                                                        *)

\* What a begun and what an ended request is.
LEMMA BeginReq ==
  ASSUME TypeOK, NEW a \in Actors, NEW r, NEW at, Begin(a, r, at)
  PROVE  /\ pc[a] = "idle"
         /\ \A b \in Actors : req'[b] = IF b = a THEN r ELSE req[b]
         /\ \A b \in Actors : pc'[b] = IF b = a THEN at ELSE pc[b]
BY DEF Begin, TypeOK

\* A request that ends changes its own actor alone.
LEMMA EndReq ==
  ASSUME TypeOK, NEW a \in Actors, End(a)
  PROVE  /\ \A b \in Actors : req'[b] = IF b = a THEN [op |-> "none"] ELSE req[b]
         /\ \A b \in Actors : pc'[b] = IF b = a THEN "idle" ELSE pc[b]
BY DEF End, TypeOK

\* No request is under way and the guard is free when the server starts.
LEMMA StageInit == Init => StageInv /\ GuardInv
BY Bounds DEF Init, StageInv, GuardInv

\* A request that moves on to a stage which asks nothing of it.
LEMMA MoveStage ==
  ASSUME TypeOK, StageInv, NEW a \in Actors, NEW at \in Stages \ {"idle", "upsert", "drop"},
         pc' = [pc EXCEPT ![a] = at], UNCHANGED req
  PROVE  StageInv'
BY DEF TypeOK, StageInv

\* The guard's invariant depends on the requests and the guard alone.
LEMMA SameGuard ==
  ASSUME GuardInv, UNCHANGED <<req, busy, rest>>
  PROVE  GuardInv'
BY DEF GuardInv

\* A new request other than a manual refresh leaves the guard alone.
LEMMA BeginOther ==
  ASSUME TypeOK, StageInv, GuardInv, NEW a \in Actors,
         NEW op \in {"job", "save", "delete"}, NEW n, NEW at, Begin(a, [op |-> op, name |-> n], at),
         UNCHANGED guard
  PROVE  GuardInv'
<1>1. req[a].op = "none" /\ req'[a].op = op
  BY BeginReq DEF StageInv
<1>2. \A b \in Actors : req'[b].op = "refresh" <=> req[b].op = "refresh"
  BY <1>1, BeginReq
<1>. QED  BY <1>2, Bounds DEF GuardInv, guard

\* A manual refresh takes the guard.
LEMMA BeginRefresh ==
  ASSUME TypeOK, StageInv, GuardInv, NEW a \in Pages, NEW n, NEW at,
         Begin(a, [op |-> "refresh", name |-> n], at), acquire
  PROVE  GuardInv'
<1>1. a \in Actors /\ a # Scheduler
  BY DashboardAssumption, Bounds
<1>2. \A b \in Actors : req'[b].op = "refresh" <=> b = a
  BY <1>1, BeginReq DEF GuardInv, acquire
<1>. QED  BY <1>1, <1>2, Bounds DEF GuardInv, acquire

\* A request that ends lets go of the guard if it held it.
LEMMA Released ==
  ASSUME TypeOK, GuardInv, NEW a \in Actors, End(a),
         \/ release(a)
         \/ req[a].op # "refresh" /\ UNCHANGED guard
  PROVE  GuardInv'
<1>1. \A b \in Actors : req'[b].op = "refresh" <=> b # a /\ req[b].op = "refresh"
  BY EndReq
<1>2. CASE req[a].op = "refresh"
  <2>1. \A b \in Actors : req'[b].op # "refresh"
    BY <1>1, <1>2 DEF GuardInv
  <2>. QED  BY <1>2, <2>1, Bounds DEF GuardInv, release
<1>3. CASE req[a].op # "refresh"
  <2>1. \A b \in Actors : req'[b].op = "refresh" <=> req[b].op = "refresh"
    BY <1>1, <1>3
  <2>. QED  BY <1>3, <2>1, Bounds DEF GuardInv, release, guard
<1>. QED  BY <1>2, <1>3

\* A request that ends leaves every other request at a sound stage.
LEMMA EndStage ==
  ASSUME TypeOK, StageInv, NEW a \in Actors, End(a)
  PROVE  StageInv'
BY EndReq DEF StageInv

\* Every step keeps the stages and the guard.
LEMMA GuardStep ==
  ASSUME TypeOK, StageInv, GuardInv, [Next]_vars
  PROVE  StageInv' /\ GuardInv'
<1> USE Bounds
<1>1. CASE StartJob
  <2>1. StageInv'
    BY <1>1, BeginReq DEF StartJob, StageInv
  <2>. QED  BY <1>1, <2>1, BeginOther DEF StartJob
<1>2. CASE RecordJobRun
  BY <1>2, EndStage, Released DEF RecordJobRun, GuardInv
<1>3. ASSUME NEW a \in Actors, UpsertProject(a) \/ DropProject(a) \/ RemoveCard(a) \/ CheckAll(a)
                               \/ Apply(a) \/ CopyBalance(a)
      PROVE  StageInv' /\ GuardInv'
  <2>1. PICK at \in Stages \ {"idle", "upsert", "drop"} : pc' = [pc EXCEPT ![a] = at]
    BY <1>3 DEF UpsertProject, DropProject, RemoveCard, CheckAll, Apply, CopyBalance, Stages
  <2>2. UNCHANGED <<req, busy, rest>>
    BY <1>3 DEF UpsertProject, DropProject, RemoveCard, CheckAll, Apply, CopyBalance, guard
  <2>. QED  BY <2>1, <2>2, MoveStage, SameGuard
<1>4. ASSUME NEW a \in Actors, SelectProjects(a)
      PROVE  StageInv' /\ GuardInv'
  <2>1. CASE /\ pc' = [pc EXCEPT ![a] = "check"] \/ pc' = [pc EXCEPT ![a] = "remove"]
             /\ UNCHANGED <<guard, req>>
    <3>1. PICK at \in Stages \ {"idle", "upsert", "drop"} : pc' = [pc EXCEPT ![a] = at]
      BY <2>1 DEF Stages
    <3>. QED  BY <2>1, <3>1, MoveStage, SameGuard DEF guard
  <2>2. CASE release(a) /\ End(a)
    BY <2>2, EndStage, Released
  <2>. QED  BY <1>4, <2>1, <2>2 DEF SelectProjects
<1>5. ASSUME NEW a \in Actors, UpdateBalance(a)
      PROVE  StageInv' /\ GuardInv'
  <2>1. CASE a = Scheduler
    <3>1. pc' = [pc EXCEPT ![a] = "record"] /\ UNCHANGED <<req, busy, rest>>
      BY <1>5, <2>1 DEF UpdateBalance, guard
    <3>2. "record" \in Stages \ {"idle", "upsert", "drop"}
      BY DEF Stages
    <3>. QED  BY <3>1, <3>2, MoveStage, SameGuard
  <2>2. CASE a # Scheduler
    BY <1>5, <2>2, EndStage, Released DEF UpdateBalance
  <2>. QED  BY <2>1, <2>2
<1>6. ASSUME NEW a \in Actors, WriteFails(a)
      PROVE  StageInv' /\ GuardInv'
  <2>1. req[a].op # "refresh"
    BY <1>6 DEF WriteFails, StageInv
  <2>. QED  BY <1>6, <2>1, EndStage, Released DEF WriteFails
<1>7. ASSUME NEW a \in Pages, RefreshAll(a)
      PROVE  StageInv' /\ GuardInv'
  <2>1. StageInv'
    BY <1>7, BeginReq DEF RefreshAll, StageInv
  <2>. QED  BY <1>7, <2>1, BeginRefresh DEF RefreshAll
<1>8. ASSUME NEW a \in Pages, NEW n \in Names, RefreshProject(a, n)
      PROVE  StageInv' /\ GuardInv'
  <2>1. StageInv'
    BY <1>8, BeginReq DEF RefreshProject, StageInv
  <2>. QED  BY <1>8, <2>1, BeginRefresh DEF RefreshProject
<1>9. ASSUME NEW a \in Pages, NEW n \in Names, SaveProject(a, n)
      PROVE  StageInv' /\ GuardInv'
  <2>1. Begin(a, [op |-> "save", name |-> n], "upsert") /\ UNCHANGED guard
    BY <1>9 DEF SaveProject
  <2>2. StageInv'
    BY <2>1, BeginReq DEF StageInv
  <2>. QED  BY <2>1, <2>2, BeginOther
<1>10. ASSUME NEW a \in Pages, NEW n \in Names, DeleteProject(a, n)
       PROVE  StageInv' /\ GuardInv'
  <2>1. Begin(a, [op |-> "delete", name |-> n], "drop") /\ UNCHANGED guard
    BY <1>10 DEF DeleteProject
  <2>2. StageInv'
    BY <2>1, BeginReq DEF StageInv
  <2>. QED  BY <2>1, <2>2, BeginOther
<1>11. CASE Tick
  <2>1. UNCHANGED <<pc, req, busy>> /\ (rest' > 0 => rest > 0)
    BY <1>11 DEF Tick, TypeOK
  <2>. QED  BY <2>1 DEF StageInv, GuardInv
<1>12. CASE Outage \/ UNCHANGED vars
  BY <1>12 DEF Outage, vars, guard, StageInv, GuardInv
<1>. QED  BY <1>1, <1>2, <1>3, <1>4, <1>5, <1>6, <1>7, <1>8, <1>9, <1>10, <1>11, <1>12
          DEF Next, Proceed

-------------------------------------------------------------------------------
(* Freshness                                                                *)

\* Nothing looks fresh before anything was read.
LEMMA FreshInit == Init => NeverFresherThanRead
BY DEF Init, NeverFresherThanRead

\* Only a round that read a balance makes the dashboard younger, and ageing stops
\* at the same limit for both ages.
LEMMA FreshStep ==
  ASSUME TypeOK, NeverFresherThanRead, [Next]_vars
  PROVE  NeverFresherThanRead'
<1> USE Bounds
<1>1. ASSUME NEW a \in Actors, Apply(a)
      PROVE  NeverFresherThanRead'
  <2>1. DOMAIN results[a] = {} => results[a] = Nothing
    BY EmptyMap DEF TypeOK
  <2>2. CASE anySucceeded(results[a])
    <3>1. age' = 0 /\ readAge' = 0
      BY <1>1, <2>2 DEF Apply, SetBalance, MergeBalance, setBalanceLocked
    <3>. QED  BY <3>1 DEF NeverFresherThanRead, Never
  <2>3. CASE ~anySucceeded(results[a]) /\ results[a] # Nothing
    <3>1. UNCHANGED <<age, readAge>>
      BY <1>1, <2>1, <2>3 DEF Apply, SetBalance, MergeBalance, setBalanceLocked
    <3>2. emptied' <=> emptied
      BY <1>1, <2>3 DEF Apply
    <3>. QED  BY <3>1, <3>2 DEF NeverFresherThanRead
  <2>4. CASE results[a] = Nothing
    BY <1>1, <2>4 DEF Apply, NeverFresherThanRead
  <2>. QED  BY <2>2, <2>3, <2>4
<1>2. ASSUME NEW a \in Actors, RemoveCard(a)
      PROVE  NeverFresherThanRead'
  BY <1>2 DEF RemoveCard, RemoveBalanceProject, setBalanceLocked, history, NeverFresherThanRead
<1>3. CASE Tick
  <2>1. age \in Ages /\ readAge \in Ages /\ emptied' = emptied
        /\ age' = Older(age) /\ readAge' = Older(readAge)
    BY <1>3 DEF Tick, TypeOK
  <2>. QED  BY <2>1 DEF NeverFresherThanRead, Older, Ages, Never
<1>4. CASE UNCHANGED <<age, readAge, emptied>>
  BY <1>4 DEF NeverFresherThanRead
<1>5. ASSUME NEW a \in Actors,
             \/ UpsertProject(a) \/ DropProject(a) \/ SelectProjects(a) \/ CheckAll(a)
             \/ CopyBalance(a) \/ UpdateBalance(a) \/ WriteFails(a)
      PROVE  UNCHANGED <<age, readAge, emptied>>
  BY <1>5 DEF UpsertProject, DropProject, SelectProjects, CheckAll, CopyBalance, UpdateBalance, WriteFails,
              dashboard, history
<1>6. ASSUME NEW a \in Pages,
             \/ RefreshAll(a)
             \/ \E n \in Names : RefreshProject(a, n) \/ SaveProject(a, n) \/ DeleteProject(a, n)
      PROVE  UNCHANGED <<age, readAge, emptied>>
  BY <1>6 DEF RefreshAll, RefreshProject, SaveProject, DeleteProject, dashboard, history
<1>7. CASE StartJob \/ RecordJobRun \/ Outage \/ UNCHANGED vars
  <2>1. UNCHANGED <<age, readAge, emptied>>
    BY <1>7 DEF StartJob, RecordJobRun, Outage, vars, dashboard, history
  <2>. QED  BY <2>1, <1>4
<1>. QED  BY <1>1, <1>2, <1>3, <1>4, <1>5, <1>6, <1>7 DEF Next, Proceed

-------------------------------------------------------------------------------
(* Theorems                                                                 *)

\* The inductive invariant of the requests, rounds and edits: where each of them is,
\* who owns the refresh guard and how old the cards are, for any number of pages,
\* projects and failures (state.Manager, refreshGuard, handleRefresh and the handlers
\* of projects).
THEOREM Invariance == Spec => []Inv
<1>1. Init => Inv
  BY TypeInit, StageInit, FreshInit DEF Inv
<1>2. Inv /\ [Next]_vars => Inv'
  BY TypeStep, GuardStep, FreshStep DEF Inv
<1>. QED  BY <1>1, <1>2, PTL DEF Spec

\* Every variable stays in its type, whatever the requests overlap with.
THEOREM TypeCorrect == Spec => []TypeOK
<1>1. Inv => TypeOK
  BY DEF Inv
<1>. QED  BY <1>1, Invariance, PTL

\* At most one manual refresh is under way, and none while the guard rests
\* (refreshGuard.acquire and release).
THEOREM RefreshesSpaced == Spec => []RefreshSpacing
<1>1. ASSUME Inv  PROVE RefreshSpacing
  <2> DEFINE R == {a \in Pages : req[a].op = "refresh"}
  <2>1. \A a, b \in R : a = b
    BY <1>1, Bounds DEF Inv, GuardInv
  <2>2. R = {} \/ \E a \in R : R = {a}
    BY <2>1
  <2>3. Cardinality(R) \in {0, 1}
    BY <2>2, FS_EmptySet, FS_Singleton
  <2>4. Cardinality(R) <= 1
    BY <2>3
  <2>5. rest > 0 => \A a \in Pages : req[a].op # "refresh"
    BY <1>1, Bounds DEF Inv, GuardInv
  <2>. QED  BY <2>4, <2>5 DEF RefreshSpacing
<1>. QED  BY <1>1, Invariance, PTL

\* The guard is never left taken: as long as it is busy a page's refresh is under
\* way that will release it, on every path a refresh can end on.
THEOREM GuardComesBack ==
  Spec => [](busy => \E a \in Pages : req[a].op = "refresh" /\ pc[a] # "idle")
<1>1. Inv => (busy => \E a \in Pages : req[a].op = "refresh" /\ pc[a] # "idle")
  BY DEF Inv, GuardInv, StageInv, Actors
<1>. QED  BY <1>1, Invariance, PTL

\* Until a full round finds nothing to check, the dashboard never looks fresher
\* than the last round that read a balance (state.Manager's freshness).
THEOREM FreshnessEarned == Spec => []NeverFresherThanRead
<1>1. Inv => NeverFresherThanRead
  BY DEF Inv
<1>. QED  BY <1>1, Invariance, PTL

===============================================================================

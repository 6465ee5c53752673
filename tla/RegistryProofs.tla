----------------------------- MODULE RegistryProofs -----------------------------
(***************************************************************************)
(* Proofs about the edges of the program: Push, Providers and Extract, for *)
(* any number of browsers, pages, platforms, failures and restarts (web    *)
(* push keeps one matching pair and every live registration, what the page *)
(* did to the definitions lasts, and a fetch is safe to repeat and reads   *)
(* what the platform said); and who is let in, the browser sessions        *)
(* (Sessions), for every lifetime, set of keys and number of rotations,    *)
(* and the agents' keys and budgets (McpAccess), for every environment and *)
(* rate.                                                                   *)
(***************************************************************************)
EXTENDS Push, Providers, Extract, Sessions, McpAccess, FiniteSetTheorems, WellFoundedInduction, TLAPS

-------------------------------------------------------------------------------
(* Web push: the invariant                                                  *)

\* Actors that resolve the pair do it under the mutex.
Resolving == {"public", "private", "generate", "save"}

ActorShape(s) ==
  \/ s.pc \in {"idle", "subscribe"}
  \/ s.pc \in {"lock", "public", "generate"} /\ DOMAIN s = {"pc", "todo"}
  \/ s.pc = "private" /\ DOMAIN s = {"pc", "todo", "read"} /\ s.read \in Nat \ {0}
  \/ s.pc = "save" /\ DOMAIN s = {"pc", "todo", "pair"} /\ s.pair \in Nat \ {0}
  \/ s.pc = "ready" /\ DOMAIN s = {"pc", "todo", "keys"}

PushShape ==
  /\ vapid \in [public : Nat, private : Nat]
  /\ pairs \in Nat /\ registrations \in Nat /\ pushFaults \in Nat
  /\ DOMAIN pushActor = PushActors /\ \A a \in PushActors : ActorShape(pushActor[a])
  /\ DOMAIN holds = Browsers

\* The mutex is held by the one actor that resolves.
MutexInv ==
  /\ keyLock = {a \in PushActors : pushActor[a].pc \in Resolving}
  /\ \A a, b \in keyLock : a = b

\* A registration carries its browser and a number of its own.
SerialsInv ==
  /\ \A b \in Browsers : \A r \in holds[b] : r.browser = b /\ r.serial \in 1..registrations
  /\ \A r \in switchedOn : r.browser \in Browsers /\ r.serial \in 1..registrations
  /\ \A r \in endpoints : r.browser \in Browsers

\* Unless two things went wrong, a stored private key has its public key beside it
\* or is about to be replaced; only a failure makes an actor replace one.
PairInv ==
  pushFaults < 2 =>
    /\ (\A a \in PushActors : pushActor[a].pc # "save") => vapid.private \in {0, vapid.public}
    /\ \A a \in PushActors :
         LET s == pushActor[a]
         IN  /\ s.pc = "save" => vapid.public = s.pair
             /\ s.pc \in {"generate", "save"} => vapid.private = 0 \/ pushFaults >= 1

\* The stored pair works, and these keys are it.
Settled(keys, stored) == keys = stored /\ stored.private = stored.public /\ stored.private # 0

\* Without a failure an actor uses, reads and replaces only that pair.
Paired(s, stored) ==
  /\ s.pc = "ready" => Settled(s.keys, stored)
  /\ s.pc = "generate" => stored.public = 0
  /\ s.pc = "private" => s.read = stored.public /\ stored.private # 0
  /\ s.pc = "save" => stored.private = 0

\* Without a failure everything in use is the one pair that is stored.
OnePairInv ==
  pushFaults = 0 =>
    /\ cachedKeys = NoKeys \/ Settled(cachedKeys, vapid)
    /\ \A a \in PushActors : Paired(pushActor[a], vapid)
    /\ (\A a \in PushActors : pushActor[a].pc # "save") => vapid.private = vapid.public
    /\ \A b \in Browsers : \A r \in holds[b] : vapid = [public |-> r.key, private |-> r.key] /\ r.key # 0

PushInv == PushShape /\ MutexInv /\ SerialsInv /\ PairInv /\ OnePairInv /\ LiveRowsKept

-------------------------------------------------------------------------------
(* Definitions: the invariant                                               *)

LoadFields == {"pc", "then", "name"}
ListFields == LoadFields \cup {"uses", "blind"}
RowFields == ListFields \cup {"rows", "fresh", "seen", "todo"}

TaskShape(w) ==
  \/ w.pc = "idle"
  \/ w.pc = "projects" /\ DOMAIN w = LoadFields
  \/ w.pc = "list" /\ DOMAIN w = ListFields
  \/ w.pc \in {"marker", "seed", "relist", "install"} /\ DOMAIN w = RowFields
  \/ w.pc = "find" /\ DOMAIN w = {"pc", "name", "patch"}
  \/ w.pc = "upsert" /\ DOMAIN w = {"pc", "name", "patch", "row", "read"}
  \/ w.pc = "erase" /\ DOMAIN w = {"pc", "name", "uses"}

\* What a load or request relies on, given the rows there are, the names the page
\* edited and those whose row was spoilt: a list that is still fresh and was read
\* without a failure is the table, a load that seeds with open eyes knows only of
\* spoilt edits, the row about to be written is valid and is the patched one, and
\* no project was seen to use the platform about to be deleted.
Sound(w, rows, edited, spoilt) ==
  /\ w.pc \in {"marker", "install"} /\ w.fresh /\ ~w.blind => w.rows = rows
  /\ w.pc = "marker" => w.seen \subseteq edited
  /\ w.pc = "seed" /\ ~w.blind => w.seen \subseteq spoilt
  /\ w.pc = "upsert" => Complete(w.row) /\ w.row = applyCustomProviderPatch(w.read, w.name, w.patch)
  /\ w.pc = "erase" => [name |-> w.name, form |-> "custom"] \notin w.uses

TasksInv ==
  /\ DOMAIN task = ProvProcs
  /\ \A p \in ProvProcs : TaskShape(task[p]) /\ Sound(task[p], table, touched, contested)

AsWanted(n, rows, want) ==
  (InTable(rows, n) <=> InTable(want, n)) /\ (InTable(rows, n) => rows[n] = want[n])

\* The rows are valid definitions, and those nothing spoilt are what was wanted,
\* edited or not.  All the page did before the seeding was marked as done is spoilt.
TableInv ==
  /\ table = [n \in DOMAIN table |-> table[n]]
  /\ \A n \in DOMAIN table : Complete(table[n])
  /\ \A n : n \notin contested => AsWanted(n, table, wanted)
  /\ ~marker => touched \subseteq contested

UsesInv ==
  /\ \A use \in projects : use = [name |-> use.name, form |-> use.form] /\ use.form \in {"bare", "custom"}
  /\ UsedPlatformStays

ProvInv == TasksInv /\ TableInv /\ UsesInv /\ RegistryTracks

\* Names that have a row, or that the page or a failed write accounts for.
Accounted == DOMAIN table \cup touched \cup skipped

\* What a load that seeds relies on: a default it read a row for, or is done with,
\* is accounted for.
Sowing(w, names) ==
  /\ w.pc = "marker" => Defaults \cap DOMAIN w.rows \subseteq names
  /\ w.pc = "seed" => Defaults \ w.todo \subseteq names

SowingInv == \A p \in ProvProcs : Sowing(task[p], Accounted)

SeedInv == SowingInv /\ DefaultsSeeded

-------------------------------------------------------------------------------
(* Web push: the steps                                                      *)

\* An actor that moves leaves the others.
LEMMA BecomeFacts ==
  ASSUME DOMAIN pushActor = PushActors, NEW a \in PushActors, NEW s, Become(a, s)
  PROVE  /\ DOMAIN pushActor' = PushActors /\ pushActor'[a] = s
         /\ \A b \in PushActors : b # a => pushActor'[b] = pushActor[b]
BY DEF Become

\* An actor that holds the mutex is the only one that resolves.
LEMMA AloneInside ==
  ASSUME PushShape, MutexInv, NEW a \in PushActors, pushActor[a].pc \in Resolving
  PROVE  keyLock = {a} /\ \A b \in PushActors : b # a => pushActor[b].pc \notin Resolving
BY DEF MutexInv

\* Steps outside the mutex.
LEMMA OutsideStep ==
  ASSUME PushInv, NEW a \in PushActors, NEW s, Become(a, s), ActorShape(s),
         pushActor[a].pc \notin Resolving, s.pc \notin Resolving,
         pushFaults = 0 /\ s.pc = "ready" => Settled(s.keys, vapid),
         UNCHANGED <<vapid, cachedKeys, keyLock, pairs>>,
         pushFaults' \in {pushFaults, pushFaults + 1}, registrations' \in Nat, DOMAIN holds' = Browsers,
         pushFaults = 0 => \A b \in Browsers : \A r \in holds'[b] :
                             vapid = [public |-> r.key, private |-> r.key] /\ r.key # 0,
         SerialsInv', LiveRowsKept'
  PROVE  PushInv'
<1>1. PushShape /\ MutexInv /\ PairInv /\ OnePairInv
  BY DEF PushInv
<1>2. /\ DOMAIN pushActor' = PushActors /\ pushActor'[a] = s
      /\ \A b \in PushActors : b # a => pushActor'[b] = pushActor[b]
  BY <1>1, BecomeFacts DEF PushShape
<1>3. pushFaults \in Nat /\ pushFaults' \in Nat /\ pushFaults' >= pushFaults
  BY <1>1 DEF PushShape
<1>4. PushShape'
  <2>1. \A b \in PushActors : ActorShape(pushActor'[b])
    BY <1>1, <1>2 DEF PushShape
  <2>. QED  BY <1>1, <1>2, <1>3, <2>1 DEF PushShape
<1>5. MutexInv'
  BY <1>1, <1>2 DEF MutexInv
<1>6. PairInv'
  <2> SUFFICES ASSUME pushFaults' < 2
               PROVE  /\ (\A b \in PushActors : pushActor'[b].pc # "save") => vapid'.private \in {0, vapid'.public}
                      /\ \A b \in PushActors :
                           /\ pushActor'[b].pc = "save" => vapid'.public = pushActor'[b].pair
                           /\ pushActor'[b].pc \in {"generate", "save"} => vapid'.private = 0 \/ pushFaults' >= 1
    BY DEF PairInv
  <2>1. pushFaults < 2 /\ (pushFaults >= 1 => pushFaults' >= 1)
    BY <1>3
  <2>2. \A b \in PushActors : pushActor'[b] = pushActor[b] \/ (pushActor[b].pc \notin Resolving /\ pushActor'[b].pc \notin Resolving)
    BY <1>2
  <2>. QED  BY <1>1, <2>1, <2>2 DEF PairInv, Resolving
<1>7. OnePairInv'
  <2>1. pushFaults' = 0 => pushFaults = 0
    BY <1>3
  <2>2. Paired(pushActor[a], vapid) => (pushFaults = 0 => Paired(s, vapid))
    BY DEF Paired, Resolving
  <2>3. pushFaults = 0 => \A b \in PushActors : Paired(pushActor'[b], vapid)
    BY <1>1, <1>2, <2>2 DEF OnePairInv
  <2>4. \A b \in PushActors : pushActor'[b].pc # "save" => pushActor[b].pc # "save"
    BY <1>2 DEF Resolving
  <2>. QED  BY <1>1, <2>1, <2>3, <2>4 DEF OnePairInv
<1>. QED  BY <1>4, <1>5, <1>6, <1>7 DEF PushInv

\* Steps that leave the registrations of the browsers and their rows alone.
LEMMA RowsStay ==
  ASSUME PushInv, UNCHANGED <<endpoints, holds, registrations, switchedOn>>
  PROVE  SerialsInv' /\ LiveRowsKept' /\ DOMAIN holds' = Browsers /\ registrations' \in Nat
BY DEF PushInv, SerialsInv, LiveRowsKept, Alive, PushShape

\* The parts of the invariant that the steps use.
LEMMA PushParts ==
  ASSUME PushInv
  PROVE  /\ PushShape /\ MutexInv /\ SerialsInv /\ PairInv /\ OnePairInv /\ LiveRowsKept
         /\ DOMAIN pushActor = PushActors /\ \A a \in PushActors : ActorShape(pushActor[a])
         /\ pairs \in Nat /\ registrations \in Nat /\ pushFaults \in Nat
         /\ vapid \in [public : Nat, private : Nat] /\ DOMAIN holds = Browsers
BY DEF PushInv, PushShape

\* A page that asks for the public key keeps the invariant (handlePushConfig).
LEMMA ConfigStep ==
  ASSUME PushInv, NEW b \in Browsers, handlePushConfig(b)
  PROVE  PushInv'
<1>1. /\ pushActor[b].pc = "idle" /\ Become(b, NeedKeys({}))
      /\ UNCHANGED <<vapid, cachedKeys, keyLock, endpoints, holds, pairs, registrations, pushFaults, switchedOn>>
  BY DEF handlePushConfig, AtRest
<1>2. ActorShape(NeedKeys({})) /\ NeedKeys({}).pc = "lock" /\ b \in PushActors
  BY DEF NeedKeys, ActorShape, PushActors
<1>3. SerialsInv' /\ LiveRowsKept' /\ DOMAIN holds' = Browsers /\ registrations' \in Nat
  BY <1>1, RowsStay
<1>. QED  BY <1>1, <1>2, <1>3, PushParts, OutsideStep DEF OnePairInv, Resolving

\* A notification that starts keeps the invariant.
LEMMA NotifyStep ==
  ASSUME PushInv, Notify
  PROVE  PushInv'
<1>1. /\ pushActor[Alerter].pc = "idle" /\ Become(Alerter, NeedKeys(endpoints))
      /\ UNCHANGED <<vapid, cachedKeys, keyLock, endpoints, holds, pairs, registrations, pushFaults, switchedOn>>
  BY DEF Notify, AtRest
<1>2. ActorShape(NeedKeys(endpoints)) /\ NeedKeys(endpoints).pc = "lock" /\ Alerter \in PushActors
  BY DEF NeedKeys, ActorShape, PushActors
<1>3. SerialsInv' /\ LiveRowsKept' /\ DOMAIN holds' = Browsers /\ registrations' \in Nat
  BY <1>1, RowsStay
<1>. QED  BY <1>1, <1>2, <1>3, PushParts, OutsideStep DEF OnePairInv, Resolving

\* A new registration has a serial nobody has, and the key that is stored.
LEMMA RegisterStep ==
  ASSUME PushInv, NEW b \in Browsers, Register(b)
  PROVE  PushInv'
<1> DEFINE s == pushActor[b]
           new == [browser |-> b, key |-> s.keys.public, serial |-> registrations + 1]
           state == [pc |-> "subscribe"]
<1>1. /\ s.pc = "ready" /\ Become(b, state)
      /\ \/ UNCHANGED <<holds, registrations>>
         \/ registrations' = registrations + 1 /\ holds' = [holds EXCEPT ![b] = {new}]
      /\ UNCHANGED <<vapid, cachedKeys, keyLock, endpoints, pairs, pushFaults, switchedOn>>
  BY DEF Register
<1>2. ActorShape(state) /\ state.pc = "subscribe" /\ b \in PushActors
  BY DEF ActorShape, PushActors
<1>3. pushFaults = 0 => vapid = [public |-> new.key, private |-> new.key] /\ new.key # 0
  <2>1. pushFaults = 0 => s.keys = vapid /\ vapid.private = vapid.public /\ vapid.private # 0
    BY <1>1, <1>2, PushParts DEF OnePairInv, Paired, Settled
  <2>2. vapid = [public |-> vapid.public, private |-> vapid.private]
    BY PushParts
  <2>3. new.key = s.keys.public
    OBVIOUS
  <2>. QED  BY <2>1, <2>2, <2>3
<1>4. new.browser = b /\ new.serial = registrations + 1
  OBVIOUS
<1>5. pushActor[b].pc = "ready"
  BY <1>1
<1> HIDE DEF s, new, state
<1>6. DOMAIN holds' = Browsers /\ registrations' \in Nat /\ registrations' >= registrations
  BY <1>1, PushParts
<1>7. \A c \in Browsers : holds'[c] = holds[c] \/ (c = b /\ holds'[c] = {new} /\ registrations' = registrations + 1)
  BY <1>1, PushParts
<1>8. SerialsInv'
  <2>1. ASSUME NEW k \in 1..registrations  PROVE k \in 1..registrations'
    BY <1>6, PushParts
  <2>2. registrations' = registrations + 1 => registrations + 1 \in 1..registrations'
    BY PushParts
  <2>3. \A c \in Browsers : \A r \in holds'[c] : r.browser = c /\ r.serial \in 1..registrations'
    <3> SUFFICES ASSUME NEW c \in Browsers, NEW r \in holds'[c]
                 PROVE  r.browser = c /\ r.serial \in 1..registrations'
      OBVIOUS
    <3>1. CASE holds'[c] = holds[c]
      BY <2>1, <3>1, PushParts DEF SerialsInv
    <3>2. CASE c = b /\ holds'[c] = {new} /\ registrations' = registrations + 1
      BY <1>4, <2>2, <3>2
    <3>. QED  BY <1>7, <3>1, <3>2
  <2>4. \A r \in switchedOn' : r.browser \in Browsers /\ r.serial \in 1..registrations'
    BY <1>1, <2>1, PushParts DEF SerialsInv
  <2>5. \A r \in endpoints' : r.browser \in Browsers
    BY <1>1, PushParts DEF SerialsInv
  <2>. QED  BY <2>3, <2>4, <2>5 DEF SerialsInv
<1>9. LiveRowsKept'
  <2> SUFFICES ASSUME NEW r \in switchedOn, r \in holds'[r.browser]  PROVE r \in endpoints
    BY <1>1 DEF LiveRowsKept, Alive
  <2>1. r.browser \in Browsers /\ r.serial \in 1..registrations
    BY PushParts DEF SerialsInv
  <2>2. r # new
    BY <1>4, <2>1, PushParts
  <2>3. r \in holds[r.browser]
    BY <1>7, <2>1, <2>2
  <2>. QED  BY <2>3, PushParts DEF LiveRowsKept, Alive
<1>10. pushFaults = 0 => \A c \in Browsers : \A r \in holds'[c] : vapid = [public |-> r.key, private |-> r.key] /\ r.key # 0
  BY <1>3, <1>7, PushParts DEF OnePairInv
<1>. QED  BY <1>1, <1>2, <1>5, <1>6, <1>8, <1>9, <1>10, PushParts, OutsideStep DEF Resolving

\* A browser's registration keeps the invariant (handlePushSubscribe).
LEMMA SubscribeStep ==
  ASSUME PushInv, NEW b \in Browsers, handlePushSubscribe(b)
  PROVE  PushInv'
<1>1. /\ pushActor[b].pc = "subscribe"
      /\ UNCHANGED <<vapid, cachedKeys, keyLock, holds, pairs, registrations>>
      /\ \/ /\ endpoints' = endpoints \cup holds[b] /\ switchedOn' = switchedOn \cup holds[b]
            /\ UNCHANGED pushFaults
         \/ pushFaults' = pushFaults + 1 /\ UNCHANGED <<endpoints, switchedOn>>
  BY DEF handlePushSubscribe, PushFault
<1>2. PICK s \in {AtRest, NeedKeys(holds[b])} : Become(b, s)
  BY DEF handlePushSubscribe
<1>3. ActorShape(s) /\ s.pc \in {"idle", "lock"} /\ b \in PushActors
  BY <1>2 DEF ActorShape, AtRest, NeedKeys, PushActors
<1>4. SerialsInv'
  BY <1>1, PushParts DEF SerialsInv
<1>5. LiveRowsKept'
  BY <1>1, PushParts DEF LiveRowsKept, Alive
<1>6. pushActor[b].pc \notin Resolving /\ s.pc \notin Resolving /\ s.pc # "ready"
  BY <1>1, <1>3 DEF Resolving
<1>7. pushFaults' \in {pushFaults, pushFaults + 1}
  BY <1>1
<1>. QED  BY <1>1, <1>2, <1>3, <1>4, <1>5, <1>6, <1>7, PushParts, OutsideStep DEF OnePairInv

\* Steps of a browser alone: no actor and no key changes.
LEMMA BrowserStep ==
  ASSUME PushInv, NEW b \in Browsers, handlePushUnsubscribe(b) \/ Expire(b)
  PROVE  PushInv'
<1>1. /\ holds' = [holds EXCEPT ![b] = {}]
      /\ UNCHANGED <<vapid, cachedKeys, keyLock, pushActor, pairs, registrations, pushFaults>>
      /\ \/ endpoints' = endpoints \ holds[b] /\ switchedOn' = switchedOn \ holds[b]
         \/ UNCHANGED <<endpoints, switchedOn>>
  BY DEF handlePushUnsubscribe, Expire
<1>2. DOMAIN holds' = Browsers /\ \A c \in Browsers : holds'[c] = IF c = b THEN {} ELSE holds[c]
  BY <1>1, PushParts
<1>3. PushShape'
  BY <1>1, <1>2, PushParts DEF PushShape
<1>4. MutexInv' /\ PairInv'
  BY <1>1, PushParts DEF MutexInv, PairInv
<1>5. SerialsInv'
  BY <1>1, <1>2, PushParts DEF SerialsInv
<1>6. OnePairInv'
  BY <1>1, <1>2, PushParts DEF OnePairInv
<1>7. LiveRowsKept'
  <2> SUFFICES ASSUME NEW r \in switchedOn', r \in holds'[r.browser]  PROVE r \in endpoints'
    BY DEF LiveRowsKept, Alive
  <2>1. r \in switchedOn /\ r.browser \in Browsers
    BY <1>1, PushParts DEF SerialsInv
  <2>2. r.browser # b /\ r \in holds[r.browser]
    BY <1>2, <2>1
  <2>3. r \in endpoints
    BY <2>1, <2>2, PushParts DEF LiveRowsKept, Alive
  <2>4. r \notin holds[b]
    BY <2>2, PushParts DEF SerialsInv
  <2>. QED  BY <1>1, <2>3, <2>4
<1>. QED  BY <1>3, <1>4, <1>5, <1>6, <1>7 DEF PushInv

\* A send removes only rows of registrations that are gone.
LEMMA SendStep ==
  ASSUME PushInv, NEW a \in PushActors, NEW r, SendTo(a, r)
  PROVE  PushInv'
<1>1. /\ pushActor[a].pc = "ready" /\ endpoints' = endpoints \ Pruned(r)
      /\ UNCHANGED <<vapid, cachedKeys, keyLock, holds, pairs, registrations, pushFaults, switchedOn>>
  BY DEF SendTo
<1>2. PICK s \in {AtRest, NeedKeys(pushActor[a].todo \ {r})} : Become(a, s)
  BY DEF SendTo
<1>3. ActorShape(s) /\ s.pc \in {"idle", "lock"}
  BY <1>2 DEF ActorShape, AtRest, NeedKeys
<1>4. SerialsInv'
  BY <1>1, PushParts DEF SerialsInv
<1>5. LiveRowsKept'
  BY <1>1, PushParts DEF LiveRowsKept, Alive, Pruned
<1>6. pushActor[a].pc \notin Resolving /\ s.pc \notin Resolving /\ s.pc # "ready"
  BY <1>1, <1>3 DEF Resolving
<1>. QED  BY <1>1, <1>2, <1>3, <1>4, <1>5, <1>6, PushParts, OutsideStep DEF OnePairInv


\* Steps of the actor that takes or holds the mutex and of no browser.
LEMMA InsideStep ==
  ASSUME PushInv, NEW a \in PushActors, NEW s, Become(a, s), ActorShape(s),
         \A b \in PushActors : b # a => pushActor[b].pc \notin Resolving,
         keyLock' = IF s.pc \in Resolving THEN {a} ELSE {},
         UNCHANGED <<endpoints, holds, registrations, switchedOn>>,
         vapid' \in [public : Nat, private : Nat], pairs' \in Nat,
         pushFaults' \in {pushFaults, pushFaults + 1},
         pushFaults' < 2 =>
           /\ s.pc # "save" => vapid'.private \in {0, vapid'.public}
           /\ s.pc = "save" => vapid'.public = s.pair
           /\ s.pc \in {"generate", "save"} => vapid'.private = 0 \/ pushFaults' >= 1,
         pushFaults' = 0 =>
           /\ cachedKeys' = NoKeys \/ Settled(cachedKeys', vapid')
           /\ Paired(s, vapid')
           /\ s.pc # "save" => vapid'.private = vapid'.public
           /\ vapid' = vapid \/ vapid.private = 0
  PROVE  PushInv'
<1>1. /\ DOMAIN pushActor' = PushActors /\ pushActor'[a] = s
      /\ \A b \in PushActors : b # a => pushActor'[b] = pushActor[b]
  BY PushParts, BecomeFacts
<1>2. pushFaults' \in Nat /\ pushFaults' >= pushFaults
  BY PushParts
<1>3. SerialsInv' /\ LiveRowsKept' /\ DOMAIN holds' = Browsers /\ registrations' \in Nat
  BY RowsStay
<1>4. PushShape'
  <2>1. \A b \in PushActors : ActorShape(pushActor'[b])
    BY <1>1, PushParts
  <2>. QED  BY <1>1, <1>2, <1>3, <2>1 DEF PushShape
<1>5. MutexInv'
  BY <1>1 DEF MutexInv
<1>6. PairInv'
  BY <1>1 DEF PairInv, Resolving
<1>7. OnePairInv'
  <2> SUFFICES ASSUME pushFaults' = 0  PROVE OnePairInv!2'
    BY DEF OnePairInv
  <2>1. pushFaults = 0
    BY <1>2, PushParts
  <2>2. ASSUME NEW b \in PushActors  PROVE Paired(pushActor'[b], vapid')
    <3>1. CASE b = a
      BY <1>1, <3>1
    <3>2. CASE b # a
      <4>1. Paired(pushActor[b], vapid) /\ pushActor[b].pc \notin Resolving
        BY <2>1, <3>2, PushParts DEF OnePairInv
      <4>2. pushActor[b].pc = "ready" => Settled(pushActor[b].keys, vapid')
        BY <4>1 DEF Paired, Settled
      <4>. QED  BY <1>1, <3>2, <4>1, <4>2 DEF Paired, Resolving
    <3>. QED  BY <3>1, <3>2
  <2>3. (\A b \in PushActors : pushActor'[b].pc # "save") => vapid'.private = vapid'.public
    BY <1>1
  <2>4. \A b \in Browsers : \A r \in holds'[b] : vapid' = [public |-> r.key, private |-> r.key] /\ r.key # 0
    BY <2>1, PushParts DEF OnePairInv
  <2>. QED  BY <2>2, <2>3, <2>4
<1>. QED  BY <1>3, <1>4, <1>5, <1>6, <1>7 DEF PushInv


\* Taking the lock on the key pair keeps the invariant.
LEMMA LockStep ==
  ASSUME PushInv, NEW a \in PushActors, Lock(a)
  PROVE  PushInv'
<1> DEFINE ready == [pc |-> "ready", todo |-> pushActor[a].todo, keys |-> cachedKeys]
           asked == [pc |-> "public", todo |-> pushActor[a].todo]
<1>1. /\ pushActor[a].pc = "lock" /\ keyLock = {}
      /\ \/ cachedKeys # NoKeys /\ Become(a, ready) /\ UNCHANGED keyLock
         \/ Become(a, asked) /\ keyLock' = keyLock \cup {a}
      /\ UNCHANGED <<vapid, cachedKeys, endpoints, holds, pairs, registrations, pushFaults, switchedOn>>
  BY DEF Lock, LockFree
<1>2. /\ ActorShape(ready) /\ ready.pc = "ready" /\ ready.keys = cachedKeys
      /\ ActorShape(asked) /\ asked.pc = "public"
  BY DEF ActorShape
<1>3. \A b \in PushActors : pushActor[b].pc \notin Resolving
  BY <1>1, PushParts DEF MutexInv
<1> HIDE DEF ready, asked
<1>4. CASE cachedKeys # NoKeys /\ Become(a, ready) /\ UNCHANGED keyLock
  <2>1. SerialsInv' /\ LiveRowsKept' /\ DOMAIN holds' = Browsers /\ registrations' \in Nat
    BY <1>1, RowsStay
  <2>2. pushFaults = 0 => Settled(cachedKeys, vapid)
    BY <1>4, PushParts DEF OnePairInv
  <2>. QED  BY <1>1, <1>2, <1>3, <1>4, <2>1, <2>2, PushParts, OutsideStep DEF OnePairInv, Resolving
<1>5. CASE Become(a, asked) /\ keyLock' = keyLock \cup {a}
  <2>1. asked.pc \in Resolving /\ keyLock' = {a}
    BY <1>1, <1>2, <1>5 DEF Resolving
  <2>2. \A b \in PushActors : pushActor[b].pc # "save"
    BY <1>3 DEF Resolving
  <2>3. pushFaults < 2 => vapid.private \in {0, vapid.public}
    BY <2>2, PushParts DEF PairInv
  <2>4. pushFaults = 0 => vapid.private = vapid.public /\ (cachedKeys = NoKeys \/ Settled(cachedKeys, vapid))
    BY <2>2, PushParts DEF OnePairInv
  <2>5. Paired(asked, vapid)
    BY <1>2 DEF Paired
  <2>. QED  BY <1>1, <1>2, <1>3, <1>5, <2>1, <2>3, <2>4, <2>5, PushParts, InsideStep
<1>. QED  BY <1>1, <1>4, <1>5

\* What the holder of the mutex knows when it is not between the two saves.
LEMMA HolderFacts ==
  ASSUME PushInv, NEW a \in PushActors, pushActor[a].pc \in {"public", "private", "generate"}
  PROVE  /\ \A b \in PushActors : b # a => pushActor[b].pc \notin Resolving
         /\ keyLock = {a}
         /\ pushFaults < 2 => vapid.private \in {0, vapid.public}
         /\ pushFaults = 0 => /\ vapid.private = vapid.public
                              /\ cachedKeys = NoKeys \/ Settled(cachedKeys, vapid)
                              /\ Paired(pushActor[a], vapid)
<1>1. (\A b \in PushActors : b # a => pushActor[b].pc \notin Resolving) /\ keyLock = {a}
  BY PushParts, AloneInside DEF Resolving
<1>2. \A b \in PushActors : pushActor[b].pc # "save"
  BY <1>1 DEF Resolving
<1>. QED  BY <1>1, <1>2, PushParts DEF PairInv, OnePairInv

\* Reading the public key keeps the invariant.
LEMMA ReadPublicStep ==
  ASSUME PushInv, NEW a \in PushActors, ReadPublic(a)
  PROVE  PushInv'
<1> DEFINE found == [pc |-> "private", todo |-> pushActor[a].todo, read |-> vapid.public]
           missing == [pc |-> "generate", todo |-> pushActor[a].todo]
<1>1. /\ pushActor[a].pc = "public"
      /\ \/ vapid.public # 0 /\ Become(a, found) /\ UNCHANGED pushFaults
         \/ /\ (vapid.public = 0 /\ UNCHANGED pushFaults) \/ pushFaults' = pushFaults + 1
            /\ Become(a, missing)
      /\ UNCHANGED <<vapid, cachedKeys, keyLock, endpoints, holds, pairs, registrations, switchedOn>>
  BY DEF ReadPublic, PushFault
<1>2. /\ found.pc = "private" /\ found.read = vapid.public /\ DOMAIN found = {"pc", "todo", "read"}
      /\ ActorShape(missing) /\ missing.pc = "generate"
  BY DEF ActorShape
<1>3. /\ \A b \in PushActors : b # a => pushActor[b].pc \notin Resolving
      /\ keyLock = {a}
      /\ pushFaults < 2 => vapid.private \in {0, vapid.public}
      /\ pushFaults = 0 => /\ vapid.private = vapid.public
                           /\ cachedKeys = NoKeys \/ Settled(cachedKeys, vapid)
  BY <1>1, HolderFacts
<1> HIDE DEF found, missing
<1>4. CASE vapid.public # 0 /\ Become(a, found) /\ UNCHANGED pushFaults
  <2>1. ActorShape(found) /\ found.pc \in Resolving
    BY <1>2, <1>4, PushParts DEF ActorShape, Resolving
  <2>2. pushFaults = 0 => Paired(found, vapid)
    BY <1>2, <1>3, <1>4 DEF Paired
  <2>. QED  BY <1>1, <1>2, <1>3, <1>4, <2>1, <2>2, PushParts, InsideStep
<1>5. CASE /\ (vapid.public = 0 /\ UNCHANGED pushFaults) \/ pushFaults' = pushFaults + 1
           /\ Become(a, missing)
  <2>1. missing.pc \in Resolving
    BY <1>2 DEF Resolving
  <2>2. pushFaults' = 0 => pushFaults = 0 /\ Paired(missing, vapid)
    BY <1>2, <1>5, PushParts DEF Paired
  <2>3. pushFaults' < 2 => vapid.private \in {0, vapid.public} /\ (vapid.private = 0 \/ pushFaults' >= 1)
    BY <1>3, <1>5, PushParts
  <2>. QED  BY <1>1, <1>2, <1>3, <1>5, <2>1, <2>2, <2>3, PushParts, InsideStep
<1>. QED  BY <1>1, <1>4, <1>5


\* Reading the private key, whether or not there is one, keeps the invariant.
LEMMA ReadPrivateStep ==
  ASSUME PushInv, NEW a \in PushActors, ReadPrivate(a)
  PROVE  PushInv'
<1> DEFINE found == [public |-> pushActor[a].read, private |-> vapid.private]
           ready == [pc |-> "ready", todo |-> pushActor[a].todo, keys |-> found]
           missing == [pc |-> "generate", todo |-> pushActor[a].todo]
<1>1. /\ pushActor[a].pc = "private"
      /\ \/ /\ vapid.private # 0 /\ cachedKeys' = found /\ keyLock' = keyLock \ {a}
            /\ Become(a, ready) /\ UNCHANGED pushFaults
         \/ /\ (vapid.private = 0 /\ UNCHANGED pushFaults) \/ pushFaults' = pushFaults + 1
            /\ Become(a, missing) /\ UNCHANGED <<cachedKeys, keyLock>>
      /\ UNCHANGED <<vapid, endpoints, holds, pairs, registrations, switchedOn>>
  BY DEF ReadPrivate, PushFault
<1>2. /\ ActorShape(ready) /\ ready.pc = "ready" /\ ready.keys = found
      /\ ActorShape(missing) /\ missing.pc = "generate"
      /\ found.public = pushActor[a].read /\ found.private = vapid.private
      /\ DOMAIN found = {"public", "private"}
  BY DEF ActorShape
<1>3. /\ \A b \in PushActors : b # a => pushActor[b].pc \notin Resolving
      /\ keyLock = {a}
      /\ pushFaults < 2 => vapid.private \in {0, vapid.public}
      /\ pushFaults = 0 => /\ vapid.private = vapid.public
                           /\ cachedKeys = NoKeys \/ Settled(cachedKeys, vapid)
                           /\ pushActor[a].read = vapid.public /\ vapid.private # 0
  BY <1>1, HolderFacts DEF Paired, Resolving
<1>4. pushFaults = 0 => Settled(found, vapid)
  <2>1. vapid = [public |-> vapid.public, private |-> vapid.private]
    BY PushParts
  <2>. QED  BY <1>3, <2>1 DEF Settled
<1> HIDE DEF found, ready, missing
<1>5. CASE /\ vapid.private # 0 /\ cachedKeys' = found /\ keyLock' = keyLock \ {a}
           /\ Become(a, ready) /\ UNCHANGED pushFaults
  <2>1. ready.pc \notin Resolving /\ keyLock' = {}
    BY <1>2, <1>3, <1>5 DEF Resolving
  <2>2. pushFaults = 0 => Paired(ready, vapid)
    BY <1>2, <1>4 DEF Paired
  <2>. QED  BY <1>1, <1>2, <1>3, <1>4, <1>5, <2>1, <2>2, PushParts, InsideStep
<1>6. CASE /\ (vapid.private = 0 /\ UNCHANGED pushFaults) \/ pushFaults' = pushFaults + 1
           /\ Become(a, missing) /\ UNCHANGED <<cachedKeys, keyLock>>
  <2>1. missing.pc \in Resolving
    BY <1>2 DEF Resolving
  <2>2. pushFaults' # 0
    BY <1>3, <1>6, PushParts
  <2>3. pushFaults' < 2 => vapid.private \in {0, vapid.public} /\ (vapid.private = 0 \/ pushFaults' >= 1)
    BY <1>3, <1>6, PushParts
  <2>. QED  BY <1>1, <1>2, <1>3, <1>6, <2>1, <2>2, <2>3, PushParts, InsideStep
<1>. QED  BY <1>1, <1>5, <1>6

\* A generated pair replaces one only after a failure.
LEMMA SavePublicStep ==
  ASSUME PushInv, NEW a \in PushActors, SavePublic(a)
  PROVE  PushInv'
<1> DEFINE made == [pc |-> "save", todo |-> pushActor[a].todo, pair |-> pairs + 1]
<1>1. /\ pushActor[a].pc = "generate" /\ pairs' = pairs + 1
      /\ \/ /\ vapid' = [vapid EXCEPT !.public = pairs + 1]
            /\ Become(a, made) /\ UNCHANGED <<keyLock, pushFaults>>
         \/ /\ pushFaults' = pushFaults + 1 /\ Become(a, AtRest) /\ keyLock' = keyLock \ {a}
            /\ UNCHANGED vapid
      /\ UNCHANGED <<cachedKeys, endpoints, holds, registrations, switchedOn>>
  BY DEF SavePublic, GiveUp, PushFault
<1>2. /\ ActorShape(made) /\ made.pc = "save" /\ made.pair = pairs + 1
      /\ ActorShape(AtRest) /\ AtRest.pc = "idle"
  BY PushParts DEF ActorShape, AtRest
<1>3. /\ \A b \in PushActors : b # a => pushActor[b].pc \notin Resolving
      /\ keyLock = {a}
      /\ pushFaults < 2 => vapid.private \in {0, vapid.public}
      /\ pushFaults < 2 => vapid.private = 0 \/ pushFaults >= 1
      /\ pushFaults = 0 => vapid.private = 0 /\ cachedKeys = NoKeys
  <2>1. pushFaults = 0 => vapid.public = 0 /\ vapid.private = 0
    BY <1>1, HolderFacts DEF Paired
  <2>2. pushFaults < 2 => vapid.private = 0 \/ pushFaults >= 1
    BY <1>1, PushParts DEF PairInv
  <2>. QED  BY <1>1, <2>1, <2>2, HolderFacts DEF Settled
<1> HIDE DEF made
<1>4. CASE /\ vapid' = [vapid EXCEPT !.public = pairs + 1]
           /\ Become(a, made) /\ UNCHANGED <<keyLock, pushFaults>>
  <2>1. made.pc \in Resolving
    BY <1>2 DEF Resolving
  <2>2. /\ vapid' \in [public : Nat, private : Nat] /\ pairs' \in Nat
        /\ vapid'.public = pairs + 1 /\ vapid'.private = vapid.private
    BY <1>1, <1>4, PushParts
  <2>3. pushFaults = 0 => Paired(made, vapid')
    BY <1>2, <1>3, <2>2 DEF Paired
  <2>. QED  BY <1>1, <1>2, <1>3, <1>4, <2>1, <2>2, <2>3, PushParts, InsideStep
<1>5. CASE /\ pushFaults' = pushFaults + 1 /\ Become(a, AtRest) /\ keyLock' = keyLock \ {a}
           /\ UNCHANGED vapid
  <2>1. AtRest.pc \notin Resolving /\ keyLock' = {} /\ pairs' \in Nat
    BY <1>1, <1>2, <1>3, <1>5, PushParts DEF Resolving
  <2>2. pushFaults' # 0 /\ (pushFaults' < 2 => vapid.private \in {0, vapid.public})
    BY <1>3, <1>5, PushParts
  <2>. QED  BY <1>1, <1>2, <1>3, <1>5, <2>1, <2>2, PushParts, InsideStep
<1>. QED  BY <1>1, <1>4, <1>5

\* Storing the private key keeps the invariant.
LEMMA SavePrivateStep ==
  ASSUME PushInv, NEW a \in PushActors, SavePrivate(a)
  PROVE  PushInv'
<1> DEFINE pair == pushActor[a].pair
           made == [public |-> pair, private |-> pair]
           ready == [pc |-> "ready", todo |-> pushActor[a].todo, keys |-> made]
<1>1. /\ pushActor[a].pc = "save"
      /\ \/ /\ vapid' = [vapid EXCEPT !.private = pair] /\ cachedKeys' = made
            /\ keyLock' = keyLock \ {a} /\ Become(a, ready) /\ UNCHANGED pushFaults
         \/ /\ pushFaults' = pushFaults + 1 /\ Become(a, AtRest) /\ keyLock' = keyLock \ {a}
            /\ UNCHANGED <<vapid, cachedKeys>>
      /\ UNCHANGED <<endpoints, holds, pairs, registrations, switchedOn>>
  BY DEF SavePrivate, GiveUp, PushFault
<1>2. /\ ActorShape(ready) /\ ready.pc = "ready" /\ ready.keys = made
      /\ ActorShape(AtRest) /\ AtRest.pc = "idle"
      /\ made = [public |-> pair, private |-> pair]
  BY DEF ActorShape, AtRest
<1>3. /\ \A b \in PushActors : b # a => pushActor[b].pc \notin Resolving
      /\ keyLock = {a}
  BY <1>1, PushParts, AloneInside DEF Resolving
<1>4. /\ pair \in Nat \ {0}
      /\ pushFaults < 2 => vapid.public = pair
      /\ pushFaults = 0 => vapid.private = 0
  <2>1. pushFaults = 0 => vapid.private = 0
    BY <1>1, PushParts DEF OnePairInv, Paired
  <2>. QED  BY <1>1, <2>1, PushParts DEF PairInv, ActorShape
<1> HIDE DEF pair, made, ready
<1>5. CASE /\ vapid' = [vapid EXCEPT !.private = pair] /\ cachedKeys' = made
           /\ keyLock' = keyLock \ {a} /\ Become(a, ready) /\ UNCHANGED pushFaults
  <2>1. ready.pc \notin Resolving /\ keyLock' = {}
    BY <1>2, <1>3, <1>5 DEF Resolving
  <2>2. /\ vapid' \in [public : Nat, private : Nat]
        /\ vapid'.public = vapid.public /\ vapid'.private = pair
    BY <1>4, <1>5, PushParts
  <2>3. pushFaults = 0 => vapid' = made /\ Settled(made, vapid')
    <3>1. vapid' = [public |-> vapid'.public, private |-> vapid'.private]
      BY <2>2
    <3>. QED  BY <1>2, <1>4, <2>2, <3>1 DEF Settled
  <2>4. pushFaults = 0 => Paired(ready, vapid')
    BY <1>2, <2>3 DEF Paired
  <2>. QED  BY <1>1, <1>2, <1>3, <1>4, <1>5, <2>1, <2>2, <2>3, <2>4, PushParts, InsideStep
<1>6. CASE /\ pushFaults' = pushFaults + 1 /\ Become(a, AtRest) /\ keyLock' = keyLock \ {a}
           /\ UNCHANGED <<vapid, cachedKeys>>
  <2>1. AtRest.pc \notin Resolving /\ keyLock' = {}
    BY <1>2, <1>3, <1>6 DEF Resolving
  <2>2. pushFaults' # 0 /\ (pushFaults' < 2 => vapid.private \in {0, vapid.public})
    BY <1>4, <1>6, PushParts
  <2>. QED  BY <1>1, <1>2, <1>3, <1>6, <2>1, <2>2, PushParts, InsideStep
<1>. QED  BY <1>1, <1>5, <1>6


\* A restart loses the pair in memory and, between the two saves, half of a pair.
LEMMA PushRestartStep ==
  ASSUME PushInv, PushRestart
  PROVE  PushInv'
<1>1. /\ pushFaults' = pushFaults + (IF \E a \in PushActors : pushActor[a].pc = "save" THEN 1 ELSE 0)
      /\ cachedKeys' = NoKeys /\ keyLock' = {}
      /\ pushActor' = [a \in PushActors |-> AtRest]
      /\ UNCHANGED <<vapid, endpoints, holds, pairs, registrations, switchedOn>>
  BY DEF PushRestart
<1>2. DOMAIN pushActor' = PushActors /\ \A a \in PushActors : pushActor'[a] = AtRest
  BY <1>1
<1>3. AtRest.pc = "idle"
  BY DEF AtRest
<1>4. SerialsInv' /\ LiveRowsKept' /\ DOMAIN holds' = Browsers /\ registrations' \in Nat
  BY <1>1, RowsStay
<1>5. CASE \E a \in PushActors : pushActor[a].pc = "save"
  <2>1. pushFaults' = pushFaults + 1
    BY <1>1, <1>5
  <2>2. pushFaults' < 2 => vapid.private = 0
    BY <2>1, <1>5, PushParts DEF OnePairInv, Paired
  <2>3. pushFaults' \in Nat /\ pushFaults' # 0
    BY <2>1, PushParts
  <2>. QED  BY <1>1, <1>2, <1>3, <1>4, <2>2, <2>3, PushParts
            DEF PushInv, PushShape, ActorShape, MutexInv, PairInv, OnePairInv, Resolving
<1>6. CASE ~ \E a \in PushActors : pushActor[a].pc = "save"
  <2>1. pushFaults' = pushFaults
    BY <1>1, <1>6, PushParts
  <2>2. PushShape' /\ MutexInv'
    BY <1>1, <1>2, <1>3, <1>4, <2>1, PushParts DEF PushShape, ActorShape, MutexInv, Resolving
  <2>3. PairInv'
    BY <1>1, <1>2, <1>3, <1>6, <2>1, PushParts DEF PairInv
  <2>4. OnePairInv'
    BY <1>1, <1>2, <1>3, <1>6, <2>1, PushParts DEF OnePairInv, Paired
  <2>. QED  BY <1>4, <2>2, <2>3, <2>4 DEF PushInv
<1>. QED  BY <1>5, <1>6

\* The push invariant holds when the server starts.
LEMMA PushStart == PushInit => PushInv
<1> SUFFICES ASSUME PushInit  PROVE PushInv
  OBVIOUS
<1>1. /\ vapid = NoKeys /\ cachedKeys = NoKeys /\ keyLock = {} /\ endpoints = {} /\ switchedOn = {}
      /\ pairs = 0 /\ registrations = 0 /\ pushFaults = 0
      /\ DOMAIN pushActor = PushActors /\ \A a \in PushActors : pushActor[a] = AtRest
      /\ DOMAIN holds = Browsers /\ \A b \in Browsers : holds[b] = {}
  BY DEF PushInit
<1>2. AtRest.pc = "idle" /\ NoKeys = [public |-> 0, private |-> 0]
  BY DEF AtRest, NoKeys
<1>3. PushShape
  BY <1>1, <1>2 DEF PushShape, ActorShape
<1>4. MutexInv /\ SerialsInv
  BY <1>1, <1>2 DEF MutexInv, SerialsInv, Resolving
<1>5. PairInv /\ OnePairInv /\ LiveRowsKept
  BY <1>1, <1>2 DEF PairInv, OnePairInv, Paired, LiveRowsKept
<1>. QED  BY <1>3, <1>4, <1>5 DEF PushInv

\* Every step keeps the push invariant.
LEMMA PushPreserved == PushInv /\ [PushNext]_PushVars => PushInv'
<1> SUFFICES ASSUME PushInv, [PushNext]_PushVars  PROVE PushInv'
  OBVIOUS
<1>1. ASSUME NEW a \in PushActors, Lock(a) \/ ReadPublic(a) \/ ReadPrivate(a)
  PROVE PushInv'
  BY <1>1, LockStep, ReadPublicStep, ReadPrivateStep
<1>2. ASSUME NEW a \in PushActors, SavePublic(a) \/ SavePrivate(a)
  PROVE PushInv'
  BY <1>2, SavePublicStep, SavePrivateStep
<1>3. ASSUME NEW a \in PushActors, NEW r, SendTo(a, r)  PROVE PushInv'
  BY <1>3, SendStep
<1>4. ASSUME NEW b \in Browsers, handlePushConfig(b) \/ Register(b) \/ handlePushSubscribe(b)
  PROVE PushInv'
  BY <1>4, ConfigStep, RegisterStep, SubscribeStep
<1>5. ASSUME NEW b \in Browsers, handlePushUnsubscribe(b) \/ Expire(b)  PROVE PushInv'
  BY <1>5, BrowserStep
<1>6. CASE Notify
  BY <1>6, NotifyStep
<1>7. CASE PushRestart
  BY <1>7, PushRestartStep
<1>8. CASE UNCHANGED PushVars
  BY <1>8 DEF PushVars, PushInv, PushShape, MutexInv, SerialsInv, PairInv, OnePairInv, LiveRowsKept, Alive
<1>. QED  BY <1>1, <1>2, <1>3, <1>4, <1>5, <1>6, <1>7, <1>8 DEF PushNext

\* The invariant holds for any number of pages that switch push on and off at once,
\* of failing database calls and of restarts between any two of them.
THEOREM PushInvariance == PushSpec => []PushInv
<1>. QED  BY PushStart, PushPreserved, PTL DEF PushSpec

\* keysLocked and the handlers together keep push working: the two stored keys match
\* unless two things went wrong; without a failed call every browser that is still
\* registered can be reached over any restarts; and no live registration loses its
\* row to the pruning of SendTo.
THEOREM PushWorks == PushSpec => []PushKeepsWorking
<1>1. ASSUME PushInv  PROVE PushKeepsWorking
  <2>1. PairBelongsTogether
    <3> SUFFICES ASSUME keyLock = {}, vapid.private # 0, pushFaults < 2  PROVE vapid.public = vapid.private
      BY DEF PairBelongsTogether
    <3>1. \A a \in PushActors : pushActor[a].pc # "save"
      BY <1>1, PushParts DEF MutexInv, Resolving
    <3>. QED  BY <1>1, <3>1, PushParts DEF PairInv
  <2>2. BrowsersReachable
    <3> SUFFICES ASSUME pushFaults = 0, NEW r \in endpoints, Alive(r)
                 PROVE  vapid = [public |-> r.key, private |-> r.key]
      BY DEF BrowsersReachable
    <3>1. r.browser \in Browsers /\ r \in holds[r.browser]
      BY <1>1, PushParts DEF SerialsInv, Alive
    <3>. QED  BY <1>1, <3>1, PushParts DEF OnePairInv
  <2>. QED  BY <1>1, <2>1, <2>2, PushParts DEF PushKeepsWorking
<1>. QED  BY <1>1, PushInvariance, PTL


-------------------------------------------------------------------------------
(* Definitions: the steps                                                   *)

\* What one map laid over another holds.
LEMMA OverFacts ==
  ASSUME NEW f, NEW g
  PROVE  /\ DOMAIN Over(f, g) = DOMAIN f \cup DOMAIN g
         /\ \A x \in DOMAIN f : Over(f, g)[x] = f[x]
         /\ \A x \in DOMAIN g : x \notin DOMAIN f => Over(f, g)[x] = g[x]
BY DEF Over

\* A step of one task that writes no row.
LEMMA ProceedKeeps ==
  ASSUME TasksInv, NEW p \in ProvProcs, NEW s, Proceed(p, s),
         TaskShape(s), Sound(s, table, touched, contested),
         UNCHANGED <<table, touched, contested>>
  PROVE  TasksInv'
<1>1. DOMAIN task' = ProvProcs /\ \A q \in ProvProcs : task'[q] = IF q = p THEN s ELSE task[q]
  BY DEF TasksInv, Proceed
<1>. QED  BY <1>1 DEF TasksInv

\* A write: every list read before it is stale.
LEMMA OutdatedKeeps ==
  ASSUME TasksInv, NEW p \in ProvProcs, NEW s, Outdated(p, s),
         TaskShape(s), Sound(s, table', touched', contested'),
         touched \subseteq touched', contested \subseteq contested'
  PROVE  TasksInv'
<1>1. /\ DOMAIN task' = ProvProcs
      /\ \A q \in ProvProcs :
           task'[q] = IF q = p THEN s
                      ELSE IF task[q].pc \in {"marker", "seed", "relist", "install"}
                           THEN [task[q] EXCEPT !.fresh = FALSE] ELSE task[q]
  BY DEF Outdated
<1>2. ASSUME NEW q \in ProvProcs
      PROVE  TaskShape(task'[q]) /\ Sound(task'[q], table', touched', contested')
  <2>1. CASE q = p
    BY <1>1, <2>1
  <2>2. CASE q # p /\ task[q].pc \in {"marker", "seed", "relist", "install"}
    <3>1. DOMAIN task[q] = RowFields
      BY <2>2 DEF TasksInv, TaskShape
    <3>2. /\ DOMAIN task'[q] = RowFields /\ task'[q].fresh = FALSE
          /\ \A x \in RowFields : x # "fresh" => task'[q][x] = task[q][x]
      BY <1>1, <2>2, <3>1 DEF RowFields
    <3>3. task'[q].pc = task[q].pc /\ task'[q].blind = task[q].blind /\ task'[q].seen = task[q].seen
      BY <3>2 DEF RowFields, ListFields, LoadFields
    <3>4. Sound(task[q], table, touched, contested)
      BY DEF TasksInv
    <3>5. Sound(task'[q], table', touched', contested')
      BY <2>2, <3>2, <3>3, <3>4 DEF Sound
    <3>6. TaskShape(task'[q])
      BY <2>2, <3>2, <3>3 DEF TaskShape
    <3>. QED  BY <3>5, <3>6
  <2>3. CASE q # p /\ task[q].pc \notin {"marker", "seed", "relist", "install"}
    <3>1. task'[q] = task[q] /\ TaskShape(task[q]) /\ Sound(task[q], table, touched, contested)
      BY <1>1, <2>3 DEF TasksInv
    <3>. QED  BY <2>3, <3>1 DEF Sound
  <2>. QED  BY <2>1, <2>2, <2>3
<1>. QED  BY <1>1, <1>2 DEF TasksInv

\* A step that leaves the rows, the projects and the registry alone.
LEMMA QuietKeeps ==
  ASSUME ProvInv, TasksInv', marker => marker',
         UNCHANGED <<table, registry, projects, wanted, touched, contested, settled, excusedUses>>
  PROVE  ProvInv'
<1>1. TableInv'
  BY DEF ProvInv, TableInv
<1>2. UsesInv'
  BY DEF ProvInv, UsesInv, UsedPlatformStays
<1>3. RegistryTracks'
  BY DEF ProvInv, RegistryTracks
<1>. QED  BY <1>1, <1>2, <1>3 DEF ProvInv


\* A process with nothing to do, or about to load, has a sound task.
LEMMA RestingTask ==
  ASSUME NEW n, NEW then
  PROVE  /\ TaskShape(Waiting) /\ Sound(Waiting, table, touched, contested)
         /\ TaskShape(Load(then, n)) /\ Sound(Load(then, n), table, touched, contested)
         /\ Sound(Load(then, n), table', touched', contested')
<1>1. Waiting.pc = "idle" /\ Load(then, n).pc = "projects" /\ DOMAIN Load(then, n) = LoadFields
  BY DEF Waiting, Load, LoadFields
<1>. QED  BY <1>1 DEF TaskShape, Sound

\* Listing the projects in use keeps the invariant.
LEMMA ListProjectsStep ==
  ASSUME ProvInv, NEW p \in ProvProcs, ListProjects(p)
  PROVE  ProvInv'
<1>1. PICK uses : Proceed(p, Over([pc |-> "list", uses |-> uses, blind |-> FALSE], task[p]))
  BY DEF ListProjects
<1> DEFINE f == [pc |-> "list", uses |-> uses, blind |-> FALSE]
           s == Over(f, task[p])
<1>2. DOMAIN f = {"pc", "uses", "blind"} /\ f.pc = "list"
  OBVIOUS
<1> HIDE DEF f
<1>3. DOMAIN task[p] = LoadFields
  BY DEF ProvInv, TasksInv, TaskShape, ListProjects
<1>4. DOMAIN s = DOMAIN f \cup DOMAIN task[p] /\ s.pc = "list"
  <2>1. DOMAIN s = DOMAIN f \cup DOMAIN task[p] /\ \A x \in DOMAIN f : s[x] = f[x]
    BY OverFacts
  <2> HIDE DEF s
  <2>. QED  BY <1>2, <2>1
<1> HIDE DEF s
<1>5. TaskShape(s) /\ Sound(s, table, touched, contested)
  BY <1>2, <1>3, <1>4 DEF TaskShape, Sound, ListFields, LoadFields
<1>6. Proceed(p, s)
  BY <1>1 DEF s, f
<1>. QED  BY <1>5, <1>6, ProceedKeeps, QuietKeeps DEF ProvInv, ListProjects

\* Listing the definitions for an installation keeps the invariant.
LEMMA ListDefinitionsStep ==
  ASSUME ProvInv, NEW p \in ProvProcs, ListDefinitions(p)
  PROVE  ProvInv'
<1>1. PICK rows : Proceed(p, Over([pc |-> "marker", blind |-> rows # table, rows |-> rows, fresh |-> TRUE,
                                   seen |-> touched, todo |-> {}], task[p]))
  BY DEF ListDefinitions
<1> DEFINE f == [pc |-> "marker", blind |-> rows # table, rows |-> rows, fresh |-> TRUE,
                 seen |-> touched, todo |-> {}]
           s == Over(f, task[p])
<1>2. /\ DOMAIN f = {"pc", "blind", "rows", "fresh", "seen", "todo"}
      /\ f.pc = "marker" /\ f.rows = rows /\ f.seen = touched
  OBVIOUS
<1>3. f.blind = (rows # table)
  OBVIOUS
<1> HIDE DEF f
<1>4. DOMAIN task[p] = ListFields
  BY DEF ProvInv, TasksInv, TaskShape, ListDefinitions
<1>5. /\ DOMAIN s = DOMAIN f \cup DOMAIN task[p] /\ s.pc = "marker" /\ s.rows = rows /\ s.seen = touched
      /\ s.blind = f.blind
  <2>1. DOMAIN s = DOMAIN f \cup DOMAIN task[p] /\ \A x \in DOMAIN f : s[x] = f[x]
    BY OverFacts
  <2> HIDE DEF s
  <2>. QED  BY <1>2, <2>1
<1> HIDE DEF s
<1>6. ~s.blind => rows = table
  BY <1>3, <1>5
<1>7. TaskShape(s)
  BY <1>2, <1>4, <1>5 DEF TaskShape, RowFields, ListFields, LoadFields
<1>8. Sound(s, table, touched, contested)
  BY <1>5, <1>6 DEF Sound
<1>9. Proceed(p, s)
  BY <1>1 DEF s, f
<1>. QED  BY <1>7, <1>8, <1>9, ProceedKeeps, QuietKeeps DEF ProvInv, ListDefinitions

\* A load that finds the marker unset knows only of edits that are spoilt already.
LEMMA ReadMarkerStep ==
  ASSUME ProvInv, NEW p \in ProvProcs, ReadMarker(p)
  PROVE  ProvInv'
<1> DEFINE w == task[p]
           seed == [w EXCEPT !.pc = "seed", !.todo = Defaults \ DOMAIN w.rows]
           blind == [seed EXCEPT !.blind = TRUE]
           install == [w EXCEPT !.pc = "install"]
<1>1. /\ w.pc = "marker"
      /\ \/ ~marker /\ Proceed(p, seed)
         \/ Proceed(p, install)
         \/ Proceed(p, blind)
      /\ UNCHANGED <<table, marker, registry, projects, wanted, touched, contested, settled, excusedUses>>
  BY DEF ReadMarker, Unseeded
<1>2. DOMAIN w = RowFields /\ Sound(w, table, touched, contested)
  BY <1>1 DEF ProvInv, TasksInv, TaskShape
<1>3. {"pc", "blind", "rows", "fresh", "seen", "todo"} \subseteq RowFields
  BY DEF RowFields, ListFields, LoadFields
<1>4. /\ DOMAIN seed = RowFields /\ seed.pc = "seed" /\ seed.seen = w.seen
      /\ DOMAIN blind = RowFields /\ blind.pc = "seed" /\ blind.blind = TRUE
      /\ DOMAIN install = RowFields /\ install.pc = "install" /\ install.fresh = w.fresh
      /\ install.blind = w.blind /\ install.rows = w.rows
  BY <1>2, <1>3
<1> HIDE DEF seed, blind, install
<1>5. TaskShape(seed) /\ TaskShape(blind) /\ TaskShape(install)
  BY <1>4 DEF TaskShape
<1>6. Sound(blind, table, touched, contested) /\ Sound(install, table, touched, contested)
  BY <1>1, <1>2, <1>4 DEF Sound
<1>7. ~marker => Sound(seed, table, touched, contested)
  <2>1. w.seen \subseteq touched /\ (~marker => touched \subseteq contested)
    BY <1>1, <1>2 DEF Sound, ProvInv, TableInv
  <2>. QED  BY <1>4, <2>1 DEF Sound
<1>. QED  BY <1>1, <1>5, <1>6, <1>7, ProceedKeeps, QuietKeeps DEF ProvInv

\* Recording that the defaults were stored keeps the invariant.
LEMMA SetMarkerStep ==
  ASSUME ProvInv, NEW p \in ProvProcs, SetMarker(p)
  PROVE  ProvInv'
<1> DEFINE w == task[p]
           s == [w EXCEPT !.pc = "relist"]
<1>1. DOMAIN w = RowFields
  BY DEF ProvInv, TasksInv, TaskShape, SetMarker
<1>2. DOMAIN s = RowFields /\ s.pc = "relist"
  BY <1>1 DEF RowFields, ListFields, LoadFields
<1>3. Proceed(p, s)
  BY DEF SetMarker
<1> HIDE DEF s
<1>4. TaskShape(s) /\ Sound(s, table, touched, contested)
  BY <1>2 DEF TaskShape, Sound
<1>5. marker => marker'
  BY DEF SetMarker
<1>. QED  BY <1>3, <1>4, <1>5, ProceedKeeps, QuietKeeps DEF ProvInv, SetMarker

\* Listing the definitions after they were stored keeps the invariant.
LEMMA RelistStep ==
  ASSUME ProvInv, NEW p \in ProvProcs, Relist(p)
  PROVE  ProvInv'
<1>1. PICK rows : Proceed(p, [task[p] EXCEPT !.pc = "install", !.rows = rows, !.fresh = TRUE, !.blind = rows # table])
  BY DEF Relist
<1> DEFINE w == task[p]
           s == [w EXCEPT !.pc = "install", !.rows = rows, !.fresh = TRUE, !.blind = rows # table]
<1>2. DOMAIN w = RowFields
  BY DEF ProvInv, TasksInv, TaskShape, Relist
<1>3. DOMAIN s = RowFields /\ s.pc = "install" /\ s.rows = rows
  BY <1>2 DEF RowFields, ListFields, LoadFields
<1>4. s.blind = (rows # table)
  BY <1>2 DEF RowFields, ListFields, LoadFields
<1>5. Proceed(p, s)
  BY <1>1
<1> HIDE DEF s
<1>6. ~s.blind => rows = table
  BY <1>4
<1>7. TaskShape(s) /\ Sound(s, table, touched, contested)
  BY <1>3, <1>6 DEF TaskShape, Sound
<1>. QED  BY <1>5, <1>7, ProceedKeeps, QuietKeeps DEF ProvInv, Relist

\* The steps with which a load or request starts.
LEMMA BeginStep ==
  ASSUME ProvInv, NEW p \in ProvProcs, NEW n, NEW patch,
         \/ p = ProvRound /\ LoadAlone
         \/ handleSaveCustomProvider(p, n, patch) \/ RefuseSave(p, n) \/ handleDeleteCustomProvider(p, n)
  PROVE  ProvInv'
<1> DEFINE find == [pc |-> "find", name |-> n, patch |-> patch]
<1>1. TaskShape(find) /\ Sound(find, table, touched, contested)
  BY DEF TaskShape, Sound
<1> HIDE DEF find
<1>2. UNCHANGED <<table, marker, registry, projects, wanted, touched, contested, settled, excusedUses>>
  BY DEF LoadAlone, handleSaveCustomProvider, RefuseSave, handleDeleteCustomProvider, Begin
<1>3. UNCHANGED task \/ \E s : Proceed(p, s) /\ TaskShape(s) /\ Sound(s, table, touched, contested)
  <2>1. CASE p = ProvRound /\ LoadAlone
    BY <2>1, RestingTask DEF LoadAlone
  <2>2. CASE handleSaveCustomProvider(p, n, patch)
    BY <1>1, <2>2 DEF handleSaveCustomProvider, find
  <2>3. CASE RefuseSave(p, n)
    BY <2>3 DEF RefuseSave
  <2>4. CASE handleDeleteCustomProvider(p, n)
    BY <2>4, RestingTask DEF handleDeleteCustomProvider
  <2>. QED  BY <2>1, <2>2, <2>3, <2>4
<1>4. TasksInv'
  <2>1. CASE UNCHANGED task
    BY <1>2, <2>1 DEF ProvInv, TasksInv
  <2>. QED  BY <1>2, <1>3, <2>1, ProceedKeeps DEF ProvInv
<1>. QED  BY <1>2, <1>4, QuietKeeps


\* Looking up the definition that an edit replaces keeps the invariant.
LEMMA FindStep ==
  ASSUME ProvInv, NEW p \in ProvProcs, findCustomProvider(p)
  PROVE  ProvInv'
<1>1. PICK rows : Proceed(p, IF Complete(applyCustomProviderPatch(rows, task[p].name, task[p].patch))
                             THEN Over([pc |-> "upsert", row |-> applyCustomProviderPatch(rows, task[p].name, task[p].patch),
                                        read |-> rows], task[p]) ELSE Waiting)
  BY DEF findCustomProvider
<1> DEFINE w == task[p]
           target == applyCustomProviderPatch(rows, w.name, w.patch)
           f == [pc |-> "upsert", row |-> target, read |-> rows]
           s == Over(f, w)
<1>2. DOMAIN f = {"pc", "row", "read"} /\ f.pc = "upsert" /\ f.row = target /\ f.read = rows
  OBVIOUS
<1>3. DOMAIN w = {"pc", "name", "patch"}
  BY DEF ProvInv, TasksInv, TaskShape, findCustomProvider
<1>4. /\ DOMAIN s = {"pc", "name", "patch", "row", "read"} /\ s.pc = "upsert" /\ s.row = target /\ s.read = rows
      /\ s.name = w.name /\ s.patch = w.patch
  <2>1. /\ DOMAIN s = DOMAIN f \cup DOMAIN w /\ \A x \in DOMAIN f : s[x] = f[x]
        /\ \A x \in DOMAIN w : x \notin DOMAIN f => s[x] = w[x]
    BY OverFacts
  <2> HIDE DEF s, f, target
  <2>. QED  BY <1>2, <1>3, <2>1
<1>5. Proceed(p, IF Complete(target) THEN s ELSE Waiting)
  BY <1>1
<1>6. target = applyCustomProviderPatch(s.read, s.name, s.patch)
  BY <1>4
<1> HIDE DEF s, f, target
<1>7. TaskShape(s) /\ (Complete(target) => Sound(s, table, touched, contested))
  BY <1>4, <1>6 DEF TaskShape, Sound
<1>8. TasksInv'
  <2>1. CASE Complete(target)
    BY <1>5, <1>7, <2>1, ProceedKeeps DEF ProvInv, findCustomProvider
  <2>2. CASE ~Complete(target)
    BY <1>5, <2>2, RestingTask, ProceedKeeps DEF ProvInv, findCustomProvider
  <2>. QED  BY <2>1, <2>2
<1>. QED  BY <1>8, QuietKeeps DEF findCustomProvider

\* A load that read everything and was overtaken by no write registers the table.
LEMMA InstallStep ==
  ASSUME ProvInv, NEW p \in ProvProcs, Install(p)
  PROVE  ProvInv'
<1> DEFINE w == task[p]
           s == [pc |-> "erase", name |-> w.name, uses |-> w.uses]
<1>1. /\ w.pc = "install" /\ settled' = (w.fresh /\ ~w.blind)
      /\ registry' = [n \in {m \in DOMAIN w.rows : Complete(w.rows[m])} |-> w.rows[n]]
      /\ Proceed(p, IF w.then = "erase" /\ Deletable(w) THEN s ELSE Waiting)
      /\ UNCHANGED <<table, marker, projects, wanted, touched, contested, excusedUses>>
  BY DEF Install, ReplaceDynamic
<1>2. TaskShape(s) /\ (Deletable(w) => Sound(s, table, touched, contested))
  BY DEF TaskShape, Sound, Deletable
<1>3. TasksInv'
  <2> HIDE DEF s
  <2>1. CASE w.then = "erase" /\ Deletable(w)
    BY <1>1, <1>2, <2>1, ProceedKeeps DEF ProvInv
  <2>2. CASE ~(w.then = "erase" /\ Deletable(w))
    BY <1>1, <2>2, RestingTask, ProceedKeeps DEF ProvInv
  <2>. QED  BY <2>1, <2>2
<1>4. TableInv' /\ UsesInv'
  BY <1>1 DEF ProvInv, TableInv, UsesInv, UsedPlatformStays
<1>5. RegistryTracks'
  <2> SUFFICES ASSUME settled'  PROVE registry' = table
    BY <1>1 DEF RegistryTracks
  <2>1. w.fresh /\ ~w.blind
    BY <1>1
  <2>2. w.rows = table
    BY <1>1, <2>1 DEF ProvInv, TasksInv, Sound
  <2>3. {m \in DOMAIN table : Complete(table[m])} = DOMAIN table
    BY DEF ProvInv, TableInv
  <2>4. registry' = [n \in DOMAIN table |-> table[n]]
    BY <1>1, <2>2, <2>3
  <2>. QED  BY <2>4 DEF ProvInv, TableInv
<1>. QED  BY <1>3, <1>4, <1>5 DEF ProvInv

\* What the table holds after a definition was stored.
LEMMA UpsertFacts ==
  ASSUME NEW rows, NEW n, NEW def
  PROVE  UpsertCustomProvider(rows, n, def) = [m \in DOMAIN rows \cup {n} |-> IF m = n THEN def ELSE rows[m]]
<1>1. DOMAIN Entry(n, def) = {n} /\ Entry(n, def)[n] = def
  BY DEF Entry
<1>. QED  BY <1>1 DEF UpsertCustomProvider, Over

\* A seeded row is the one wanted, unless it undoes an edit that is then spoilt.
LEMMA SeedStep ==
  ASSUME ProvInv, NEW p \in ProvProcs, NEW n \in Defaults, SeedDefault(p, n)
  PROVE  ProvInv'
<1> DEFINE w == task[p]
           s == [w EXCEPT !.todo = @ \ {n}]
<1>1. /\ w.pc = "seed"
      /\ \/ /\ table' = UpsertCustomProvider(table, n, Shipped) /\ settled' = FALSE /\ Outdated(p, s)
            /\ contested' = IF n \in touched /\ (w.blind \/ n \notin w.seen)
                            THEN contested \cup {n} ELSE contested
            /\ wanted' = IF n \in touched THEN wanted ELSE UpsertCustomProvider(wanted, n, Shipped)
         \/ Proceed(p, s) /\ UNCHANGED <<table, wanted, contested, settled>>
      /\ UNCHANGED <<marker, registry, projects, touched, excusedUses>>
  BY DEF SeedDefault
<1>2. DOMAIN w = RowFields /\ Sound(w, table, touched, contested)
  BY <1>1 DEF ProvInv, TasksInv, TaskShape
<1>3. DOMAIN s = RowFields /\ s.pc = "seed" /\ s.seen = w.seen /\ s.blind = w.blind
  BY <1>1, <1>2 DEF RowFields, ListFields, LoadFields
<1> HIDE DEF s
<1>4. TaskShape(s)
  BY <1>3 DEF TaskShape
<1>5. ~w.blind => w.seen \subseteq contested
  BY <1>1, <1>2 DEF Sound
<1>6. CASE Proceed(p, s) /\ UNCHANGED <<table, wanted, contested, settled>>
  <2>1. Sound(s, table, touched, contested)
    BY <1>3, <1>5 DEF Sound
  <2>. QED  BY <1>1, <1>4, <1>6, <2>1, ProceedKeeps, QuietKeeps DEF ProvInv
<1>7. CASE /\ table' = UpsertCustomProvider(table, n, Shipped) /\ settled' = FALSE /\ Outdated(p, s)
           /\ contested' = IF n \in touched /\ (w.blind \/ n \notin w.seen)
                           THEN contested \cup {n} ELSE contested
           /\ wanted' = IF n \in touched THEN wanted ELSE UpsertCustomProvider(wanted, n, Shipped)
  <2>1. contested \subseteq contested' /\ (n \in touched => n \in contested')
    BY <1>5, <1>7
  <2>2. Sound(s, table', touched', contested')
    BY <1>3, <1>5, <2>1 DEF Sound
  <2>3. TasksInv'
    BY <1>1, <1>4, <1>7, <2>1, <2>2, OutdatedKeeps DEF ProvInv
  <2>4. /\ DOMAIN table' = DOMAIN table \cup {n} /\ table'[n] = Shipped
        /\ \A m \in DOMAIN table : m # n => table'[m] = table[m]
        /\ table' = [m \in DOMAIN table' |-> table'[m]]
    <3>1. table' = [m \in DOMAIN table \cup {n} |-> IF m = n THEN Shipped ELSE table[m]]
      BY <1>7, UpsertFacts
    <3>. QED  BY <3>1
  <2>5. TableInv'
    <3>1. Complete(Shipped)
      BY DEF Complete, Shipped
    <3>2. ASSUME NEW m, m \notin contested'  PROVE AsWanted(m, table', wanted')
      <4>1. AsWanted(m, table, wanted)
        BY <2>1, <3>2 DEF ProvInv, TableInv
      <4>2. CASE n \in touched
        <5>1. m # n /\ wanted' = wanted
          BY <1>7, <2>1, <3>2, <4>2
        <5>. QED  BY <2>4, <4>1, <5>1 DEF AsWanted, InTable
      <4>3. CASE n \notin touched
        <5>1. /\ DOMAIN wanted' = DOMAIN wanted \cup {n} /\ wanted'[n] = Shipped
              /\ \A k \in DOMAIN wanted : k # n => wanted'[k] = wanted[k]
          <6>1. wanted' = [k \in DOMAIN wanted \cup {n} |-> IF k = n THEN Shipped ELSE wanted[k]]
            BY <1>7, <4>3, UpsertFacts
          <6>. QED  BY <6>1
        <5>. QED  BY <2>4, <4>1, <5>1 DEF AsWanted, InTable
      <4>. QED  BY <4>2, <4>3
    <3>3. \A m \in DOMAIN table' : Complete(table'[m])
      BY <2>4, <3>1 DEF ProvInv, TableInv
    <3>4. ~marker' => touched' \subseteq contested'
      BY <1>1, <2>1 DEF ProvInv, TableInv
    <3>. QED  BY <2>4, <3>2, <3>3, <3>4 DEF TableInv
  <2>6. UsesInv'
    BY <1>1, <2>4 DEF ProvInv, UsesInv, UsedPlatformStays, InTable
  <2>7. RegistryTracks'
    BY <1>7 DEF RegistryTracks
  <2>. QED  BY <2>3, <2>5, <2>6, <2>7 DEF ProvInv
<1>. QED  BY <1>1, <1>6, <1>7


\* A saved row is the one wanted, unless the row it was made from has changed since.
LEMMA SaveStep ==
  ASSUME ProvInv, NEW p \in ProvProcs, SaveDefinition(p)
  PROVE  ProvInv'
<1> DEFINE w == task[p]
           n == w.name
           Old(rows) == IF InTable(rows, n) THEN {rows[n]} ELSE {}
           made == applyCustomProviderPatch(wanted, n, w.patch)
<1>1. /\ w.pc = "upsert"
      /\ \/ /\ table' = UpsertCustomProvider(table, n, w.row) /\ wanted' = UpsertCustomProvider(wanted, n, made)
            /\ touched' = touched \cup {n} /\ settled' = FALSE /\ Outdated(p, Load("done", n))
            /\ contested' = IF ~marker \/ Old(w.read) # Old(table) THEN contested \cup {n} ELSE contested
         \/ Proceed(p, Waiting) /\ UNCHANGED <<table, wanted, touched, contested, settled>>
      /\ UNCHANGED <<marker, registry, projects, excusedUses>>
  BY DEF SaveDefinition
<1>2. CASE Proceed(p, Waiting) /\ UNCHANGED <<table, wanted, touched, contested, settled>>
  BY <1>1, <1>2, RestingTask, ProceedKeeps, QuietKeeps DEF ProvInv
<1>3. CASE /\ table' = UpsertCustomProvider(table, n, w.row) /\ wanted' = UpsertCustomProvider(wanted, n, made)
           /\ touched' = touched \cup {n} /\ settled' = FALSE /\ Outdated(p, Load("done", n))
           /\ contested' = IF ~marker \/ Old(w.read) # Old(table) THEN contested \cup {n} ELSE contested
  <2>1. contested \subseteq contested' /\ touched \subseteq touched'
    BY <1>3
  <2>2. TasksInv'
    BY <1>3, <2>1, RestingTask, OutdatedKeeps DEF ProvInv
  <2>3. Complete(w.row) /\ w.row = applyCustomProviderPatch(w.read, n, w.patch)
    BY <1>1 DEF ProvInv, TasksInv, Sound
  <2>4. /\ table' = [m \in DOMAIN table \cup {n} |-> IF m = n THEN w.row ELSE table[m]]
        /\ wanted' = [m \in DOMAIN wanted \cup {n} |-> IF m = n THEN made ELSE wanted[m]]
    BY <1>3, UpsertFacts
  <2>5. n \notin contested' => w.row = made
    <3> SUFFICES ASSUME n \notin contested'  PROVE w.row = made
      OBVIOUS
    <3>1. Old(w.read) = Old(table) /\ n \notin contested
      BY <1>3
    <3>2. AsWanted(n, table, wanted)
      BY <3>1 DEF ProvInv, TableInv
    <3>3. (InTable(w.read, n) <=> InTable(wanted, n)) /\ (InTable(w.read, n) => w.read[n] = wanted[n])
      BY <3>1, <3>2 DEF AsWanted
    <3>. QED  BY <2>3, <3>3 DEF applyCustomProviderPatch
  <2>6. ~marker' => touched' \subseteq contested'
    BY <1>1, <1>3 DEF ProvInv, TableInv
  <2> HIDE DEF w, n, made
  <2>7. TableInv'
    <3>1. ASSUME NEW m, m \notin contested'  PROVE AsWanted(m, table', wanted')
      <4>1. AsWanted(m, table, wanted)
        BY <2>1, <3>1 DEF ProvInv, TableInv
      <4>2. CASE m = n
        BY <2>4, <2>5, <3>1, <4>2 DEF AsWanted, InTable
      <4>3. CASE m # n
        BY <2>4, <4>1, <4>3 DEF AsWanted, InTable
      <4>. QED  BY <4>2, <4>3
    <3>2. \A m \in DOMAIN table' : Complete(table'[m])
      BY <2>3, <2>4 DEF ProvInv, TableInv
    <3>. QED  BY <2>4, <2>6, <3>1, <3>2 DEF TableInv
  <2>8. UsesInv'
    BY <1>1, <2>4 DEF ProvInv, UsesInv, UsedPlatformStays, InTable
  <2>9. RegistryTracks'
    BY <1>3 DEF RegistryTracks
  <2>. QED  BY <2>2, <2>7, <2>8, <2>9 DEF ProvInv
<1>. QED  BY <1>1, <1>2, <1>3

\* A row is erased only when the list of projects that was read names it nowhere.
LEMMA EraseStep ==
  ASSUME ProvInv, NEW p \in ProvProcs, EraseDefinition(p)
  PROVE  ProvInv'
<1> DEFINE w == task[p]
           n == w.name
<1>1. /\ w.pc = "erase"
      /\ \/ /\ table' = [m \in DOMAIN table \ {n} |-> table[m]] /\ wanted' = [m \in DOMAIN wanted \ {n} |-> wanted[m]]
            /\ touched' = touched \cup {n} /\ settled' = FALSE /\ Outdated(p, Load("done", n))
            /\ contested' = IF marker THEN contested ELSE contested \cup {n}
            /\ excusedUses' = excusedUses \cup
                 {use \in projects : use.name = n /\ (use.form = "bare" \/ use \notin w.uses)}
         \/ Proceed(p, Waiting) /\ UNCHANGED <<table, wanted, touched, contested, excusedUses, settled>>
      /\ UNCHANGED <<marker, registry, projects>>
  BY DEF EraseDefinition, DeleteCustomProvider
<1>2. CASE Proceed(p, Waiting) /\ UNCHANGED <<table, wanted, touched, contested, excusedUses, settled>>
  BY <1>1, <1>2, RestingTask, ProceedKeeps, QuietKeeps DEF ProvInv
<1>3. CASE /\ table' = [m \in DOMAIN table \ {n} |-> table[m]] /\ wanted' = [m \in DOMAIN wanted \ {n} |-> wanted[m]]
           /\ touched' = touched \cup {n} /\ settled' = FALSE /\ Outdated(p, Load("done", n))
           /\ contested' = IF marker THEN contested ELSE contested \cup {n}
           /\ excusedUses' = excusedUses \cup
                {use \in projects : use.name = n /\ (use.form = "bare" \/ use \notin w.uses)}
  <2>1. contested \subseteq contested' /\ touched \subseteq touched'
    BY <1>3
  <2>2. TasksInv'
    BY <1>3, <2>1, RestingTask, OutdatedKeeps DEF ProvInv
  <2>3. [name |-> n, form |-> "custom"] \notin w.uses
    BY <1>1 DEF ProvInv, TasksInv, Sound
  <2>4. ~marker' => touched' \subseteq contested'
    BY <1>1, <1>3 DEF ProvInv, TableInv
  <2> HIDE DEF w, n
  <2>5. TableInv'
    <3>1. ASSUME NEW m, m \notin contested'  PROVE AsWanted(m, table', wanted')
      <4>1. AsWanted(m, table, wanted)
        BY <2>1, <3>1 DEF ProvInv, TableInv
      <4>. QED  BY <1>3, <4>1 DEF AsWanted, InTable
    <3>2. \A m \in DOMAIN table' : Complete(table'[m])
      BY <1>3 DEF ProvInv, TableInv
    <3>. QED  BY <1>3, <2>4, <3>1, <3>2 DEF TableInv
  <2>6. UsesInv'
    <3> SUFFICES ASSUME NEW use \in projects \ excusedUses'
                 PROVE  InTable(table', use.name)
      BY <1>1 DEF ProvInv, UsesInv, UsedPlatformStays
    <3>1. InTable(table, use.name)
      BY <1>3 DEF ProvInv, UsesInv, UsedPlatformStays
    <3>2. use = [name |-> use.name, form |-> use.form] /\ use.form \in {"bare", "custom"}
      BY DEF ProvInv, UsesInv
    <3>3. ASSUME use.name = n  PROVE FALSE
      <4>1. use.form # "bare" /\ use \in w.uses
        BY <1>3, <3>3
      <4>2. use = [name |-> n, form |-> "custom"]
        BY <3>2, <3>3, <4>1
      <4>. QED  BY <2>3, <4>1, <4>2
    <3>. QED  BY <1>3, <3>1, <3>3 DEF InTable
  <2>7. RegistryTracks'
    BY <1>3 DEF RegistryTracks
  <2>. QED  BY <2>2, <2>5, <2>6, <2>7 DEF ProvInv
<1>. QED  BY <1>1, <1>2, <1>3

\* Adding a project keeps the invariant.
LEMMA AddProjectStep ==
  ASSUME ProvInv, NEW n, NEW form \in {"bare", "custom"}, AddProject(n, form)
  PROVE  ProvInv'
<1> DEFINE project == [name |-> n, form |-> form]
<1>1. /\ projects' = projects \cup {project}
      /\ excusedUses' = IF InTable(table, n) THEN excusedUses ELSE excusedUses \cup {project}
      /\ UNCHANGED <<table, marker, registry, task, wanted, touched, contested, settled>>
  BY DEF AddProject
<1>2. project.name = n /\ project = [name |-> project.name, form |-> project.form] /\ project.form \in {"bare", "custom"}
  OBVIOUS
<1> HIDE DEF project
<1>3. UsesInv'
  BY <1>1, <1>2 DEF ProvInv, UsesInv, UsedPlatformStays
<1>4. TasksInv' /\ TableInv' /\ RegistryTracks'
  BY <1>1 DEF ProvInv, TasksInv, TableInv, RegistryTracks
<1>. QED  BY <1>3, <1>4 DEF ProvInv

\* A restart keeps the invariant.
LEMMA RestartProvidersStep ==
  ASSUME ProvInv, RestartProviders
  PROVE  ProvInv'
<1>1. /\ task' = [p \in ProvProcs |-> Waiting] /\ settled' = FALSE
      /\ UNCHANGED <<table, marker, projects, wanted, touched, contested, excusedUses>>
  BY DEF RestartProviders
<1>2. TaskShape(Waiting) /\ Sound(Waiting, table, touched, contested)
  BY RestingTask
<1>3. TasksInv'
  BY <1>1, <1>2 DEF TasksInv
<1>4. TableInv' /\ UsesInv' /\ RegistryTracks'
  BY <1>1 DEF ProvInv, TableInv, UsesInv, UsedPlatformStays, RegistryTracks
<1>. QED  BY <1>3, <1>4 DEF ProvInv

\* The invariant of the definitions holds when the server starts.
LEMMA ProvStart == ProvInit => ProvInv
<1> SUFFICES ASSUME ProvInit  PROVE ProvInv
  OBVIOUS
<1>1. TasksInv
  BY RestingTask DEF ProvInit, TasksInv
<1>2. table = <<>> /\ wanted = <<>> /\ DOMAIN table = {} /\ touched = {} /\ projects = {} /\ settled = FALSE
  BY DEF ProvInit
<1>3. table = [n \in DOMAIN table |-> table[n]]
  BY <1>2
<1>4. TableInv
  BY <1>2, <1>3 DEF TableInv, AsWanted, InTable
<1>. QED  BY <1>1, <1>2, <1>4 DEF ProvInv, UsesInv, UsedPlatformStays, RegistryTracks

\* Every step keeps the invariant of the definitions.
LEMMA ProvPreserved == ProvInv /\ [ProvNext]_ProvVars => ProvInv'
<1> SUFFICES ASSUME ProvInv, [ProvNext]_ProvVars  PROVE ProvInv'
  OBVIOUS
<1>1. CASE LoadAlone
  BY <1>1, BeginStep DEF ProvProcs
<1>2. CASE RestartProviders
  BY <1>2, RestartProvidersStep
<1>3. ASSUME NEW p \in ProvProcs, ListProjects(p) \/ ListDefinitions(p) \/ ReadMarker(p)
  PROVE ProvInv'
  BY <1>3, ListProjectsStep, ListDefinitionsStep, ReadMarkerStep
<1>4. ASSUME NEW p \in ProvProcs, (\E n \in Defaults : SeedDefault(p, n)) \/ SetMarker(p) \/ Relist(p) \/ Install(p)
  PROVE ProvInv'
  BY <1>4, SeedStep, SetMarkerStep, RelistStep, InstallStep
<1>5. ASSUME NEW p \in ProvPages, NEW n \in ProvNames,
             \/ \E patch \in Requests : handleSaveCustomProvider(p, n, patch)
             \/ RefuseSave(p, n) \/ handleDeleteCustomProvider(p, n)
  PROVE ProvInv'
  BY <1>5, BeginStep DEF ProvProcs
<1>6. ASSUME NEW p \in ProvPages, findCustomProvider(p) \/ SaveDefinition(p) \/ EraseDefinition(p)
  PROVE ProvInv'
  BY <1>6, FindStep, SaveStep, EraseStep DEF ProvProcs
<1>7. ASSUME NEW n, NEW form \in {"bare", "custom"}, AddProject(n, form)  PROVE ProvInv'
  BY <1>7, AddProjectStep
<1>8. CASE UNCHANGED ProvVars
  BY <1>8 DEF ProvVars, ProvInv, TasksInv, TableInv, UsesInv, UsedPlatformStays, RegistryTracks
<1>. QED  BY <1>1, <1>2, <1>3, <1>4, <1>5, <1>6, <1>7, <1>8 DEF ProvNext

\* The invariant holds for any defaults, pages, edits, failures and restarts, with
\* every database call of a Resolver.Load or a request a step of its own.
THEOREM ProvInvariance == ProvSpec => []ProvInv
<1>. QED  BY ProvStart, ProvPreserved, PTL DEF ProvSpec

\* Names stay accounted for by a step of one task that loses none.
LEMMA ProceedSows ==
  ASSUME TasksInv, SowingInv, NEW p \in ProvProcs, NEW s, NEW names, Proceed(p, s),
         Accounted \subseteq names, Sowing(s, names)
  PROVE  \A q \in ProvProcs : Sowing(task'[q], names)
<1>1. \A q \in ProvProcs : task'[q] = IF q = p THEN s ELSE task[q]
  BY DEF TasksInv, Proceed
<1>2. ASSUME NEW q \in ProvProcs  PROVE Sowing(task[q], names)
  BY DEF SowingInv, Sowing
<1>. QED  BY <1>1, <1>2

\* So they do by a write that makes the lists of the others stale.
LEMMA OutdatedSows ==
  ASSUME TasksInv, SowingInv, NEW p \in ProvProcs, NEW s, NEW names, Outdated(p, s),
         Accounted \subseteq names, Sowing(s, names)
  PROVE  \A q \in ProvProcs : Sowing(task'[q], names)
<1>1. \A q \in ProvProcs :
        task'[q] = IF q = p THEN s
                   ELSE IF task[q].pc \in {"marker", "seed", "relist", "install"}
                        THEN [task[q] EXCEPT !.fresh = FALSE] ELSE task[q]
  BY DEF Outdated
<1>2. ASSUME NEW q \in ProvProcs, q # p  PROVE Sowing(task'[q], names)
  <2>1. Sowing(task[q], names)
    BY DEF SowingInv, Sowing
  <2>2. CASE task[q].pc \in {"marker", "seed", "relist", "install"}
    <3>1. DOMAIN task[q] = RowFields
      BY <2>2 DEF TasksInv, TaskShape
    <3>2. \A x \in RowFields : x # "fresh" => task'[q][x] = task[q][x]
      BY <1>1, <1>2, <2>2, <3>1
    <3>3. task'[q].pc = task[q].pc /\ task'[q].rows = task[q].rows /\ task'[q].todo = task[q].todo
      BY <3>2 DEF RowFields, ListFields, LoadFields
    <3>. QED  BY <2>1, <3>3 DEF Sowing
  <2>3. CASE task[q].pc \notin {"marker", "seed", "relist", "install"}
    BY <1>1, <1>2, <2>1, <2>3
  <2>. QED  BY <2>2, <2>3
<1>. QED  BY <1>1, <1>2

\* A load that takes its list counts on rows that are there...
LEMMA ListSows ==
  ASSUME ProvInv, SeedInv, NEW p \in ProvProcs, ListDefinitions(p)
  PROVE  SeedInv'
<1>1. PICK rows \in {table, <<>>} :
        Proceed(p, Over([pc |-> "marker", blind |-> rows # table, rows |-> rows, fresh |-> TRUE,
                         seen |-> touched, todo |-> {}], task[p]))
  BY DEF ListDefinitions
<1> DEFINE f == [pc |-> "marker", blind |-> rows # table, rows |-> rows, fresh |-> TRUE,
                 seen |-> touched, todo |-> {}]
           s == Over(f, task[p])
<1>2. s.pc = "marker" /\ s.rows = rows
  <2>1. {"pc", "rows"} \subseteq DOMAIN f /\ f.pc = "marker" /\ f.rows = rows
    OBVIOUS
  <2> HIDE DEF f
  <2>2. \A x \in DOMAIN f : s[x] = f[x]
    BY OverFacts
  <2> HIDE DEF s
  <2>. QED  BY <2>1, <2>2
<1>3. Proceed(p, s)
  BY <1>1
<1> HIDE DEF f, s
<1>4. DOMAIN rows \subseteq DOMAIN table
  BY <1>1
<1>5. Sowing(s, Accounted)
  BY <1>2, <1>4 DEF Sowing, Accounted
<1>6. UNCHANGED <<table, marker, touched, skipped>>
  BY DEF ListDefinitions
<1>7. \A q \in ProvProcs : Sowing(task'[q], Accounted)
  BY <1>3, <1>5, ProceedSows DEF ProvInv, SeedInv
<1>. QED  BY <1>6, <1>7 DEF SeedInv, SowingInv, Accounted, DefaultsSeeded, InTable

\* ...and goes on to seed the defaults that are not in it.
LEMMA ReadMarkerSows ==
  ASSUME ProvInv, SeedInv, NEW p \in ProvProcs, ReadMarker(p)
  PROVE  SeedInv'
<1> DEFINE w == task[p]
           seed == [w EXCEPT !.pc = "seed", !.todo = Defaults \ DOMAIN w.rows]
           blind == [seed EXCEPT !.blind = TRUE]
           install == [w EXCEPT !.pc = "install"]
<1>1. /\ w.pc = "marker"
      /\ Proceed(p, seed) \/ Proceed(p, install) \/ Proceed(p, blind)
      /\ UNCHANGED <<table, marker, touched, skipped>>
  BY DEF ReadMarker
<1>2. DOMAIN w = RowFields /\ Defaults \cap DOMAIN w.rows \subseteq Accounted
  BY <1>1 DEF ProvInv, TasksInv, TaskShape, SeedInv, SowingInv, Sowing
<1>3. {"pc", "blind", "todo"} \subseteq RowFields
  BY DEF RowFields, ListFields, LoadFields
<1>4. /\ seed.pc = "seed" /\ seed.todo = Defaults \ DOMAIN w.rows
      /\ blind.pc = "seed" /\ blind.todo = Defaults \ DOMAIN w.rows
      /\ install.pc = "install"
  BY <1>2, <1>3
<1> HIDE DEF seed, blind, install, w
<1>5. Sowing(seed, Accounted) /\ Sowing(blind, Accounted) /\ Sowing(install, Accounted)
  BY <1>2, <1>4 DEF Sowing
<1>6. \A q \in ProvProcs : Sowing(task'[q], Accounted)
  BY <1>1, <1>5, ProceedSows DEF ProvInv, SeedInv
<1>. QED  BY <1>1, <1>6 DEF SeedInv, SowingInv, Accounted, DefaultsSeeded, InTable

\* A default that a load tried to store is accounted for, whatever became of it.
LEMMA SeedSows ==
  ASSUME ProvInv, SeedInv, NEW p \in ProvProcs, NEW n \in Defaults, SeedDefault(p, n)
  PROVE  SeedInv'
<1> DEFINE w == task[p]
           s == [w EXCEPT !.todo = @ \ {n}]
<1>1. /\ w.pc = "seed"
      /\ \/ /\ table' = UpsertCustomProvider(table, n, Shipped) /\ Outdated(p, s)
            /\ skipped' = skipped \ {n}
         \/ /\ Proceed(p, s) /\ table' = table
            /\ skipped' = IF InTable(table, n) THEN skipped ELSE skipped \cup {n}
      /\ UNCHANGED <<marker, touched>>
  BY DEF SeedDefault
<1>2. DOMAIN w = RowFields /\ Defaults \ w.todo \subseteq Accounted
  BY <1>1 DEF ProvInv, TasksInv, TaskShape, SeedInv, SowingInv, Sowing
<1>3. s.pc = "seed" /\ s.todo = w.todo \ {n}
  BY <1>1, <1>2 DEF RowFields, ListFields, LoadFields
<1>4. table' = UpsertCustomProvider(table, n, Shipped) => DOMAIN table' = DOMAIN table \cup {n}
  BY UpsertFacts
<1> HIDE DEF s
<1>5. Accounted \cup {n} \subseteq Accounted'
  BY <1>1, <1>4 DEF Accounted, InTable
<1>6. Sowing(s, Accounted')
  BY <1>2, <1>3, <1>5 DEF Sowing
<1>7. \A q \in ProvProcs : Sowing(task'[q], Accounted')
  BY <1>1, <1>5, <1>6, ProceedSows, OutdatedSows DEF ProvInv, SeedInv
<1>8. DefaultsSeeded'
  BY <1>1, <1>5 DEF SeedInv, DefaultsSeeded, Accounted, InTable
<1>. QED  BY <1>7, <1>8 DEF SeedInv, SowingInv

\* The marker is set when the load is done with every default.
LEMMA SetMarkerSows ==
  ASSUME ProvInv, SeedInv, NEW p \in ProvProcs, SetMarker(p)
  PROVE  SeedInv'
<1> DEFINE w == task[p]
           s == [w EXCEPT !.pc = "relist"]
<1>1. w.pc = "seed" /\ w.todo = {} /\ Proceed(p, s) /\ UNCHANGED <<table, touched, skipped>>
  BY DEF SetMarker
<1>2. DOMAIN w = RowFields /\ Defaults \subseteq Accounted
  BY <1>1 DEF ProvInv, TasksInv, TaskShape, SeedInv, SowingInv, Sowing
<1>3. s.pc = "relist"
  BY <1>2 DEF RowFields, ListFields, LoadFields
<1> HIDE DEF s
<1>4. \A q \in ProvProcs : Sowing(task'[q], Accounted)
  <2>1. Sowing(s, Accounted)
    BY <1>3 DEF Sowing
  <2>. QED  BY <1>1, <2>1, ProceedSows DEF ProvInv, SeedInv
<1>. QED  BY <1>1, <1>2, <1>4 DEF SeedInv, SowingInv, Accounted, DefaultsSeeded, InTable

\* What the page writes or erases is accounted for from then on.
LEMMA EditSows ==
  ASSUME ProvInv, SeedInv, NEW p \in ProvProcs, SaveDefinition(p) \/ EraseDefinition(p)
  PROVE  SeedInv'
<1> DEFINE n == task[p].name
<1>1. /\ \/ /\ \/ table' = UpsertCustomProvider(table, n, task[p].row)
               \/ table' = DeleteCustomProvider(table, n)
            /\ touched' = touched \cup {n}
            /\ Outdated(p, Load("done", n))
         \/ Proceed(p, Waiting) /\ UNCHANGED <<table, touched>>
      /\ UNCHANGED <<marker, skipped>>
  BY DEF SaveDefinition, EraseDefinition
<1>2. /\ table' = UpsertCustomProvider(table, n, task[p].row) => DOMAIN table \subseteq DOMAIN table'
      /\ table' = DeleteCustomProvider(table, n) => DOMAIN table \subseteq DOMAIN table' \cup {n}
  BY UpsertFacts DEF DeleteCustomProvider
<1> HIDE DEF n
<1>3. Accounted \subseteq Accounted'
  BY <1>1, <1>2 DEF Accounted
<1>4. Sowing(Load("done", n), Accounted') /\ Sowing(Waiting, Accounted')
  BY DEF Sowing, Load, Waiting
<1>5. \A q \in ProvProcs : Sowing(task'[q], Accounted')
  BY <1>1, <1>3, <1>4, ProceedSows, OutdatedSows DEF ProvInv, SeedInv
<1>6. DefaultsSeeded'
  BY <1>1, <1>3 DEF SeedInv, DefaultsSeeded, Accounted, InTable
<1>. QED  BY <1>5, <1>6 DEF SeedInv, SowingInv

\* Every other step of a task leaves the seeding alone.
LEMMA QuietSows ==
  ASSUME ProvInv, SeedInv, NEW p \in ProvProcs, NEW s, Proceed(p, s), s.pc \notin {"marker", "seed"},
         UNCHANGED <<table, marker, touched, skipped>>
  PROVE  SeedInv'
<1>1. Sowing(s, Accounted)
  BY DEF Sowing
<1>2. \A q \in ProvProcs : Sowing(task'[q], Accounted)
  BY <1>1, ProceedSows DEF ProvInv, SeedInv
<1>. QED  BY <1>2 DEF SeedInv, SowingInv, Accounted, DefaultsSeeded, InTable

\* The steps of a load that write nothing.
LEMMA LoadSows ==
  ASSUME ProvInv, SeedInv, NEW p \in ProvProcs, ListProjects(p) \/ Relist(p) \/ Install(p)
  PROVE  SeedInv'
<1> DEFINE w == task[p]
<1>1. UNCHANGED <<table, marker, touched, skipped>>
  BY DEF ListProjects, Relist, Install
<1>2. CASE ListProjects(p)
  <2>1. PICK uses : Proceed(p, Over([pc |-> "list", uses |-> uses, blind |-> FALSE], w))
    BY <1>2 DEF ListProjects
  <2> DEFINE f == [pc |-> "list", uses |-> uses, blind |-> FALSE]
  <2>2. "pc" \in DOMAIN f /\ f.pc = "list"
    OBVIOUS
  <2>3. Proceed(p, Over(f, w))
    BY <2>1
  <2> HIDE DEF f, w
  <2>4. Over(f, w).pc = "list"
    <3>1. \A x \in DOMAIN f : Over(f, w)[x] = f[x]
      BY OverFacts
    <3>. QED  BY <2>2, <3>1
  <2>. QED  BY <1>1, <2>3, <2>4, QuietSows
<1>3. CASE Relist(p)
  <2>1. PICK rows : Proceed(p, [w EXCEPT !.pc = "install", !.rows = rows, !.fresh = TRUE, !.blind = rows # table])
    BY <1>3 DEF Relist
  <2>2. DOMAIN w = RowFields
    BY <1>3 DEF ProvInv, TasksInv, TaskShape, Relist
  <2>3. [w EXCEPT !.pc = "install", !.rows = rows, !.fresh = TRUE, !.blind = rows # table].pc = "install"
    BY <2>2 DEF RowFields, ListFields, LoadFields
  <2> HIDE DEF w
  <2>. QED  BY <1>1, <2>1, <2>3, QuietSows
<1>4. CASE Install(p)
  <2>1. PICK s : Proceed(p, s) /\ s \in {[pc |-> "erase", name |-> w.name, uses |-> w.uses], Waiting}
    BY <1>4 DEF Install
  <2>2. s.pc \notin {"marker", "seed"}
    BY <2>1 DEF Waiting
  <2>. QED  BY <1>1, <2>1, <2>2, QuietSows
<1>. QED  BY <1>2, <1>3, <1>4

\* Neither does the start of a load or a request, or the look at the old definition.
LEMMA BeginSows ==
  ASSUME ProvInv, SeedInv, NEW p \in ProvProcs, NEW n, NEW patch,
         \/ p = ProvRound /\ LoadAlone
         \/ handleSaveCustomProvider(p, n, patch) \/ RefuseSave(p, n) \/ handleDeleteCustomProvider(p, n)
         \/ findCustomProvider(p)
  PROVE  SeedInv'
<1>1. UNCHANGED <<table, marker, touched, skipped>>
  BY DEF LoadAlone, handleSaveCustomProvider, RefuseSave, handleDeleteCustomProvider, Begin, findCustomProvider
<1>2. CASE p = ProvRound /\ LoadAlone
  <2>1. PICK k : Proceed(p, Load("done", k))
    BY <1>2 DEF LoadAlone
  <2>. QED  BY <1>1, <2>1, QuietSows DEF Load
<1>3. CASE handleSaveCustomProvider(p, n, patch)
  <2>1. Proceed(p, [pc |-> "find", name |-> n, patch |-> patch])
    BY <1>3 DEF handleSaveCustomProvider
  <2>. QED  BY <1>1, <2>1, QuietSows
<1>4. CASE RefuseSave(p, n)
  <2>1. task' = task
    BY <1>4 DEF RefuseSave
  <2>. QED  BY <1>1, <2>1 DEF SeedInv, SowingInv, Accounted, DefaultsSeeded, InTable
<1>5. CASE handleDeleteCustomProvider(p, n)
  <2>1. Proceed(p, Load("erase", n))
    BY <1>5 DEF handleDeleteCustomProvider
  <2>. QED  BY <1>1, <2>1, QuietSows DEF Load
<1>6. CASE findCustomProvider(p)
  <2>1. PICK rows : Proceed(p, IF Complete(applyCustomProviderPatch(rows, task[p].name, task[p].patch))
                               THEN Over([pc |-> "upsert",
                                          row |-> applyCustomProviderPatch(rows, task[p].name, task[p].patch),
                                          read |-> rows], task[p]) ELSE Waiting)
    BY <1>6 DEF findCustomProvider
  <2> DEFINE f == [pc |-> "upsert", row |-> applyCustomProviderPatch(rows, task[p].name, task[p].patch), read |-> rows]
  <2>2. "pc" \in DOMAIN f /\ f.pc = "upsert"
    OBVIOUS
  <2>3. Proceed(p, Over(f, task[p])) \/ Proceed(p, Waiting)
    BY <2>1
  <2> HIDE DEF f
  <2>4. Over(f, task[p]).pc = "upsert" /\ Waiting.pc = "idle"
    <3>1. \A x \in DOMAIN f : Over(f, task[p])[x] = f[x]
      BY OverFacts
    <3>. QED  BY <2>2, <3>1 DEF Waiting
  <2>. QED  BY <1>1, <2>3, <2>4, QuietSows
<1>. QED  BY <1>2, <1>3, <1>4, <1>5, <1>6

\* Every step keeps the account of the defaults.
LEMMA SeedPreserved == ProvInv /\ SeedInv /\ [ProvNext]_ProvVars => SeedInv'
<1> SUFFICES ASSUME ProvInv, SeedInv, [ProvNext]_ProvVars  PROVE SeedInv'
  OBVIOUS
<1>1. CASE LoadAlone
  BY <1>1, BeginSows DEF ProvProcs
<1>2. CASE RestartProviders
  <2>1. task' = [p \in ProvProcs |-> Waiting] /\ UNCHANGED <<table, marker, touched, skipped>>
    BY <1>2 DEF RestartProviders
  <2>2. \A p \in ProvProcs : task'[p].pc = "idle"
    BY <2>1 DEF Waiting
  <2>3. SowingInv'
    BY <2>2 DEF SowingInv, Sowing
  <2>. QED  BY <2>1, <2>3 DEF SeedInv, DefaultsSeeded, InTable
<1>3. ASSUME NEW p \in ProvProcs, ListProjects(p) \/ ListDefinitions(p) \/ ReadMarker(p)
  PROVE SeedInv'
  BY <1>3, LoadSows, ListSows, ReadMarkerSows
<1>4. ASSUME NEW p \in ProvProcs, (\E n \in Defaults : SeedDefault(p, n)) \/ SetMarker(p) \/ Relist(p) \/ Install(p)
  PROVE SeedInv'
  BY <1>4, SeedSows, SetMarkerSows, LoadSows
<1>5. ASSUME NEW p \in ProvPages, NEW n \in ProvNames,
             \/ \E patch \in Requests : handleSaveCustomProvider(p, n, patch)
             \/ RefuseSave(p, n) \/ handleDeleteCustomProvider(p, n)
  PROVE SeedInv'
  BY <1>5, BeginSows DEF ProvProcs
<1>6. ASSUME NEW p \in ProvPages, findCustomProvider(p) \/ SaveDefinition(p) \/ EraseDefinition(p)
  PROVE SeedInv'
  BY <1>6, BeginSows, EditSows DEF ProvProcs
<1>7. ASSUME NEW n, NEW form, AddProject(n, form)  PROVE SeedInv'
  <2>1. UNCHANGED <<table, marker, task, touched, skipped>>
    BY <1>7 DEF AddProject
  <2>. QED  BY <2>1 DEF SeedInv, SowingInv, Accounted, DefaultsSeeded, InTable
<1>8. CASE UNCHANGED ProvVars
  BY <1>8 DEF ProvVars, SeedInv, SowingInv, Accounted, DefaultsSeeded, InTable
<1>. QED  BY <1>1, <1>2, <1>3, <1>4, <1>5, <1>6, <1>7, <1>8 DEF ProvNext

\* No default is left out unnoticed: once custom_defaults_seeded is set, each has a
\* row, was decided on by the page, or had its own write fail.
THEOREM SeedingComplete == ProvSpec => []DefaultsSeeded
<1>1. ProvInit => SeedInv
  <2> SUFFICES ASSUME ProvInit  PROVE SeedInv
    OBVIOUS
  <2>1. \A p \in ProvProcs : task[p].pc = "idle"
    BY DEF ProvInit, Waiting
  <2>2. SowingInv
    BY <2>1 DEF SowingInv, Sowing
  <2>. QED  BY <2>2 DEF ProvInit, SeedInv, DefaultsSeeded
<1>2. ProvSpec => []SeedInv
  BY <1>1, SeedPreserved, ProvInvariance, PTL DEF ProvSpec
<1>3. SeedInv => DefaultsSeeded
  BY DEF SeedInv
<1>. QED  BY <1>2, <1>3, PTL

\* registerCustomProviders and the page's requests together make definitions last: a
\* default the page deleted stays deleted, a saved definition keeps its fields, the
\* registry is the table after a clean load, the defaults arrive but for those whose
\* write failed, and a project loses the definition of its platform in three cases
\* only: it was stored during the delete, the delete could not read the projects,
\* or the project names the platform without the custom: prefix.
THEOREM DefinitionsStay == ProvSpec => []DefinitionsLast
<1>1. ProvInv /\ DefaultsSeeded => DefinitionsLast
  BY DEF ProvInv, TableInv, AsWanted, UsesInv, DefinitionsLast, PageWins
<1>. QED  BY <1>1, ProvInvariance, SeedingComplete, PTL

-------------------------------------------------------------------------------
(* One fetch                                                                *)

\* A set of natural numbers has a least one, and Min is it.
LEMMA LeastNumber ==
  ASSUME NEW S \in SUBSET Nat, S # {}
  PROVE  Min(S) \in S /\ \A n \in S : Min(S) <= n
<1> DEFINE less == {ss \in Nat \X Nat : ss[1] < ss[2]}
<1>1. IsWellFoundedOn(less, Nat)
  BY NatLessThanWellFounded DEF OpToRel
<1> HIDE DEF less
<1>2. PICK least \in S : \A n \in S : ~(<<n, least>> \in less)
  BY <1>1, WFMin
<1>3. \A n \in S : least <= n
  <2> TAKE n \in S
  <2>1. ~(n < least)
    BY <1>2 DEF less
  <2> QED  BY <2>1
<1> QED  BY <1>3 DEF Min

\* Percentages are in hundredths.
Percents == 0..10000

\* ClampPercent leaves a percentage.
LEMMA Clamped == Percents \subseteq Nat /\ \A x \in Int : ClampPercent(x) \in Percents
BY DEF Percents, ClampPercent

\* A remaining percentage is nothing or one number, clamped.
LEMMA PercentClamped ==
  ASSUME NEW limit, \A f \in {"usage", "remaining", "percentage"} :
           At(limit, f).t \in {"num", "text"} => At(limit, f).v \in Int
  PROVE  RemainingPercent(limit) # <<>> => RemainingPercent(limit)[1] \in Percents
<1> DEFINE usage == JsonNum(At(limit, "usage"))
           left == JsonNum(At(limit, "remaining"))
           percent == JsonNum(At(limit, "percentage"))
           exact == (left[1] * 10000) \div usage[1]
           rest == 10000 - (percent[1] * 100)
<1>1. RemainingPercent(limit) =
        IF usage # <<>> /\ left # <<>> /\ usage[1] > 0 THEN <<ClampPercent(exact)>>
        ELSE IF percent # <<>> THEN <<ClampPercent(rest)>> ELSE <<>>
  BY DEF RemainingPercent
<1>2. /\ usage # <<>> => usage[1] \in Int
      /\ left # <<>> => left[1] \in Int
      /\ percent # <<>> => percent[1] \in Int
  BY DEF JsonNum
<1> HIDE DEF usage, left, percent
<1>3. usage # <<>> /\ left # <<>> /\ usage[1] > 0 => exact \in Int
  BY <1>2
<1>4. percent # <<>> => rest \in Int
  BY <1>2
<1> HIDE DEF exact, rest
<1>5. /\ usage # <<>> /\ left # <<>> /\ usage[1] > 0 => ClampPercent(exact) \in Percents
      /\ percent # <<>> => ClampPercent(rest) \in Percents
  BY <1>3, <1>4, Clamped
<1>6. \/ RemainingPercent(limit) = <<ClampPercent(exact)>> /\ ClampPercent(exact) \in Percents
      \/ RemainingPercent(limit) = <<ClampPercent(rest)>> /\ ClampPercent(rest) \in Percents
      \/ RemainingPercent(limit) = <<>>
  BY <1>1, <1>5, Zenon
<1> QED  BY <1>6

\* A reading is a percentage, and no window that resets soon has less.
LeastOfSoon(p, data, reading) ==
  LET limits == At(At(data, "data"), "limits").v
      soon == {i \in DOMAIN limits : WindowOfType(limits[i], p.windowTypes) /\ ResetsWithin(limits[i], p.resetHours)}
  IN  /\ reading \in Percents
      /\ \A i \in soon : RemainingPercent(limits[i]) # <<>> => reading <= RemainingPercent(limits[i])[1]

\* minWindowExtract reads a percentage of the answer, and of the windows that
\* reset soon none is lower.
LEMMA WindowReading ==
  ASSUME NEW a \in Answers, NEW p, MinWindowExtract(p, a.data) # <<>>
  PROVE  LeastOfSoon(p, a.data, MinWindowExtract(p, a.data)[1])
<1> DEFINE list == At(At(a.data, "data"), "limits")
           limits == list.v
           Percent(i) == RemainingPercent(limits[i])
           OfType(i) == WindowOfType(limits[i], p.windowTypes)
           Soon(i) == ResetsWithin(limits[i], p.resetHours)
           fit == {i \in DOMAIN limits : limits[i].t = "obj" /\ OfType(i) /\ Percent(i) # <<>>}
           rolling == {i \in fit : Soon(i)}
           percents(T) == {Percent(i)[1] : i \in T}
           result == MinWindowExtract(p, a.data)
<1>1. result = IF list.t # "arr" THEN <<>>
               ELSE IF rolling # {} THEN <<Min(percents(rolling))>>
               ELSE IF fit # {} THEN <<Min(percents(fit))>> ELSE <<>>
  BY DEF MinWindowExtract
<1>2. ASSUME NEW i \in DOMAIN limits, Percent(i) # <<>>, list.t = "arr"
      PROVE  Percent(i)[1] \in Percents
  <2>1. \A f \in {"usage", "remaining", "percentage"} :
          At(limits[i], f).t \in {"num", "text"} => At(limits[i], f).v \in Int
    BY <1>2, FetchAssumption
  <2> DEFINE limit == limits[i]
  <2>2. \A f \in {"usage", "remaining", "percentage"} :
          At(limit, f).t \in {"num", "text"} => At(limit, f).v \in Int
    BY <2>1
  <2>3. RemainingPercent(limit) # <<>>
    BY <1>2
  <2> HIDE DEF limit
  <2>4. RemainingPercent(limit)[1] \in Percents
    BY <2>2, <2>3, PercentClamped
  <2> QED  BY <2>4 DEF limit
<1>3. ASSUME NEW i, limits[i].t # "obj"
      PROVE  Percent(i) = <<>>
  <2> DEFINE limit == limits[i]
  <2>1. limit.t # "obj"
    BY <1>3
  <2> HIDE DEF limit
  <2>2. \A f : JsonNum(At(limit, f)) = <<>>
    BY <2>1 DEF At, JsonNum, Null
  <2>3. RemainingPercent(limit) = <<>>
    BY <2>2 DEF RemainingPercent
  <2> QED  BY <2>3 DEF limit
<1> SUFFICES /\ result[1] \in Percents
             /\ \A i \in DOMAIN limits : OfType(i) /\ Soon(i) /\ Percent(i) # <<>> => result[1] <= Percent(i)[1]
  BY DEF LeastOfSoon
<1>4. result # <<>>
  OBVIOUS
<1> HIDE DEF limits, Percent, OfType, Soon, result, list
<1>5. ASSUME NEW S \in SUBSET fit, S # {}, list.t = "arr"
      PROVE  Min(percents(S)) \in Percents /\ \A i \in S : Min(percents(S)) <= Percent(i)[1]
  <2>1. \A i \in S : Percent(i)[1] \in Percents
    BY <1>2, <1>5
  <2>2. percents(S) \subseteq Percents /\ percents(S) # {} /\ \A i \in S : Percent(i)[1] \in percents(S)
    BY <1>5, <2>1
  <2>3. percents(S) \in SUBSET Nat
    BY <2>2, Clamped
  <2> HIDE DEF percents
  <2> QED  BY <2>2, <2>3, LeastNumber
<1>6. \A i \in DOMAIN limits : OfType(i) /\ Soon(i) /\ Percent(i) # <<>> => i \in rolling
  BY <1>3
<1>7. rolling \in SUBSET fit /\ fit \in SUBSET fit
  OBVIOUS
<1> HIDE DEF rolling, fit, percents
<1>8. CASE rolling # {}
  <2>1. result[1] = Min(percents(rolling)) /\ list.t = "arr"
    BY <1>1, <1>4, <1>8
  <2> QED  BY <1>5, <1>6, <1>7, <1>8, <2>1
<1>9. CASE rolling = {}
  <2>1. result[1] = Min(percents(fit)) /\ list.t = "arr" /\ fit # {}
    BY <1>1, <1>4, <1>9
  <2> QED  BY <1>5, <1>6, <1>7, <1>9, <2>1
<1> QED  BY <1>8, <1>9

\* What was taken for a balance is in the last answer, and the platform called that
\* answer a success.
Verdict ==
  fetch.phase = "read" =>
    /\ answered \in Answers /\ answered.status = 200 /\ answered.json
    /\ CustomCheck(reads, answered.data)
    /\ fetch.reading = Extracted(reads, answered.data) /\ fetch.reading # <<>>

\* A request is counted when its attempt is over; only reads are tried again.
AttemptsInv ==
  /\ DOMAIN fetch = {"phase", "attempt", "reading"}
  /\ get \in BOOLEAN /\ requests \in Nat /\ fetch.attempt \in Nat
  /\ fetch.attempt <= (IF get THEN MaxRetries ELSE 0)
  /\ requests <= fetch.attempt + (IF fetch.phase = "sending" THEN 0 ELSE 1)
  /\ fetch.phase = "waiting" => get /\ fetch.attempt < MaxRetries

FetchInv == AttemptsInv /\ Verdict

\* Nothing changes the definition that is fetched from.
Known == reads \in Definitions

\* What an answer that was read must have been, and the reading it gives.
LEMMA JudgeFacts ==
  ASSUME AttemptsInv, NEW a
  PROVE  /\ Judge(a).attempt = fetch.attempt /\ DOMAIN Judge(a) = {"phase", "attempt", "reading"}
         /\ Judge(a).phase \in {"failed", "read"}
         /\ Judge(a).phase = "read" =>
              /\ a.status = 200 /\ a.json /\ CustomCheck(reads, a.data)
              /\ Judge(a).reading = Extracted(reads, a.data) /\ Judge(a).reading # <<>>
<1> DEFINE n == Extracted(reads, a.data)
           good == [fetch EXCEPT !.phase = IF n = <<>> THEN "failed" ELSE "read", !.reading = n]
<1>1. /\ Failed.phase = "failed" /\ Failed.attempt = fetch.attempt
      /\ DOMAIN Failed = {"phase", "attempt", "reading"}
  BY DEF AttemptsInv, Failed
<1>2. /\ good.phase \in {"failed", "read"} /\ good.attempt = fetch.attempt
      /\ good.phase = "read" => good.reading = n /\ n # <<>>
      /\ DOMAIN good = {"phase", "attempt", "reading"}
  BY DEF AttemptsInv
<1>3. Judge(a) = IF a.status # 200 \/ ~a.json THEN Failed
                 ELSE IF ~CustomCheck(reads, a.data) THEN Failed ELSE good
  BY DEF Judge
<1> HIDE DEF good
<1>. QED  BY <1>1, <1>2, <1>3

\* Every step keeps the invariant of a request.
LEMMA FetchStep ==
  ASSUME FetchInv, [FetchNext]_fetchVars
  PROVE  FetchInv'
<1>1. /\ Failed.phase = "failed" /\ Failed.attempt = fetch.attempt
      /\ DOMAIN Failed = {"phase", "attempt", "reading"}
  BY DEF FetchInv, AttemptsInv, Failed
<1> DEFINE wait == [fetch EXCEPT !.phase = "waiting"]
<1>2. wait.phase = "waiting" /\ wait.attempt = fetch.attempt /\ DOMAIN wait = {"phase", "attempt", "reading"}
  BY DEF FetchInv, AttemptsInv
<1>3. MaxRetries \in Nat
  BY FetchAssumption
<1> HIDE DEF wait
<1>4. CASE Respond
  <2>1. PICK a \in Answers :
                 /\ fetch.phase = "sending" /\ requests' = requests + 1 /\ answered' = a
                 /\ fetch' = IF get /\ a.status \in Retriable /\ fetch.attempt < MaxRetries THEN wait ELSE Judge(a)
                 /\ UNCHANGED <<reads, get>>
    BY <1>4 DEF Respond, wait
  <2>2. CASE get /\ a.status \in Retriable /\ fetch.attempt < MaxRetries
    BY <1>2, <1>3, <2>1, <2>2 DEF FetchInv, AttemptsInv, Verdict
  <2>3. CASE ~(get /\ a.status \in Retriable /\ fetch.attempt < MaxRetries)
    <3>1. /\ fetch'.attempt = fetch.attempt /\ DOMAIN fetch' = {"phase", "attempt", "reading"}
          /\ fetch'.phase \in {"failed", "read"}
          /\ fetch'.phase = "read" =>
               /\ a.status = 200 /\ a.json /\ CustomCheck(reads, a.data)
               /\ fetch'.reading = Extracted(reads, a.data) /\ fetch'.reading # <<>>
      BY <2>1, <2>3, JudgeFacts DEF FetchInv
    <3>2. CustomCheck(reads, a.data) => CustomCheck(reads, answered.data)'
      BY <2>1 DEF CustomCheck
    <3>3. Extracted(reads, a.data) = Extracted(reads, answered.data)'
      BY <2>1
    <3>4. Verdict'
      BY <2>1, <3>1, <3>2, <3>3 DEF Verdict
    <3>. QED  BY <1>3, <2>1, <3>1, <3>4 DEF FetchInv, AttemptsInv
  <2>. QED  BY <2>2, <2>3
<1>5. CASE NetworkError
  <2>1. /\ fetch.phase = "sending" /\ requests' \in {requests, requests + 1}
        /\ fetch' = IF get /\ fetch.attempt < MaxRetries THEN wait ELSE Failed
        /\ UNCHANGED <<reads, get>>
    BY <1>5 DEF NetworkError, AfterError, wait
  <2>. QED  BY <1>1, <1>2, <1>3, <2>1 DEF FetchInv, AttemptsInv, Verdict
<1>6. CASE Resend
  <2> DEFINE again == [fetch EXCEPT !.phase = "sending", !.attempt = @ + 1]
  <2>1. /\ again.phase = "sending" /\ again.attempt = fetch.attempt + 1
        /\ DOMAIN again = {"phase", "attempt", "reading"}
    BY DEF FetchInv, AttemptsInv
  <2>2. fetch.phase = "waiting" /\ fetch' = again /\ UNCHANGED <<reads, get, requests, answered>>
    BY <1>6 DEF Resend
  <2> HIDE DEF again
  <2>. QED  BY <1>3, <2>1, <2>2 DEF FetchInv, AttemptsInv, Verdict
<1>7. CASE ContextEnds
  <2>1. fetch' = Failed /\ UNCHANGED <<reads, get, requests, answered>>
    BY <1>7 DEF ContextEnds
  <2>. QED  BY <1>1, <1>3, <2>1 DEF FetchInv, AttemptsInv, Verdict
<1>8. CASE UNCHANGED fetchVars
  BY <1>8 DEF fetchVars, FetchInv, AttemptsInv, Verdict, CustomCheck
<1>. QED  BY <1>4, <1>5, <1>6, <1>7, <1>8 DEF FetchNext

-------------------------------------------------------------------------------
(* Fetches: an account that is named                                        *)

\* A path of three tokens is walked token by token.
LEMMA WalkThree ==
  ASSUME NEW data, NEW x, NEW y, NEW z
  PROVE  DigPath(data, <<x, y, z>>) = Walk(Walk(Walk(data, x), y), z)
<1> DEFINE path == <<x, y, z>>
           D == 1..3
           Step(g) == [s \in SUBSET D |-> IF s = {} THEN data ELSE Walk(g[s \ {Max(s)}], path[Max(s)])]
           iter == CHOOSE g : g = Step(g)
           one(s) == IF 1 \in s THEN Walk(data, x) ELSE data
           two(s) == IF 2 \in s THEN Walk(one(s), y) ELSE one(s)
           three(s) == IF 3 \in s THEN Walk(two(s), z) ELSE two(s)
           walked == [s \in SUBSET D |-> three(s)]
<1>1. DigPath(data, path) = iter[D]
  <2>1. DOMAIN path = D
    OBVIOUS
  <2> QED  BY <2>1 DEF DigPath, FoldLeft, MapThenFoldSet
<1>2. ASSUME NEW s \in SUBSET D, s # {}
      PROVE  /\ Max(s) \in s /\ Max(s) \in D
             /\ \A n \in D : n > Max(s) => n \notin s
  <2>1. D = {1, 2, 3}
    OBVIOUS
  <2>2. \E n \in s : \A m \in s : n >= m
    <3>1. CASE 3 \in s
      BY <2>1, <3>1
    <3>2. CASE 3 \notin s /\ 2 \in s
      BY <2>1, <3>2
    <3>3. CASE 3 \notin s /\ 2 \notin s
      <4>1. PICK n \in s : TRUE
        BY <1>2
      <4>2. s = {1}
        BY <2>1, <3>3, <4>1
      <4> QED  BY <4>2
    <3> QED  BY <3>1, <3>2, <3>3
  <2>3. Max(s) \in s /\ \A m \in s : Max(s) >= m
    BY <2>2 DEF Max
  <2>4. ASSUME NEW n \in D, n > Max(s), n \in s PROVE FALSE
    <3>1. Max(s) >= n /\ Max(s) \in D
      BY <2>3, <2>4
    <3> HIDE DEF D
    <3> QED  BY <2>1, <2>4, <3>1
  <2> QED  BY <2>3, <2>4
<1>3. path[1] = x /\ path[2] = y /\ path[3] = z
  OBVIOUS
<1>4. walked = Step(walked)
  <2> HIDE DEF path
  <2>1. ASSUME NEW s \in SUBSET D, s # {}
        PROVE  three(s) = Walk(walked[s \ {Max(s)}], path[Max(s)])
    <3>1. /\ Max(s) \in {1, 2, 3} /\ Max(s) \in s /\ s \ {Max(s)} \in SUBSET D
          /\ \A n \in D : n > Max(s) => n \notin s
      <4>1. D = {1, 2, 3}
        OBVIOUS
      <4>2. Max(s) \in s /\ Max(s) \in D /\ \A n \in D : n > Max(s) => n \notin s
        BY <1>2, <2>1
      <4> HIDE DEF D
      <4> QED  BY <4>1, <4>2
    <3>2. walked[s \ {Max(s)}] = three(s \ {Max(s)})
      BY <3>1
    <3>3. CASE Max(s) = 1
      <4>1. 1 \in s /\ 2 \notin s /\ 3 \notin s
        BY <3>1, <3>3
      <4>2. three(s) = Walk(data, x) /\ three(s \ {1}) = data
        BY <4>1
      <4> HIDE DEF walked, three
      <4> QED  BY <1>3, <3>2, <3>3, <4>2
    <3>4. CASE Max(s) = 2
      <4>1. 2 \in s /\ 3 \notin s
        BY <3>1, <3>4
      <4>2. three(s) = Walk(one(s), y) /\ three(s \ {2}) = one(s)
        BY <4>1
      <4> HIDE DEF walked, three, one
      <4> QED  BY <1>3, <3>2, <3>4, <4>2
    <3>5. CASE Max(s) = 3
      <4>1. 3 \in s
        BY <3>1, <3>5
      <4>2. three(s) = Walk(two(s), z) /\ three(s \ {3}) = two(s)
        BY <4>1
      <4> HIDE DEF walked, three, two
      <4> QED  BY <1>3, <3>2, <3>5, <4>2
    <3> QED  BY <3>1, <3>3, <3>4, <3>5
  <2>2. three({}) = data
    OBVIOUS
  <2> HIDE DEF three
  <2> QED  BY <2>1, <2>2
<1>5. iter = Step(iter)
  <2> HIDE DEF Step, walked
  <2> QED  BY <1>4
<1>6. \A s \in SUBSET D : s # {} => iter[s] = Walk(iter[s \ {Max(s)}], path[Max(s)])
  <2> HIDE DEF iter, path, D
  <2> QED  BY <1>5
<1>7. iter[{}] = data
  <2> HIDE DEF iter, path, D
  <2> QED  BY <1>5
<1> HIDE DEF iter, Step, path
<1>8. Max({1}) = 1 /\ Max({1, 2}) = 2 /\ Max(D) = 3
  BY <1>2
<1>9. D \ {3} = {1, 2} /\ {1, 2} \ {2} = {1} /\ {1} \ {1} = {} /\ {1} \in SUBSET D /\ {1, 2} \in SUBSET D
  OBVIOUS
<1>10. iter[{1}] = Walk(data, x)
  BY <1>3, <1>6, <1>7, <1>8, <1>9
<1>11. iter[{1, 2}] = Walk(iter[{1}], y)
  BY <1>3, <1>6, <1>8, <1>9
<1>12. iter[D] = Walk(iter[{1, 2}], z)
  BY <1>3, <1>6, <1>8, <1>9
<1> QED  BY <1>1, <1>10, <1>11, <1>12 DEF path

\* With one alternative, what DigFirst finds is what the path leads to.
LEMMA OneAlternative ==
  ASSUME NEW data, NEW path
  PROVE  DigFirst(data, <<path>>) = IF DigPath(data, path).t # "null" THEN DigPath(data, path) ELSE Null
<1> DEFINE paths == <<path>>
           found == {j \in DOMAIN paths : DigPath(data, paths[j]).t # "null"}
<1>1. DOMAIN paths = {1} /\ paths[1] = path
  OBVIOUS
<1>2. DigFirst(data, paths) = IF found = {} THEN Null ELSE DigPath(data, paths[Min(found)])
  BY DEF DigFirst
<1> HIDE DEF paths
<1>3. found = IF DigPath(data, path).t # "null" THEN {1} ELSE {}
  BY <1>1
<1>4. found # {} => Min(found) = 1
  <2>1. found \in SUBSET Nat /\ \A j \in found : j = 1
    BY <1>3
  <2> HIDE DEF found
  <2>2. found # {} => Min(found) \in found
    BY <2>1, LeastNumber
  <2> QED  BY <2>1, <2>2
<1> HIDE DEF found
<1>5. ASSUME DigPath(data, path).t # "null" PROVE DigFirst(data, paths) = DigPath(data, path)
  BY <1>1, <1>2, <1>3, <1>4, <1>5
<1>6. ASSUME DigPath(data, path).t = "null" PROVE DigFirst(data, paths) = Null
  BY <1>2, <1>3, <1>6
<1> QED  BY <1>5, <1>6 DEF paths

\* The accounts of a list that are in the currency w.
Mine(accounts, w) == {i \in DOMAIN accounts.v : At(accounts.v[i], "currency") = Word(w)}

\* A filter finds the first account that it names.
LEMMA FilterFinds ==
  ASSUME NEW accounts, accounts.t = "arr", DOMAIN accounts.v \in SUBSET Nat,
         NEW w, Mine(accounts, w) # {}
  PROVE  /\ Min(Mine(accounts, w)) \in Mine(accounts, w)
         /\ PickElement(accounts, Filter("currency", Word(w))) = accounts.v[Min(Mine(accounts, w))]
<1> DEFINE tok == Filter("currency", Word(w))
           hits == {k \in DOMAIN accounts.v : At(accounts.v[k], tok.f) = tok.want /\ tok.want.t \in {"word", "num"}}
<1>1. tok.f = "currency" /\ tok.want = Word(w) /\ Word(w).t = "word"
  BY DEF Filter, Word
<1> HIDE DEF tok
<1>2. hits = Mine(accounts, w)
  BY <1>1 DEF Mine
<1>3. Mine(accounts, w) \in SUBSET Nat
  BY DEF Mine
<1>4. Min(Mine(accounts, w)) \in Mine(accounts, w)
  BY <1>3, LeastNumber
<1>5. accounts.v # <<>>
  <2>1. DOMAIN accounts.v # {}
    BY <1>4 DEF Mine
  <2>2. DOMAIN <<>> = {}
    OBVIOUS
  <2> QED  BY <2>1, <2>2
<1>6. PickElement(accounts, tok) = IF accounts.t # "arr" THEN Null
                                   ELSE IF accounts.v = <<>> THEN Null
                                   ELSE IF hits = {} THEN accounts.v[1] ELSE accounts.v[Min(hits)]
  BY DEF PickElement
<1> HIDE DEF hits
<1>7. PickElement(accounts, tok) = accounts.v[Min(Mine(accounts, w))]
  BY <1>2, <1>5, <1>6
<1> QED  BY <1>4, <1>7 DEF tok

\* Without a subtraction and a scale, pathExtract reads the number that the path leads to.
LEMMA PathNumber ==
  ASSUME NEW p, p.mode = "path", ReadsAccount(p), NEW data, NEW got, got = DigFirst(data, p.balancePath),
         got.t \in {"num", "text"} => got.v \in Int, Extracted(p, data) # <<>>
  PROVE  got.t \in {"num", "text"} /\ Extracted(p, data) = <<got.v>>
<1> DEFINE q == [p EXCEPT !.scale = IF @ = 0 THEN 1 ELSE @]
<1>1. q.balancePath = p.balancePath /\ q.subtractPath = <<>> /\ q.scale = 1
  BY DEF ReadsAccount
<1>2. Extracted(p, data) = PathExtract(q, data)
  BY DEF Extracted
<1> HIDE DEF q
<1> DEFINE raw == NumLoose(got)
<1>3. Extracted(p, data) = IF raw = <<>> THEN <<>> ELSE <<raw[1] * 1>>
  BY <1>1, <1>2 DEF PathExtract
<1>4. raw # <<>>
  BY <1>3
<1>5. raw = <<got.v>> /\ got.t \in {"num", "text"} /\ got.v \in Int
  BY <1>4 DEF NumLoose
<1> HIDE DEF raw
<1>6. raw[1] = got.v
  BY <1>5
<1>7. got.v * 1 = got.v
  BY <1>5
<1> QED  BY <1>3, <1>4, <1>5, <1>6, <1>7

\* A definition that reads an account reads the total of one in the currency it wants,
\* when the platform lists one.
LEMMA AccountRead ==
  ASSUME NEW p, p.mode = "path", ReadsAccount(p), NEW data,
         NEW accounts, accounts = At(data, "accounts"), accounts.t = "arr", DOMAIN accounts.v \in SUBSET Nat,
         \A i \in DOMAIN accounts.v :
           At(accounts.v[i], "total").t \in {"num", "text"} => At(accounts.v[i], "total").v \in Int,
         Mine(accounts, p.wants) # {}, Extracted(p, data) # <<>>
  PROVE  \E i \in Mine(accounts, p.wants) : Extracted(p, data) = <<At(accounts.v[i], "total").v>>
<1> DEFINE x == Field("accounts")
           y == Filter("currency", Word(p.wants))
           z == Field("total")
           k == Min(Mine(accounts, p.wants))
           total == At(accounts.v[k], "total")
<1>1. k \in Mine(accounts, p.wants) /\ PickElement(accounts, y) = accounts.v[k]
  BY FilterFinds
<1>2. Walk(data, x) = accounts
  BY DEF Walk, Field
<1>3. Walk(accounts, y) = accounts.v[k]
  <2>1. Walk(accounts, y) = PickElement(accounts, y)
    BY DEF Walk, Filter
  <2> QED  BY <1>1, <2>1
<1>4. Walk(accounts.v[k], z) = total
  BY DEF Walk, Field
<1>5. DigPath(data, <<x, y, z>>) = total
  <2>1. DigPath(data, <<x, y, z>>) = Walk(Walk(Walk(data, x), y), z)
    BY WalkThree
  <2> HIDE DEF x, y, z, k, total
  <2> QED  BY <1>2, <1>3, <1>4, <2>1
<1>6. DigFirst(data, p.balancePath) = IF total.t # "null" THEN total ELSE Null
  <2>1. DigFirst(data, << <<x, y, z>> >>) = IF total.t # "null" THEN total ELSE Null
    BY <1>5, OneAlternative
  <2>2. p.balancePath = << <<x, y, z>> >>
    BY DEF ReadsAccount
  <2> QED  BY <2>1, <2>2
<1>7. total.t \in {"num", "text"} => total.v \in Int
  BY <1>1 DEF Mine
<1> HIDE DEF x, y, z, total
<1> DEFINE got == DigFirst(data, p.balancePath)
<1>8. got.t \in {"num", "text"} => got.v \in Int
  BY <1>6, <1>7 DEF Null
<1>9. got.t \in {"num", "text"} /\ Extracted(p, data) = <<got.v>>
  <2> HIDE DEF got
  <2> QED  BY <1>8, PathNumber DEF got
<1>10. got = total
  BY <1>6, <1>9 DEF Null
<1> QED  BY <1>1, <1>9, <1>10 DEF total

-------------------------------------------------------------------------------
(* Fetches: the theorem                                                     *)

\* Client.Do never sends a request that may change something twice and sends a read
\* at most MaxRetries times more; GetJSON hands on only what the last answer holds and
\* the platform called a success; of the windows that reset soon none has less left
\* than what minWindowExtract reads; and pathExtract reads the account that the
\* definition names when the platform lists it, whatever the platform answers.
THEOREM FetchSafe == FetchSpec => []FetchSound
<1>1. FetchInit => FetchInv
  <2>1. MaxRetries \in Nat
    BY FetchAssumption
  <2> QED  BY <2>1 DEF FetchInit, FetchInv, AttemptsInv, Verdict
<1>2. FetchInv => SentOnce
  <2>1. MaxRetries \in Nat
    BY FetchAssumption
  <2> QED  BY <2>1 DEF FetchInv, AttemptsInv, SentOnce
<1>3. FetchInv => ReadingIsReal
  <2>1. ReadingIsReal <=>
          (fetch.phase = "read" =>
             /\ answered.status = 200 /\ answered.json /\ CustomCheck(reads, answered.data)
             /\ reads.mode = "min_window" => LeastOfSoon(reads, answered.data, fetch.reading[1]))
    BY DEF ReadingIsReal, LeastOfSoon, Percents
  <2>2. ASSUME Verdict, fetch.phase = "read", reads.mode = "min_window"
        PROVE  LeastOfSoon(reads, answered.data, fetch.reading[1])
    <3>1. fetch.reading = MinWindowExtract(reads, answered.data) /\ answered \in Answers /\ fetch.reading # <<>>
      BY <2>2 DEF Verdict, Extracted
    <3> QED  BY <3>1, WindowReading
  <2> QED  BY <2>1, <2>2 DEF FetchInv, Verdict
<1>4. FetchInv /\ Known => NamedAccountRead
  <2> SUFFICES ASSUME Verdict, Known, fetch.phase = "read", reads.mode = "path", reads.wants # "",
                      NEW accounts, accounts = At(answered.data, "accounts"), accounts.t = "arr",
                      Mine(accounts, reads.wants) # {}
               PROVE  \E i \in Mine(accounts, reads.wants) : fetch.reading = <<At(accounts.v[i], "total").v>>
    BY DEF NamedAccountRead, FetchInv, Mine
  <2>1. fetch.reading = Extracted(reads, answered.data) /\ answered \in Answers /\ fetch.reading # <<>>
    BY DEF Verdict
  <2>2. ReadsAccount(reads)
    BY FetchAssumption DEF Known
  <2>3. /\ DOMAIN accounts.v \in SUBSET Nat
        /\ \A i \in DOMAIN accounts.v :
             At(accounts.v[i], "total").t \in {"num", "text"} => At(accounts.v[i], "total").v \in Int
    BY <2>1, FetchAssumption
  <2> DEFINE data == answered.data
             given == Extracted(reads, data)
  <2>4. accounts = At(data, "accounts") /\ given # <<>> /\ fetch.reading = given
    BY <2>1
  <2> HIDE DEF data
  <2>5. \E i \in Mine(accounts, reads.wants) : given = <<At(accounts.v[i], "total").v>>
    BY <2>2, <2>3, <2>4, AccountRead
  <2> QED  BY <2>4, <2>5
<1>5. FetchInit => Known
  BY DEF FetchInit, Known
<1>6. Known /\ [FetchNext]_fetchVars => Known'
  BY DEF Known, FetchNext, fetchVars, Respond, NetworkError, Resend, ContextEnds
<1>. QED  BY <1>1, <1>2, <1>3, <1>4, <1>5, <1>6, FetchStep, PTL DEF FetchSpec, FetchSound

-------------------------------------------------------------------------------
(* Sessions: the invariant                                                  *)

SessionTypeOK ==
  /\ clock \in Nat
  /\ cookies \in [SessionPages -> [key : SUBSET WebKeys, expires : Nat]]
  /\ presented \in [SessionPages -> SUBSET WebKeys]
  /\ lastUse \in [SessionPages -> Nat]

\* A browser's cookie is signed with the key its user typed, and at its last use it
\* had at least the renewal period and at most a whole life to go.
CookieInv ==
  \A b \in SessionPages :
    /\ lastUse[b] <= clock
    /\ cookies[b] # NoCookie =>
         /\ \E k \in WebKeys : cookies[b].key = {k} /\ presented[b] = {k}
         /\ cookies[b].expires >= lastUse[b] + SessionRenewWithin
         /\ cookies[b].expires <= lastUse[b] + SessionTTL

SessionInv == SessionTypeOK /\ CookieInv

-------------------------------------------------------------------------------
\* The session invariant holds when the server starts.
LEMMA SessionInvInit == SessionInit => SessionInv
BY DEF SessionInit, SessionInv, SessionTypeOK, CookieInv, NoCookie

\* Logins, requests, renewals and time keep the session invariant.
LEMMA SessionStep ==
  ASSUME SessionInv, [SessionNext]_SessionVars
  PROVE  SessionInv'
<1> USE SessionAssumption DEF SessionInv
<1>1. ASSUME NEW b \in SessionPages, NEW key \in WebKeys, handleSessionCreate(b, key)
      PROVE  SessionInv'
  <2>1. /\ cookies' = [cookies EXCEPT ![b] = [key |-> {key}, expires |-> clock + SessionTTL]]
        /\ presented' = [presented EXCEPT ![b] = {key}]
        /\ lastUse' = [lastUse EXCEPT ![b] = clock] /\ clock' = clock
    BY <1>1 DEF handleSessionCreate, setSessionCookie, sessionToken
  <2>2. SessionTypeOK'
    BY <2>1 DEF SessionTypeOK
  <2>3. CookieInv'
    BY <2>1 DEF SessionTypeOK, CookieInv
  <2>. QED  BY <2>2, <2>3
<1>2. ASSUME NEW b \in SessionPages, NEW safe \in BOOLEAN, NEW sameSite \in BOOLEAN, withAPIKey(b, safe, sameSite)
      PROVE  SessionInv'
  <2>1. cookies[b] # NoCookie /\ UNCHANGED <<clock, presented>>
    BY <1>2 DEF withAPIKey
  <2>2. CASE sessionSigner(cookies[b]) = {}
    BY <1>2, <2>1, <2>2 DEF withAPIKey, SessionTypeOK, CookieInv
  <2>3. CASE sessionSigner(cookies[b]) # {}
    <3>1. renewal(b, cookies[b]) /\ lastUse' = [lastUse EXCEPT ![b] = clock]
      BY <1>2, <2>3 DEF withAPIKey
    <3>2. PICK k \in WebKeys : cookies[b].key = {k} /\ presented[b] = {k}
      BY <2>1 DEF CookieInv
    <3>3. sessionSigner(cookies[b]) = {k} /\ clock < cookies[b].expires
      BY <2>3, <3>2 DEF sessionSigner
    <3>4. (CHOOSE j \in sessionSigner(cookies[b]) : TRUE) = k
      BY <3>3
    <3>5. CASE cookies[b].expires - clock < SessionRenewWithin
      <4>1. cookies' = [cookies EXCEPT ![b] = [key |-> {k}, expires |-> clock + SessionTTL]]
        BY <3>1, <3>4, <3>5 DEF renewal, setSessionCookie, sessionToken
      <4>2. SessionTypeOK'
        BY <2>1, <3>1, <4>1 DEF SessionTypeOK
      <4>3. CookieInv'
        BY <2>1, <3>1, <3>2, <4>1 DEF SessionTypeOK, CookieInv
      <4>. QED  BY <4>2, <4>3
    <3>6. CASE ~(cookies[b].expires - clock < SessionRenewWithin)
      <4>1. cookies' = cookies
        BY <3>1, <3>6 DEF renewal
      <4>2. SessionTypeOK'
        BY <2>1, <3>1, <4>1 DEF SessionTypeOK
      <4>3. CookieInv'
        BY <2>1, <3>1, <3>6, <4>1 DEF SessionTypeOK, CookieInv
      <4>. QED  BY <4>2, <4>3
    <3>. QED  BY <3>5, <3>6
  <2>. QED  BY <2>2, <2>3
<1>3. ASSUME NEW b \in SessionPages, handleSessionDelete(b)
      PROVE  SessionInv'
  BY <1>3 DEF handleSessionDelete, SessionTypeOK, CookieInv, NoCookie
<1>4. ASSUME NEW keys \in KeyLists, Rotate(keys)
      PROVE  SessionInv'
  BY <1>4 DEF Rotate, SessionTypeOK, CookieInv
<1>5. CASE SessionTick
  BY <1>5 DEF SessionTick, SessionTypeOK, CookieInv
<1>6. CASE UNCHANGED SessionVars
  BY <1>6 DEF SessionVars, SessionTypeOK, CookieInv
<1>. QED  BY <1>1, <1>2, <1>3, <1>4, <1>5, <1>6 DEF SessionNext

-------------------------------------------------------------------------------
(* Sessions: the theorems                                                   *)

\* Every cookie is signed with the key that was typed and bounded by its last use.
THEOREM SessionInvariance == SessionSpec => []SessionInv
BY SessionInvInit, SessionStep, PTL DEF SessionSpec

\* However often a session was renewed, it ends with its key, it is refused only
\* after the renewal period without use, and always after a cookie's life
\* (withAPIKey, sessionSigner, renewal).
THEOREM SessionsEnd == SessionSpec => SessionsEndRight
<1>1. SessionInv => RotationEndsSessions
  BY DEF SessionInv, CookieInv, RotationEndsSessions, sessionSigner, NoCookie
<1>2. ASSUME SessionInv, NEW b \in SessionPages, NEW safe \in BOOLEAN, NEW sameSite \in BOOLEAN,
             withAPIKey(b, safe, sameSite)
      PROVE  /\ answer'.status = 401 =>
                  clock - lastUse[b] >= SessionRenewWithin \/ ~ \E k \in presented[b] : Configured(k)
             /\ clock - lastUse[b] >= SessionTTL => answer'.status = 401
  <2>1. cookies[b] # NoCookie /\ (answer'.status = 401 <=> sessionSigner(cookies[b]) = {})
    BY <1>2 DEF withAPIKey
  <2>2. PICK k \in WebKeys : cookies[b].key = {k} /\ presented[b] = {k}
    BY <1>2, <2>1 DEF SessionInv, CookieInv
  <2>3. sessionSigner(cookies[b]) = {} <=> ~Configured(k) \/ ~(clock < cookies[b].expires)
    BY <2>2 DEF sessionSigner
  <2>4. /\ clock \in Nat /\ cookies[b].expires \in Nat /\ lastUse[b] \in Nat
        /\ cookies[b].expires >= lastUse[b] + SessionRenewWithin
        /\ cookies[b].expires <= lastUse[b] + SessionTTL
    BY <1>2, <2>1 DEF SessionInv, SessionTypeOK, CookieInv
  <2>5. ~(clock < cookies[b].expires) => clock - lastUse[b] >= SessionRenewWithin
    BY <2>4, SessionAssumption
  <2>6. clock - lastUse[b] >= SessionTTL => ~(clock < cookies[b].expires)
    BY <2>4, SessionAssumption
  <2>. QED  BY <2>1, <2>2, <2>3, <2>5, <2>6
<1>3. SessionInv => ActiveNeverAsked
  BY <1>2 DEF ActiveNeverAsked
<1>. QED  BY <1>1, <1>3, SessionInvariance, PTL DEF SessionsEndRight

-------------------------------------------------------------------------------
(* McpAccess: the invariant                                                 *)

Callers == STRING \cup {"web"}
Calls == [caller : [name : Callers, scopes : SUBSET Scopes], token : Tokens, at : Nat]
Bucket == [units : Nat, at : Nat]

CallerName(j) == served[j].caller.name

McpTypeOK ==
  /\ mcpConfig \in McpSettings
  /\ mcpClock \in Nat
  /\ served \in Seq(Calls)
  /\ \A n \in DOMAIN buckets : buckets[n] \in Bucket /\ buckets[n].at <= mcpClock

\* The settings the process started with passed ParseMCPKeys and Load.
KeysInv ==
  \A i \in DOMAIN mcpConfig.mcp :
    /\ mcpConfig.mcp[i].key \notin mcpConfig.web
    /\ \A j \in DOMAIN mcpConfig.mcp : mcpConfig.mcp[j].key = mcpConfig.mcp[i].key => i = j

\* The calls of caller n from the i-th served call to the m-th.
CallsOf(n, i, m) == {k \in i..m : CallerName(k) = n}

\* What a bucket holds at most, and what flows into it between two times.
Full == 120 * PerMinute
Flow(a, b) == (b - a) * PerMinute

\* A caller that was served has a bucket, and since any call of its own it has been
\* served no more than a full bucket and what flowed in, less what is left.
FlowInv ==
  \A i \in DOMAIN served :
    /\ CallerName(i) \in DOMAIN buckets
    /\ 120 * Cardinality(CallsOf(CallerName(i), i, Len(served))) + buckets[CallerName(i)].units
         <= Full + Flow(served[i].at, buckets[CallerName(i)].at)

\* Whoever was told to wait has a bucket.
PromiseInv == \A n \in DOMAIN promised : n \in DOMAIN buckets

McpInv == McpTypeOK /\ KeysInv /\ FlowInv /\ PromiseInv /\ AgentsStayInScope /\ BudgetHolds

-------------------------------------------------------------------------------
(* McpAccess: facts about the operators                                     *)

\* What drips into a bucket between two times is a number, and never negative forwards.
LEMMA FlowType ==
  ASSUME NEW a, NEW b, a \in Int, b \in Int
  PROVE  Flow(a, b) \in Int /\ (a <= b => Flow(a, b) >= 0)
BY McpAssumption DEF Flow

\* What drips in over two stretches of time adds up.
LEMMA FlowSum ==
  ASSUME NEW a, NEW b, NEW c, a \in Int, b \in Int, c \in Int
  PROVE  Flow(a, c) = Flow(a, b) + Flow(b, c)
<1>1. c - a = (b - a) + (c - b)
  OBVIOUS
<1>2. ((b - a) + (c - b)) * PerMinute = (b - a) * PerMinute + (c - b) * PerMinute
  BY McpAssumption
<1>. QED  BY <1>1, <1>2 DEF Flow

\* What was served since time a and is held at b, carried on to time c by what flows
\* in between.
LEMMA CarriedOn ==
  ASSUME NEW a, NEW b, NEW c, a \in Int, b \in Int, c \in Int,
         NEW spent, NEW held, NEW units, spent \in Int, held \in Int, units \in Int,
         spent + held <= Full + Flow(a, b), units <= held + Flow(b, c)
  PROVE  spent + units <= Full + Flow(a, c)
<1>1. Flow(a, c) = Flow(a, b) + Flow(b, c)
  BY FlowSum
<1>2. Flow(a, b) \in Int /\ Flow(b, c) \in Int /\ Full \in Int
  BY FlowType, McpAssumption DEF Full
<1>. QED  BY <1>1, <1>2

\* A full bucket holds a number of tokens.
LEMMA FullFacts == Full \in Nat
BY McpAssumption DEF Full

\* Dividing by a positive number rounds down.
LEMMA Division ==
  ASSUME NEW a \in Nat, NEW d \in Nat \ {0}
  PROVE  a \div d \in Nat /\ d * (a \div d) <= a /\ a < d * (a \div d) + d
OBVIOUS

\* The announced wait is the least number of seconds that fills the token.
LEMMA RetryFacts ==
  ASSUME NEW u \in Nat, u < 120
  PROVE  /\ retryAfter(u) \in Int
         /\ u + retryAfter(u) * 2 * PerMinute >= 120
         /\ u + (retryAfter(u) - 1) * 2 * PerMinute < 120
<1> DEFINE d == 2 * PerMinute
           a == 120 - u + d - 1
           r == a \div d
<1>1. d \in Nat \ {0} /\ a \in Nat
  BY McpAssumption
<1>2. r \in Nat /\ d * r <= a /\ a < d * r + d
  BY <1>1, Division
<1>3. retryAfter(u) = r
  BY DEF retryAfter
<1>4. r * 2 * PerMinute = d * r /\ (r - 1) * 2 * PerMinute = d * r - d
  <2> HIDE DEF r
  <2>. QED  BY <1>2, McpAssumption
<1> HIDE DEF d, r
<1>. QED  BY <1>1, <1>2, <1>3, <1>4 DEF a

\* One more served call counts for its caller alone.
LEMMA CountFacts ==
  ASSUME McpTypeOK, NEW call \in Calls, served' = Append(served, call), NEW i \in DOMAIN served, NEW n
  PROVE  /\ Cardinality(CallsOf(n, i, Len(served))) \in Nat
         /\ Cardinality(CallsOf(n, i, Len(served))') =
              Cardinality(CallsOf(n, i, Len(served))) + (IF call.caller.name = n THEN 1 ELSE 0)
<1> DEFINE L == Len(served)
           old == CallsOf(n, i, L)
<1>1. /\ L \in Nat /\ Len(served') = L + 1 /\ i \in 1..L
      /\ \A k \in 1..L : served'[k] = served[k]
      /\ served'[L + 1] = call
  <2>1. served \in Seq(Calls) /\ L \in Nat /\ DOMAIN served = 1..L
    BY DEF McpTypeOK
  <2>2. served' \in Seq(Calls) /\ Len(served') = L + 1
    BY <2>1
  <2>3. \A k \in 1..(L + 1) : served'[k] = IF k <= L THEN served[k] ELSE call
    BY <2>1
  <2>4. i \in 1..L /\ L + 1 \in 1..(L + 1)
    BY <2>1
  <2>5. \A k \in 1..L : k \in 1..(L + 1) /\ k <= L
    BY <2>1
  <2>6. ~(L + 1 <= L)
    BY <2>1
  <2> HIDE DEF L
  <2>. QED  BY <2>1, <2>2, <2>3, <2>4, <2>5, <2>6
<1>2. IsFiniteSet(old) /\ Cardinality(old) \in Nat /\ L + 1 \notin old
  <2>1. IsFiniteSet(i..L) /\ old \in SUBSET (i..L)
    BY <1>1, FS_Interval DEF CallsOf
  <2>2. IsFiniteSet(old)
    BY <2>1, FS_Subset
  <2>3. Cardinality(old) \in Nat
    BY <2>2, FS_CardinalityType
  <2>4. L + 1 \notin i..L
    BY <1>1
  <2>. QED  BY <2>1, <2>2, <2>3, <2>4
<1>3. CallsOf(n, i, L)' = {k \in i..(L + 1) : served'[k].caller.name = n}
  BY <1>1 DEF CallsOf, CallerName
<1>4. old = {k \in i..L : served'[k].caller.name = n}
  BY <1>1 DEF CallsOf, CallerName
<1>5. i..(L + 1) = (i..L) \cup {L + 1}
  BY <1>1
<1>6. CASE call.caller.name = n
  <2>1. CallsOf(n, i, L)' = old \cup {L + 1}
    BY <1>1, <1>3, <1>4, <1>5, <1>6
  <2>. QED  BY <1>2, <1>6, <2>1, FS_AddElement
<1>7. CASE call.caller.name # n
  <2>1. CallsOf(n, i, L)' = old
    BY <1>1, <1>3, <1>4, <1>5, <1>7
  <2>. QED  BY <1>2, <1>7, <2>1
<1>. QED  BY <1>6, <1>7

\* Settings that are not refused have keys of one caller each, none a page's.
LEMMA SettingsFacts ==
  ASSUME NEW environment \in McpSettings, NEW s \in LoadSettings(environment)
  PROVE  /\ s \in McpSettings
         /\ \A i \in DOMAIN s.mcp :
              /\ s.mcp[i].key \notin s.web
              /\ \A j \in DOMAIN s.mcp : s.mcp[j].key = s.mcp[i].key => i = j
<1> DEFINE entries == environment.mcp
           parsed == [i \in DOMAIN entries |-> [entries[i] EXCEPT !.scopes = IF @ = {} THEN Scopes ELSE @]]
<1>1. entries \in Seq(McpKeys) /\ DOMAIN entries = 1..Len(entries) /\ Len(entries) \in Nat
  BY DEF McpSettings
<1>2. PICK keys \in ParseMCPKeys(entries) :
        s = [environment EXCEPT !.mcp = keys] /\ \A i \in DOMAIN keys : keys[i].key \notin environment.web
  BY DEF LoadSettings
<1>3. keys = parsed /\ \A i, j \in DOMAIN entries : entries[i].key = entries[j].key => i = j
  BY <1>2 DEF ParseMCPKeys
<1>4. \A i \in DOMAIN entries : parsed[i] \in McpKeys /\ parsed[i].key = entries[i].key
  <2> SUFFICES ASSUME NEW i \in DOMAIN entries
               PROVE  parsed[i] \in McpKeys /\ parsed[i].key = entries[i].key
    OBVIOUS
  <2>1. entries[i] \in McpKeys
    BY <1>1
  <2>2. parsed[i] = [entries[i] EXCEPT !.scopes = IF entries[i].scopes = {} THEN Scopes ELSE entries[i].scopes]
    OBVIOUS
  <2>. QED  BY <2>1, <2>2 DEF McpKeys
<1>5. DOMAIN parsed = 1..Len(entries)
  BY <1>1
<1> HIDE DEF parsed
<1>6. parsed \in Seq(McpKeys)
  <2>1. \A i \in 1..Len(entries) : parsed[i] \in McpKeys
    BY <1>1, <1>4
  <2>2. parsed = [i \in 1..Len(entries) |-> parsed[i]]
    BY <1>5 DEF parsed
  <2>. QED  BY <1>1, <2>1, <2>2
<1>7. s \in McpSettings /\ s.mcp = parsed /\ s.web = environment.web
  BY <1>2, <1>3, <1>6 DEF McpSettings
<1>. QED  BY <1>1, <1>2, <1>3, <1>4, <1>5, <1>7

\* A token is let in as one caller, within its key's scopes and lifetime.
LEMMA CallerFacts ==
  ASSUME McpTypeOK, KeysInv, NEW token \in Tokens, NEW caller \in mcpCaller(token)
  PROVE  /\ caller \in [name : Callers, scopes : SUBSET Scopes]
         /\ \A i \in DOMAIN mcpConfig.mcp :
              mcpConfig.mcp[i].key = token =>
                /\ caller.scopes \subseteq mcpConfig.mcp[i].scopes
                /\ mcpConfig.mcp[i].expires # NoExpiry => mcpClock < mcpConfig.mcp[i].expires
<1> DEFINE mcp == mcpConfig.mcp
           agents == {k \in {mcp[i] : i \in DOMAIN mcp} : k.key = token}
<1>1. \A i \in DOMAIN mcp : mcp[i] \in McpKeys
  BY DEF McpTypeOK, McpSettings
<1>2. CASE agents = {}
  <2>1. caller = [name |-> "web", scopes |-> Scopes]
    BY <1>2 DEF mcpCaller
  <2>2. \A i \in DOMAIN mcp : mcp[i].key # token
    BY <1>2
  <2>3. "web" \in Callers
    BY DEF Callers
  <2>4. caller \in [name : Callers, scopes : SUBSET Scopes]
    BY <2>1, <2>3
  <2>. QED  BY <2>2, <2>4
<1>3. CASE agents # {}
  <2>1. PICK k \in agents : caller = [name |-> k.name, scopes |-> k.scopes] /\ ~Expired(k)
    BY <1>3 DEF mcpCaller
  <2>2. PICK j \in DOMAIN mcp : mcp[j] = k /\ k.key = token
    OBVIOUS
  <2>3. k \in McpKeys
    BY <1>1, <2>2
  <2>4. \A i \in DOMAIN mcp : mcp[i].key = token => i = j
    BY <2>2 DEF KeysInv
  <2>5. k.expires # NoExpiry => mcpClock < k.expires
    BY <2>1, <2>3 DEF Expired, McpKeys, McpTypeOK
  <2>6. caller \in [name : Callers, scopes : SUBSET Scopes] /\ caller.scopes = k.scopes
    BY <2>1, <2>3 DEF McpKeys, Callers
  <2>. QED  BY <2>2, <2>4, <2>5, <2>6
<1>. QED  BY <1>2, <1>3

\* The bucket invariant holds when the server starts.
LEMMA McpInvInit == McpInit => McpInv
<1> SUFFICES ASSUME McpInit  PROVE McpInv
  OBVIOUS
<1>1. mcpConfig \in McpSettings /\ KeysInv
  BY SettingsFacts, McpAssumption DEF McpInit, KeysInv
<1>2. DOMAIN buckets = {} /\ DOMAIN promised = {} /\ DOMAIN served = {} /\ served \in Seq(Calls)
  BY DEF McpInit
<1>3. McpTypeOK /\ FlowInv /\ PromiseInv
  BY <1>1, <1>2 DEF McpInit, McpTypeOK, FlowInv, PromiseInv
<1>4. AgentsStayInScope
  BY <1>1, <1>2 DEF KeysInv, AgentsStayInScope, apiAccepts
<1>5. BudgetHolds
  BY <1>2 DEF BudgetHolds, RateBounded, RetryAfterHonest
<1>. QED  BY <1>1, <1>3, <1>4, <1>5 DEF McpInv

\* What a bucket holds when it is asked: no more than it held and what flowed in.
LEMMA RefilledFacts ==
  ASSUME McpTypeOK, NEW n
  PROVE  /\ refilled(n) \in Nat /\ refilled(n) <= Full
         /\ n \in DOMAIN buckets => refilled(n) <= buckets[n].units + Flow(buckets[n].at, mcpClock)
<1>1. Full \in Nat /\ Full = 120 * PerMinute
  BY FullFacts DEF Full
<1>2. CASE n \notin DOMAIN buckets
  BY <1>1, <1>2 DEF refilled
<1>3. CASE n \in DOMAIN buckets
  <2> DEFINE u == buckets[n].units
             f == Flow(buckets[n].at, mcpClock)
  <2>1. u \in Nat /\ mcpClock - buckets[n].at \in Nat
    BY <1>3 DEF McpTypeOK, Bucket
  <2>2. f \in Nat
    BY <2>1, McpAssumption DEF Flow
  <2>3. refilled(n) = AtMost(Full, u + f)
    BY <1>1, <1>3 DEF refilled, Flow
  <2> HIDE DEF u, f
  <2>4. refilled(n) \in Nat /\ refilled(n) <= Full /\ refilled(n) <= u + f
    BY <1>1, <2>1, <2>2, <2>3 DEF AtMost
  <2>. QED  BY <2>4 DEF u, f
<1>. QED  BY <1>2, <1>3

\* What a call does to its caller's bucket and to nobody else's.
LEMMA TakeFacts ==
  ASSUME McpTypeOK, NEW name, NEW units \in Nat, take(name, units)
  PROVE  /\ DOMAIN buckets' = DOMAIN buckets \cup {name}
         /\ buckets'[name].units = IF units >= 120 THEN units - 120 ELSE units
         /\ buckets'[name].at = mcpClock
         /\ \A n \in DOMAIN buckets : n # name => buckets'[n] = buckets[n]
         /\ \A n \in DOMAIN buckets' : buckets'[n] \in Bucket /\ buckets'[n].at <= mcpClock
<1> DEFINE left == IF units >= 120 THEN units - 120 ELSE units
<1>1. /\ DOMAIN buckets' = DOMAIN buckets \cup {name}
      /\ buckets'[name] = [units |-> left, at |-> mcpClock]
      /\ \A n \in DOMAIN buckets : n # name => buckets'[n] = buckets[n]
  BY DEF take, With
<1>2. left \in Nat /\ mcpClock \in Nat
  BY DEF McpTypeOK
<1> HIDE DEF left
<1>3. \A n \in DOMAIN buckets' : buckets'[n] \in Bucket /\ buckets'[n].at <= mcpClock
  BY <1>1, <1>2 DEF McpTypeOK, Bucket
<1>. QED  BY <1>1, <1>3 DEF left

\* What a caller was served since its i-th call, and what its bucket would hold now.
LEMMA SpentSince ==
  ASSUME McpTypeOK, FlowInv, NEW i \in DOMAIN served
  PROVE  /\ CallerName(i) \in DOMAIN buckets
         /\ Cardinality(CallsOf(CallerName(i), i, Len(served))) \in Nat
         /\ served[i].at \in Int
         /\ 120 * Cardinality(CallsOf(CallerName(i), i, Len(served))) + refilled(CallerName(i))
              <= Full + Flow(served[i].at, mcpClock)
<1> DEFINE n == CallerName(i)
           c == Cardinality(CallsOf(n, i, Len(served)))
<1>1. n \in DOMAIN buckets /\ 120 * c + buckets[n].units <= Full + Flow(served[i].at, buckets[n].at)
  BY DEF FlowInv
<1>2. served[i].at \in Int /\ c \in Nat
  <2>1. served[i] \in Calls /\ Len(served) \in Nat /\ i \in Nat
    BY DEF McpTypeOK
  <2>2. IsFiniteSet(i..Len(served)) /\ CallsOf(n, i, Len(served)) \in SUBSET (i..Len(served))
    BY <2>1, FS_Interval DEF CallsOf
  <2>. QED  BY <2>1, <2>2, FS_Subset, FS_CardinalityType DEF Calls
<1>3. buckets[n].units \in Int /\ buckets[n].at \in Int /\ mcpClock \in Int
  BY <1>1 DEF McpTypeOK, Bucket
<1>4. refilled(n) \in Int /\ refilled(n) <= buckets[n].units + Flow(buckets[n].at, mcpClock)
  BY <1>1, RefilledFacts
<1> HIDE DEF n, c
<1>5. 120 * c \in Int
  BY <1>2
<1>6. 120 * c + refilled(n) <= Full + Flow(served[i].at, mcpClock)
  BY <1>1, <1>2, <1>3, <1>4, <1>5, CarriedOn
<1>. QED  BY <1>1, <1>2, <1>6 DEF n, c

\* A call that is let in takes one token of its caller's bucket.
LEMMA ServedStep ==
  ASSUME McpInv, NEW token \in Tokens, NEW caller \in mcpCaller(token),
         take(caller.name, refilled(caller.name)), refilled(caller.name) >= 120,
         served' = Append(served, [caller |-> caller, token |-> token, at |-> mcpClock]),
         promised' = [n \in DOMAIN promised \ {caller.name} |-> promised[n]],
         UNCHANGED <<mcpConfig, mcpClock>>
  PROVE  McpInv'
<1>0. McpTypeOK /\ KeysInv /\ FlowInv /\ PromiseInv /\ AgentsStayInScope /\ RateBounded /\ RetryAfterHonest
  BY DEF McpInv, BudgetHolds
<1> DEFINE name == caller.name
           units == refilled(name)
           call == [caller |-> caller, token |-> token, at |-> mcpClock]
           L == Len(served)
<1>1. units \in Nat /\ units <= Full /\ Full \in Nat /\ units >= 120
  BY <1>0, RefilledFacts, FullFacts
<1>2. /\ DOMAIN buckets' = DOMAIN buckets \cup {name}
      /\ buckets'[name].units = units - 120 /\ buckets'[name].at = mcpClock
      /\ \A n \in DOMAIN buckets : n # name => buckets'[n] = buckets[n]
      /\ \A n \in DOMAIN buckets' : buckets'[n] \in Bucket /\ buckets'[n].at <= mcpClock
  <2>1. take(name, units) /\ units \in Nat /\ (IF units >= 120 THEN units - 120 ELSE units) = units - 120
    BY <1>1
  <2> HIDE DEF units, name
  <2>. QED  BY <1>0, <2>1, TakeFacts
<1>3. mcpClock \in Nat /\ call \in Calls
  BY <1>0, CallerFacts DEF McpTypeOK, Calls
<1>4. /\ L \in Nat /\ DOMAIN served = 1..L /\ served' \in Seq(Calls)
      /\ DOMAIN served' = 1..(L + 1) /\ Len(served') = L + 1
  BY <1>0, <1>3 DEF McpTypeOK
<1>5. /\ \A i \in 1..L : served'[i] = served[i] /\ served[i] \in Calls
      /\ served'[L + 1] = call
  BY <1>0, <1>3, <1>4 DEF McpTypeOK
<1> HIDE DEF L, units
<1>6. McpTypeOK'
  BY <1>0, <1>2, <1>4 DEF McpTypeOK
<1>7. call.at = mcpClock /\ call.caller = caller /\ call.caller.name = name /\ call.token = token
  OBVIOUS
<1> HIDE DEF call, name
<1>8. ASSUME NEW i \in 1..(L + 1)
      PROVE  /\ CallerName(i)' \in DOMAIN buckets'
             /\ Cardinality(CallsOf(CallerName(i), i, Len(served))') \in Nat
             /\ served'[i].at \in Int
             /\ 120 * Cardinality(CallsOf(CallerName(i), i, Len(served))') + buckets'[CallerName(i)'].units
                  <= Full + Flow(served'[i].at, buckets'[CallerName(i)'].at)
  <2>1. CASE i = L + 1
    <3>1. CallerName(i)' = name /\ served'[i].at = mcpClock
      BY <1>5, <1>7, <2>1 DEF CallerName
    <3>2. CallsOf(CallerName(i), i, Len(served))' = {i}
      BY <1>4, <2>1 DEF CallsOf
    <3>3. Cardinality(CallsOf(CallerName(i), i, Len(served))') = 1
      BY <3>2, FS_Singleton
    <3>4. Flow(mcpClock, mcpClock) >= 0 /\ Flow(mcpClock, mcpClock) \in Int /\ mcpClock \in Int
      BY <1>3, FlowType
    <3>5. buckets'[name].units = units - 120 /\ buckets'[name].at = mcpClock /\ name \in DOMAIN buckets'
      BY <1>2
    <3>6. 120 * 1 + (units - 120) <= Full + Flow(mcpClock, mcpClock)
      BY <1>1, <3>4
    <3>7. /\ CallerName(i)' \in DOMAIN buckets' /\ served'[i].at \in Int
          /\ buckets'[CallerName(i)'].units = units - 120
          /\ Flow(served'[i].at, buckets'[CallerName(i)'].at) = Flow(mcpClock, mcpClock)
      BY <3>1, <3>4, <3>5
    <3>8. 120 * Cardinality(CallsOf(CallerName(i), i, Len(served))') + buckets'[CallerName(i)'].units
          = 120 * 1 + (units - 120)
      BY <3>3, <3>7
    <3>9. Cardinality(CallsOf(CallerName(i), i, Len(served))') \in Nat
      BY <3>3
    <3>. QED  BY <3>6, <3>7, <3>8, <3>9
  <2>2. CASE i \in 1..L
    <3> DEFINE n == CallerName(i)
               c == Cardinality(CallsOf(n, i, Len(served)))
    <3>1. i \in DOMAIN served /\ CallerName(i)' = n /\ served'[i].at = served[i].at
      BY <1>4, <1>5, <2>2 DEF CallerName
    <3>2. /\ n \in DOMAIN buckets /\ c \in Nat /\ served[i].at \in Int
          /\ 120 * c + refilled(n) <= Full + Flow(served[i].at, mcpClock)
          /\ 120 * c + buckets[n].units <= Full + Flow(served[i].at, buckets[n].at)
      BY <1>0, <3>1, SpentSince DEF FlowInv
    <3>3. Cardinality(CallsOf(CallerName(i), i, Len(served))') = c + (IF name = n THEN 1 ELSE 0)
      <4>1. CallsOf(CallerName(i), i, Len(served))' = CallsOf(n, i, Len(served))'
        BY <3>1 DEF CallsOf
      <4>. QED  BY <1>0, <1>3, <1>7, <3>1, <4>1, CountFacts DEF call
    <3> HIDE DEF c, n
    <3>4. CASE n = name
      <4>1. Cardinality(CallsOf(CallerName(i), i, Len(served))') = c + 1
        BY <3>3, <3>4
      <4>2. buckets'[n].units = units - 120 /\ buckets'[n].at = mcpClock
        BY <1>2, <3>4
      <4>3. 120 * c + units <= Full + Flow(served[i].at, mcpClock)
        BY <3>2, <3>4 DEF units
      <4>4. Flow(served[i].at, mcpClock) \in Int
        BY <1>3, <3>2, FlowType
      <4>5. 120 * (c + 1) + (units - 120) <= Full + Flow(served[i].at, mcpClock)
        BY <1>1, <3>2, <4>3, <4>4
      <4>6. 120 * Cardinality(CallsOf(CallerName(i), i, Len(served))') + buckets'[CallerName(i)'].units
            = 120 * (c + 1) + (units - 120)
        BY <3>1, <4>1, <4>2
      <4>7. /\ CallerName(i)' \in DOMAIN buckets' /\ served'[i].at \in Int
            /\ Cardinality(CallsOf(CallerName(i), i, Len(served))') \in Nat
            /\ Flow(served'[i].at, buckets'[CallerName(i)'].at) = Flow(served[i].at, mcpClock)
        BY <1>2, <3>1, <3>2, <3>4, <4>1, <4>2
      <4>. QED  BY <4>5, <4>6, <4>7
    <3>5. CASE n # name
      <4>1. buckets'[n] = buckets[n] /\ n \in DOMAIN buckets'
        BY <1>2, <3>2, <3>5
      <4>. QED  BY <3>1, <3>2, <3>3, <3>5, <4>1
    <3>. QED  BY <3>4, <3>5
  <2>. QED  BY <1>4, <2>1, <2>2
<1>9. FlowInv'
  BY <1>4, <1>8 DEF FlowInv
<1>10. RateBounded'
  <2> SUFFICES ASSUME NEW i \in 1..(L + 1), NEW j \in 1..(L + 1), i <= j
               PROVE  120 * Cardinality({k \in i..j : served'[k].caller.name = served'[i].caller.name})
                        <= 120 * PerMinute + (served'[j].at - served'[i].at) * PerMinute
    BY <1>4 DEF RateBounded
  <2>1. CASE j = L + 1
    <3> DEFINE n == CallerName(i)'
               c == Cardinality(CallsOf(CallerName(i), i, Len(served))')
    <3>1. {k \in i..j : served'[k].caller.name = served'[i].caller.name} = CallsOf(CallerName(i), i, Len(served))'
      BY <1>4, <2>1 DEF CallsOf, CallerName
    <3>2. /\ n \in DOMAIN buckets' /\ c \in Nat /\ served'[i].at \in Int
          /\ 120 * c + buckets'[n].units <= Full + Flow(served'[i].at, buckets'[n].at)
      BY <1>8
    <3>3. buckets'[n].units \in Nat /\ buckets'[n].at \in Int /\ buckets'[n].at <= mcpClock
      BY <1>2, <3>2 DEF Bucket
    <3>4. served'[j].at = mcpClock
      BY <1>5, <1>7, <2>1
    <3> HIDE DEF n, c
    <3>5. Flow(buckets'[n].at, mcpClock) >= 0 /\ Flow(buckets'[n].at, mcpClock) \in Int
      BY <1>3, <3>3, FlowType
    <3>6. /\ 120 * c \in Int /\ 0 \in Int /\ buckets'[n].units \in Int /\ mcpClock \in Int
          /\ 0 <= buckets'[n].units + Flow(buckets'[n].at, mcpClock)
      BY <1>3, <3>2, <3>3, <3>5
    <3>7. 120 * c + 0 <= Full + Flow(served'[i].at, mcpClock)
      BY <3>2, <3>3, <3>6, CarriedOn
    <3>8. 120 * c <= Full + Flow(served'[i].at, mcpClock)
      <4>1. 120 * c + 0 = 120 * c
        BY <3>6
      <4>. QED  BY <3>7, <4>1
    <3>. QED  BY <3>1, <3>4, <3>8 DEF c, Flow, Full
  <2>2. CASE j \in 1..L
    <3>1. i \in 1..L /\ \A k \in i..j : served'[k] = served[k]
      BY <1>4, <1>5, <2>2
    <3>2. {k \in i..j : served'[k].caller.name = served'[i].caller.name}
          = {k \in i..j : served[k].caller.name = served[i].caller.name}
      BY <1>5, <3>1
    <3>. QED  BY <1>0, <1>4, <1>5, <2>2, <3>1, <3>2 DEF RateBounded
  <2>3. j = L + 1 \/ j \in 1..L
    BY <1>4
  <2>. QED  BY <2>1, <2>2, <2>3
<1>11. PromiseInv' /\ RetryAfterHonest'
  BY <1>0, <1>2 DEF PromiseInv, RetryAfterHonest, name
<1>12. AgentsStayInScope'
  <2>1. \A i \in DOMAIN mcpConfig.mcp : ~apiAccepts(mcpConfig.mcp[i].key)'
    BY <1>0 DEF AgentsStayInScope, apiAccepts
  <2>2. ASSUME NEW i \in DOMAIN mcpConfig.mcp, NEW j \in 1..(L + 1), served'[j].token = mcpConfig.mcp[i].key
        PROVE  /\ served'[j].caller.scopes \subseteq mcpConfig.mcp[i].scopes
               /\ mcpConfig.mcp[i].expires # NoExpiry => served'[j].at < mcpConfig.mcp[i].expires
    <3>1. CASE j = L + 1
      <4>1. served'[j].token = token /\ served'[j].caller = caller /\ served'[j].at = mcpClock
        BY <1>5, <1>7, <3>1
      <4>2. mcpConfig.mcp[i].key = token
        BY <2>2, <4>1
      <4>. QED  BY <1>0, <4>1, <4>2, CallerFacts
    <3>2. CASE j \in 1..L
      BY <1>0, <1>4, <1>5, <2>2, <3>2 DEF AgentsStayInScope
    <3>. QED  BY <1>4, <3>1, <3>2
  <2>. QED  BY <1>4, <2>1, <2>2 DEF AgentsStayInScope
<1>. QED  BY <1>0, <1>6, <1>9, <1>10, <1>11, <1>12 DEF McpInv, KeysInv, BudgetHolds

\* A call that is refused fills its caller's bucket and tells it how long to wait.
LEMMA RefusedStep ==
  ASSUME McpInv, NEW token \in Tokens, NEW caller \in mcpCaller(token),
         take(caller.name, refilled(caller.name)), ~(refilled(caller.name) >= 120),
         promised' = With(promised, caller.name, retryAfter(refilled(caller.name))),
         UNCHANGED <<mcpConfig, mcpClock, served>>
  PROVE  McpInv'
<1> USE DEF McpInv
<1> DEFINE name == caller.name
           units == refilled(name)
<1>1. units \in Nat /\ units < 120
  BY RefilledFacts
<1>2. /\ DOMAIN buckets' = DOMAIN buckets \cup {name}
      /\ buckets'[name].units = units /\ buckets'[name].at = mcpClock
      /\ \A n \in DOMAIN buckets : n # name => buckets'[n] = buckets[n]
      /\ \A n \in DOMAIN buckets' : buckets'[n] \in Bucket /\ buckets'[n].at <= mcpClock
  <2>1. take(name, units) /\ (IF units >= 120 THEN units - 120 ELSE units) = units
    BY <1>1
  <2> HIDE DEF units, name
  <2>. QED  BY <1>1, <2>1, TakeFacts
<1> HIDE DEF units
<1>3. McpTypeOK'
  BY <1>2 DEF McpTypeOK
<1>4. FlowInv'
  <2> SUFFICES ASSUME NEW i \in DOMAIN served
               PROVE  /\ CallerName(i) \in DOMAIN buckets'
                      /\ 120 * Cardinality(CallsOf(CallerName(i), i, Len(served))) + buckets'[CallerName(i)].units
                           <= Full + Flow(served[i].at, buckets'[CallerName(i)].at)
    BY DEF FlowInv, CallerName, CallsOf
  <2>1. CASE CallerName(i) = name
    BY <1>2, <2>1, SpentSince DEF units
  <2>2. CASE CallerName(i) # name
    BY <1>2, <2>2 DEF FlowInv
  <2>. QED  BY <2>1, <2>2
<1>5. RateBounded'
  BY DEF BudgetHolds, RateBounded
<1>6. /\ DOMAIN promised' = DOMAIN promised \cup {name}
      /\ \A n \in DOMAIN promised' : promised'[n] = IF n = name THEN retryAfter(units) ELSE promised[n]
  BY DEF With, units
<1>7. PromiseInv'
  BY <1>2, <1>6 DEF PromiseInv
<1>8. RetryAfterHonest'
  <2> SUFFICES ASSUME NEW n \in DOMAIN promised'
               PROVE  /\ buckets'[n].units + promised'[n] * 2 * PerMinute >= 120
                      /\ buckets'[n].units + (promised'[n] - 1) * 2 * PerMinute < 120
    BY DEF RetryAfterHonest
  <2>1. CASE n = name
    <3>1. promised'[n] = retryAfter(units) /\ buckets'[n].units = units
      BY <1>2, <1>6, <2>1
    <3>. QED  BY <1>1, <3>1, RetryFacts
  <2>2. CASE n # name
    <3>1. n \in DOMAIN promised /\ promised'[n] = promised[n]
      BY <1>6, <2>2
    <3>2. buckets'[n] = buckets[n]
      BY <1>2, <2>2, <3>1 DEF PromiseInv
    <3>. QED  BY <3>1, <3>2 DEF BudgetHolds, RetryAfterHonest
  <2>. QED  BY <2>1, <2>2
<1>9. AgentsStayInScope'
  BY DEF AgentsStayInScope, apiAccepts
<1>. QED  BY <1>3, <1>4, <1>5, <1>7, <1>8, <1>9 DEF KeysInv, BudgetHolds

\* Serving or refusing one call keeps the bucket invariant.
LEMMA ServeStep ==
  ASSUME McpInv, NEW token \in Tokens, serveMCP(token)
  PROVE  McpInv'
<1>1. UNCHANGED <<mcpConfig, mcpClock>>
  BY DEF serveMCP
<1>2. PICK caller \in mcpCaller(token) :
        /\ take(caller.name, refilled(caller.name))
        /\ IF refilled(caller.name) >= 120
           THEN /\ served' = Append(served, [caller |-> caller, token |-> token, at |-> mcpClock])
                /\ promised' = [n \in DOMAIN promised \ {caller.name} |-> promised[n]]
           ELSE /\ promised' = With(promised, caller.name, retryAfter(refilled(caller.name)))
                /\ UNCHANGED served
  BY DEF serveMCP
<1>3. CASE refilled(caller.name) >= 120
  BY <1>1, <1>2, <1>3, ServedStep
<1>4. CASE ~(refilled(caller.name) >= 120)
  BY <1>1, <1>2, <1>4, RefusedStep
<1>. QED  BY <1>3, <1>4

\* Every step keeps the bucket invariant.
LEMMA McpStep ==
  ASSUME McpInv, [McpNext]_McpVars
  PROVE  McpInv'
<1>1. CASE McpPause
  <2>1. UNCHANGED <<mcpConfig, buckets, served, promised>> /\ mcpClock' \in Nat /\ mcpClock' >= mcpClock
    BY <1>1, McpAssumption DEF McpPause, McpInv, McpTypeOK
  <2>2. McpTypeOK'
    BY <2>1 DEF McpInv, McpTypeOK, Bucket
  <2>. QED  BY <2>1, <2>2 DEF McpInv, KeysInv, FlowInv, PromiseInv, CallerName, CallsOf, AgentsStayInScope,
                              apiAccepts, BudgetHolds, RateBounded, RetryAfterHonest
<1>2. CASE UNCHANGED McpVars
  BY <1>2 DEF McpVars, McpInv, McpTypeOK, KeysInv, FlowInv, PromiseInv, CallerName, CallsOf, AgentsStayInScope,
              apiAccepts, BudgetHolds, RateBounded, RetryAfterHonest
<1>. QED  BY <1>1, <1>2, ServeStep DEF McpNext

-------------------------------------------------------------------------------
(* McpAccess: the theorems                                                  *)

\* Settings that start have one caller per key, and every bucket accounts for what
\* its caller was served.
THEOREM McpInvariance == McpSpec => []McpInv
BY McpInvInit, McpStep, PTL DEF McpSpec

\* An agent's key never opens the page's API and is served within its scopes and
\* before its expiry, in every environment that starts (Load, mcpCaller).
THEOREM AgentsInScope == McpSpec => []AgentsStayInScope
<1>1. McpInv => AgentsStayInScope
  BY DEF McpInv
<1>. QED  BY <1>1, McpInvariance, PTL

\* Between any two served calls a caller has at most a full bucket and what flows
\* in meanwhile, and Retry-After is exact to the second (take).
THEOREM BudgetBinds == McpSpec => []BudgetHolds
<1>1. McpInv => BudgetHolds
  BY DEF McpInv
<1>. QED  BY <1>1, McpInvariance, PTL

=================================================================================

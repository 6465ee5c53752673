----------------------------- MODULE Providers -----------------------------
(***************************************************************************)
(* The provider registry (src/internal/provider) and the definitions it is *)
(* built from: the custom_provider rows, seeded once with the default      *)
(* platforms (src/internal/config/resolve.go) and edited by the page       *)
(* (src/internal/httpapi/customprovider.go).  Every Resolver.Load replaces *)
(* the registry as a whole, and every request and check round loads;       *)
(* database calls and the replacement are steps of their own.              *)
(*                                                                         *)
(* No adapter registers itself any more, so the map of built-in platforms  *)
(* is empty and the registry is the map of page-defined ones.              *)
(***************************************************************************)
EXTENDS Integers, FiniteSets, Overlay

CONSTANTS
  Defaults,        \* platforms of DefaultCustomProviders
  Extras,          \* names only the page defines
  ProvPages,       \* concurrent page requests
  ProvRound,       \* a check round, which only loads
  MaxProvEdits, MaxProvFaults,
  MaxProvEvents     \* edits and faults in all

ProvNames == Defaults \cup Extras
ProvProcs == ProvPages \cup {ProvRound}

\* A definition: two of its required fields, 0 for empty.
Shipped == [url |-> 1, path |-> 1]
Blank == [url |-> 0, path |-> 0]
Requests == {[url |-> 2, path |-> 2], [path |-> 3]}

Waiting == [pc |-> "idle"]

VARIABLES
  table,          \* custom_provider: a function on the names that have a row
  marker,         \* app_settings: the defaults were seeded
  registry,       \* dynamicSpecs: a function on the registered names
  projects,       \* stored projects: the platform and the form of its key
  task,           \* [ProvProcs -> where the load or request is]
  provEdits, provFaults,
  wanted,         \* ghost: the rows that seeding once and the page's requests make
  touched,        \* ghost: names the page saved or deleted
  contested,      \* ghost: names whose row a failure, a stale edit or a seeding beside it spoilt
  skipped,        \* ghost: defaults without a row whose seeding failed
  settled,        \* ghost: a clean load registered the rows and none was written since
  excusedUses     \* ghost: projects that may lose their platform

ProvVars == <<table, marker, registry, projects, task, provEdits, provFaults,
              wanted, touched, contested, skipped, settled, excusedUses>>

\* The defaults are registered when the process starts, before any load.
ProvInit ==
  /\ table = <<>> /\ wanted = <<>>
  /\ marker = FALSE
  /\ registry = [n \in Defaults |-> Shipped]
  /\ projects = {} /\ excusedUses = {}
  /\ task = [p \in ProvProcs |-> Waiting]
  /\ provEdits = 0 /\ provFaults = 0
  /\ touched = {} /\ contested = {} /\ skipped = {}
  /\ settled = FALSE

InTable(rows, n) == n \in DOMAIN rows

UpsertCustomProvider(rows, n, def) == Over(Entry(n, def), rows)

DeleteCustomProvider(rows, n) == [m \in DOMAIN rows \ {n} |-> rows[m]]

Complete(def) == def.url # 0 /\ def.path # 0

Proceed(p, state) == task' = [task EXCEPT ![p] = state]

ProvRoom == provEdits + provFaults < MaxProvEvents

ProvFault == ProvRoom /\ provFaults < MaxProvFaults /\ provFaults' = provFaults + 1

\* CustomProviders: a failed query is logged and gives no rows.
CustomProviders(rows) == \/ rows = table /\ UNCHANGED provFaults
                         \/ rows = <<>> /\ ProvFault

\* Resolver.Load, on its way to `then'.
Load(then, name) == [pc |-> "projects", then |-> then, name |-> name]

-----------------------------------------------------------------------------
(* Resolver.Load.                                                          *)

\* fromDatabase: a failed project list counts as no projects.
ListProjects(p) ==
  LET w == task[p]
  IN  /\ w.pc = "projects"
      /\ \/ Proceed(p, Over([pc |-> "list", uses |-> projects, blind |-> FALSE], w))
            /\ UNCHANGED provFaults
         \/ ProvFault /\ Proceed(p, Over([pc |-> "list", uses |-> {}, blind |-> FALSE], w))
      /\ UNCHANGED <<table, marker, registry, projects, provEdits, wanted, touched, contested, skipped, settled, excusedUses>>

\* registerCustomProviders reads the rows...
ListDefinitions(p) ==
  LET w == task[p]
  IN  /\ w.pc = "list"
      /\ \E rows \in {table, <<>>} :
           /\ CustomProviders(rows)
           /\ Proceed(p, Over([pc |-> "marker", blind |-> rows # table, rows |-> rows, fresh |-> TRUE,
                               seen |-> touched, todo |-> {}], w))
      /\ UNCHANGED <<table, marker, registry, projects, provEdits, wanted, touched, contested, skipped, settled, excusedUses>>

\* Mutant: whatever default is missing is seeded, marker or not.
UnseededAlways == TRUE

Unseeded == ~marker

\* ...and the marker; one that cannot be read counts as unset.
ReadMarker(p) ==
  LET w == task[p]
      seed == [w EXCEPT !.pc = "seed", !.todo = Defaults \ DOMAIN w.rows]
  IN  /\ w.pc = "marker"
      /\ \/ Unseeded /\ Proceed(p, seed) /\ UNCHANGED provFaults
         \/ ~Unseeded /\ Proceed(p, [w EXCEPT !.pc = "install"]) /\ UNCHANGED provFaults
         \/ ProvFault /\ Proceed(p, [seed EXCEPT !.blind = TRUE])
      /\ UNCHANGED <<table, marker, registry, projects, provEdits, wanted, touched, contested, skipped, settled, excusedUses>>

\* A write makes every list that was read before it stale.
Outdated(p, state) ==
  task' = [q \in ProvProcs |-> IF q = p THEN state
                               ELSE IF task[q].pc \in {"marker", "seed", "relist", "install"}
                                    THEN [task[q] EXCEPT !.fresh = FALSE] ELSE task[q]]

\* One missing default is stored; a write that fails is passed over.  What the page
\* did to that name is undone only when this load read blindly or the page acted
\* after this load listed the rows.
SeedDefault(p, n) ==
  LET w == task[p]
  IN  /\ w.pc = "seed" /\ n \in w.todo
      /\ \/ /\ table' = UpsertCustomProvider(table, n, Shipped)
            /\ settled' = FALSE
            /\ Outdated(p, [w EXCEPT !.todo = @ \ {n}])
            /\ contested' = IF n \in touched /\ (w.blind \/ n \notin w.seen)
                            THEN contested \cup {n} ELSE contested
            /\ wanted' = IF n \in touched THEN wanted ELSE UpsertCustomProvider(wanted, n, Shipped)
            /\ skipped' = skipped \ {n}
            /\ UNCHANGED provFaults
         \/ /\ ProvFault
            /\ Proceed(p, [w EXCEPT !.todo = @ \ {n}])
            /\ skipped' = IF InTable(table, n) THEN skipped ELSE skipped \cup {n}
            /\ UNCHANGED <<table, wanted, contested, settled>>
      /\ UNCHANGED <<marker, registry, projects, provEdits, touched, excusedUses>>

\* A failed write of the marker leaves the seeding to the next load.
SetMarker(p) ==
  /\ task[p].pc = "seed" /\ task[p].todo = {}
  /\ Proceed(p, [task[p] EXCEPT !.pc = "relist"])
  /\ \/ marker' = TRUE /\ UNCHANGED provFaults
     \/ ProvFault /\ UNCHANGED marker
  /\ UNCHANGED <<table, registry, projects, provEdits, wanted, touched, contested, skipped, settled, excusedUses>>

Relist(p) ==
  LET w == task[p]
  IN  /\ w.pc = "relist"
      /\ \E rows \in {table, <<>>} :
           /\ CustomProviders(rows)
           /\ Proceed(p, [w EXCEPT !.pc = "install", !.rows = rows, !.fresh = TRUE, !.blind = rows # table])
      /\ UNCHANGED <<table, marker, registry, projects, provEdits, wanted, touched, contested, skipped, settled, excusedUses>>

\* ReplaceDynamic swaps the whole set; invalid rows are skipped.
ReplaceDynamic(rows) == registry' = [n \in {m \in DOMAIN rows : Complete(rows[m])} |-> rows[n]]

\* The projects the load saw do not name the platform by its custom: key.
Deletable(w) == [name |-> w.name, form |-> "custom"] \notin w.uses

\* The registry is replaced and the request goes on.
Install(p) ==
  LET w == task[p]
  IN  /\ w.pc = "install"
      /\ ReplaceDynamic(w.rows)
      /\ settled' = (w.fresh /\ ~w.blind)
      /\ Proceed(p, IF w.then = "erase" /\ Deletable(w)
                    THEN [pc |-> "erase", name |-> w.name, uses |-> w.uses] ELSE Waiting)
      /\ UNCHANGED <<table, marker, projects, provEdits, provFaults, wanted, touched, contested, skipped, excusedUses>>

\* A check round, or any request that only reads the configuration.
LoadAlone ==
  /\ task[ProvRound] = Waiting
  /\ Proceed(ProvRound, Load("done", CHOOSE n \in ProvNames : TRUE))
  /\ UNCHANGED <<table, marker, registry, projects, provEdits, provFaults, wanted, touched, contested, skipped, settled, excusedUses>>

-----------------------------------------------------------------------------
(* The handlers.                                                           *)

\* Lookup resolves the bare name onto its custom: definition.
Lookup(n) == n \in DOMAIN registry

Begin(p) ==
  /\ task[p] = Waiting
  /\ ProvRoom /\ provEdits < MaxProvEdits /\ provEdits' = provEdits + 1
  /\ UNCHANGED <<table, marker, registry, projects, provFaults, wanted, touched, contested, skipped, settled, excusedUses>>

handleSaveCustomProvider(p, n, patch) ==
  /\ Begin(p)
  /\ ~Lookup(n)
  /\ Proceed(p, [pc |-> "find", name |-> n, patch |-> patch])

\* "... is a built-in provider; pick another name".
RefuseSave(p, n) ==
  /\ Begin(p)
  /\ Lookup(n)
  /\ UNCHANGED task

\* The fields that are given, over the row or over a blank definition.
applyCustomProviderPatch(rows, n, patch) == Over(patch, IF InTable(rows, n) THEN rows[n] ELSE Blank)

findCustomProvider(p) ==
  LET w == task[p]
  IN  /\ w.pc = "find"
      /\ \E rows \in {table, <<>>} :
           LET target == applyCustomProviderPatch(rows, w.name, w.patch)
           IN  /\ CustomProviders(rows)
               /\ Proceed(p, IF Complete(target)
                             THEN Over([pc |-> "upsert", row |-> target, read |-> rows], w) ELSE Waiting)
      /\ UNCHANGED <<table, marker, registry, projects, provEdits, wanted, touched, contested, skipped, settled, excusedUses>>

SaveDefinition(p) ==
  LET w == task[p]
      Old(rows) == IF InTable(rows, w.name) THEN {rows[w.name]} ELSE {}
  IN  /\ w.pc = "upsert"
      /\ \/ /\ table' = UpsertCustomProvider(table, w.name, w.row)
            /\ wanted' = UpsertCustomProvider(wanted, w.name, applyCustomProviderPatch(wanted, w.name, w.patch))
            /\ touched' = touched \cup {w.name}
            /\ contested' = IF ~marker \/ Old(w.read) # Old(table) THEN contested \cup {w.name} ELSE contested
            /\ settled' = FALSE
            /\ Outdated(p, Load("done", w.name))
            /\ UNCHANGED provFaults
         \/ /\ ProvFault /\ Proceed(p, Waiting)
            /\ UNCHANGED <<table, wanted, touched, contested, settled>>
      /\ UNCHANGED <<marker, registry, projects, provEdits, skipped, excusedUses>>

handleDeleteCustomProvider(p, n) == Begin(p) /\ Proceed(p, Load("erase", n))

EraseDefinition(p) ==
  LET w == task[p]
  IN  /\ w.pc = "erase"
      /\ \/ /\ table' = DeleteCustomProvider(table, w.name)
            /\ wanted' = DeleteCustomProvider(wanted, w.name)
            /\ touched' = touched \cup {w.name}
            /\ contested' = IF marker THEN contested ELSE contested \cup {w.name}
            /\ excusedUses' = excusedUses \cup {use \in projects : /\ use.name = w.name
                                                                 /\ (use.form = "bare" \/ use \notin w.uses)}
            /\ settled' = FALSE
            /\ Outdated(p, Load("done", w.name))
            /\ UNCHANGED provFaults
         \/ /\ ProvFault /\ Proceed(p, Waiting)
            /\ UNCHANGED <<table, wanted, touched, contested, excusedUses, settled>>
      /\ UNCHANGED <<marker, registry, projects, provEdits, skipped>>

\* handleAddProject stores a project whose platform is registered, under the bare
\* or the custom: key; the handler is modelled in Dashboard.
AddProject(n, form) ==
  LET project == [name |-> n, form |-> form]
  IN  /\ Lookup(n) /\ project \notin projects
      /\ ProvRoom /\ provEdits < MaxProvEdits /\ provEdits' = provEdits + 1
      /\ projects' = projects \cup {project}
      /\ excusedUses' = IF InTable(table, n) THEN excusedUses ELSE excusedUses \cup {project}
      /\ UNCHANGED <<table, marker, registry, task, provFaults, wanted, touched, contested, skipped, settled>>

\* The process restarts with the defaults registered.
RestartProviders ==
  /\ ProvFault
  /\ task' = [p \in ProvProcs |-> Waiting]
  /\ registry' = [n \in Defaults |-> Shipped]
  /\ settled' = FALSE
  /\ UNCHANGED <<table, marker, projects, provEdits, wanted, touched, contested, skipped, excusedUses>>

ProvNext ==
  \/ LoadAlone
  \/ RestartProviders
  \/ \E p \in ProvProcs :
       \/ ListProjects(p) \/ ListDefinitions(p) \/ ReadMarker(p)
       \/ \E n \in Defaults : SeedDefault(p, n)
       \/ SetMarker(p) \/ Relist(p) \/ Install(p)
  \/ \E p \in ProvPages, n \in ProvNames :
       \/ \E patch \in Requests : handleSaveCustomProvider(p, n, patch)
       \/ RefuseSave(p, n)
       \/ handleDeleteCustomProvider(p, n)
  \/ \E p \in ProvPages : findCustomProvider(p) \/ SaveDefinition(p) \/ EraseDefinition(p)
  \/ \E n \in ProvNames, form \in {"bare", "custom"} : AddProject(n, form)

ProvSpec == ProvInit /\ [][ProvNext]_ProvVars

-----------------------------------------------------------------------------
(* Properties.                                                             *)

\* The page has the last word on a definition: a default it deleted stays
\* deleted and a definition it saved keeps its fields, through any number of
\* loads beside it.  Only a failed read, a request before the seeding was marked
\* as done or one beside a load that still seeds can bring a default back or
\* overwrite an edit.
PageWins ==
  \A n \in touched \ contested :
    (InTable(table, n) <=> InTable(wanted, n)) /\ (InTable(table, n) => table[n] = wanted[n])

\* Once a load that read everything has registered its list and nothing was
\* written since, the registry is the table; older loads that end later are what
\* makes it stale again, until the next one.
RegistryTracks == settled => registry = table

\* Once the seeding is marked as done every default has its row, unless the page
\* decided otherwise or its own write failed: the marker is set all the same, so no
\* later load adds that one, unless the marker cannot be read.
DefaultsSeeded == marker => \A n \in Defaults \ (touched \cup skipped) : InTable(table, n)

\* A project keeps the definition of its platform, whichever key it is stored
\* under, unless it was stored while the definition was being deleted, or the
\* project list could not be read, or it names the deleted platform by its bare
\* name, which the delete does not look for.
UsedPlatformStays == \A use \in projects \ excusedUses : InTable(table, use.name)

\* What the page did to the definitions lasts, lookups follow it, the defaults
\* arrive, and a project loses its platform in the listed cases only, however
\* loads, edits and failures interleave.
DefinitionsLast == PageWins /\ RegistryTracks /\ DefaultsSeeded /\ UsedPlatformStays

\* "Delete; refused while a project still uses it": no delete goes on with a
\* definition that a project in the list it read is looked up by.
RefusedWhileUsed ==
  \A p \in ProvPages : task[p].pc = "erase" => \A use \in task[p].uses : use.name # task[p].name

=============================================================================

-------------------------- MODULE SubscriptionsProofs --------------------------
(***************************************************************************)
(* Proofs about Subscriptions, for every set of names and pages, every     *)
(* cooldown, row limit and bound: the reminders implement the cooldown of  *)
(* Throttle, edits compose, and a clean check reminds.                     *)
(***************************************************************************)
EXTENDS Subscriptions, FiniteSetTheorems, TLAPS

-------------------------------------------------------------------------------
(* The invariant                                                            *)

CheckFields == {"pc", "dry", "rows", "todo", "results", "clean"}
JobFields == {"pc", "renames", "from", "name", "patch", "row", "read", "base", "gone"}

\* A check that runs holds the rows it loaded; one that has asked for a cooldown
\* is about a name.
CheckShape(w) ==
  \/ w.pc = "check" /\ DOMAIN w = CheckFields
  \/ w.pc = "send" /\ DOMAIN w = CheckFields \cup {"name"} /\ w.name \in Names
  \/ /\ w.pc = "record" /\ DOMAIN w = CheckFields \cup {"name", "status"}
     /\ w.name \in Names /\ w.status \in Statuses

\* An edit has made its row of the one it read, or of a new one.
JobShape(w) ==
  /\ w.pc \in {"remove", "save"} /\ DOMAIN w = JobFields
  /\ w.renames \in BOOLEAN /\ w.from \in Names
  /\ ~w.renames => w.pc = "save" /\ w.name = w.from
  /\ DOMAIN w.patch \subseteq Edited
  /\ \E r \in w.read \cup {Over(NewRow, Unset)} :
       w.read \subseteq {r} /\ DOMAIN r = Edited \cup Settings /\ w.row = Over(w.patch, r)
  /\ \A r \in w.base : w.base = {r} /\ DOMAIN r = Edited \cup Settings

WorkerShape(w) == w.pc \in {"idle", "load", "drop"} \/ CheckShape(w) \/ JobShape(w)

\* Rows have every column.
Whole(rows) == \A n \in DOMAIN rows : DOMAIN rows[n] = Edited \cup Settings

SubTypeOK ==
  /\ now \in Nat /\ subFaults \in Nat
  /\ IsFiniteSet(reminders)
  /\ \A r \in reminders : r.at \in Nat /\ r.at <= now
  /\ delivered \in [Names -> Nat \cup {NoMark}]
  /\ \A n \in Names : delivered[n] <= now
  /\ grace \in [Names -> Nat]
  /\ DOMAIN worker = SubProcs
  /\ \A p \in SubProcs : WorkerShape(worker[p])
  /\ Whole(subscriptions) /\ Whole(intended)

\* Checks that may deliver n, or gave up: they have asked for its cooldown, and if
\* they have delivered, they do not know.
Undelivered(w, n) ==
  (w.pc = "send" \/ (w.pc = "record" /\ w.status = "failed")) /\ w.name = n

OpenFor(n) == {p \in SubProcs : Undelivered(worker[p], n)}

\* A check has delivered n and not yet recorded it.
Unrecorded(n) == \E p \in SubProcs : worker[p].pc = "record" /\ worker[p].status = "sent" /\ worker[p].name = n

Recent(n) == delivered[n] # NoMark /\ now - delivered[n] < SubCooldown

\* The next query of n's cooldown will see a row of the last delivery or of a later one.
Visible(n) == \E t \in LastSentAlert(reminders, n, SubCooldown, now) : delivered[n] <= t

\* Every check that may still deliver n early has been excused, and a delivery the
\* store will not be seen to remember has been excused too.
GraceInv ==
  \A n \in Names :
    /\ Recent(n) => grace[n] >= Cardinality(OpenFor(n))
    /\ ~Recent(n) => grace[n] >= Cardinality(OpenFor(n)) - 1
    /\ Recent(n) /\ ~Unrecorded(n) /\ ~Visible(n) => grace[n] >= 1

\* What a rename is about to write is the row it removed, but for the patch and the
\* columns it has read too early.
RenamesCompose ==
  \A p \in SubProcs :
    LET job == worker[p]
    IN  job.pc = "save" /\ job.renames =>
          \A b \in job.base, c \in Edited \ (job.gone \cup DOMAIN job.patch) : b[c] = job.row[c]

\* EditsCompose, one name at a time.
Agrees(n) ==
  /\ Has(subscriptions, n) <=> Has(intended, n)
  /\ \A c \in Edited \cup Settings :
       Has(subscriptions, n) /\ <<n, c>> \notin amiss => subscriptions[n][c] = intended[n][c]

\* Of these rows, one is a reminder of n sent just now or within the cooldown.
RemindedIn(rows, n, time) ==
  \E r \in rows : r.key = n /\ r.status = "sent" /\ (r.at = time \/ time < r.at + SubCooldown)

\* Verdict at a given time.
VerdictAt(row, dry, time) ==
  LET today == FirstDay + (time + row.zone) \div Day
      due == DueOn[[cycle |-> "weekly", day |-> row.day, before |-> row.before, mark |-> row.renewed], today]
      snoozed == row.snoozed # NoMark /\ row.snoozed >= today
  IN  CASE ~due -> "quiet"
        [] due /\ snoozed -> "snoozed"
        [] due /\ ~snoozed -> IF dry THEN "dry_run" ELSE "due"

\* A check has looked at every enabled row or has it to do, and what it has looked
\* at without a failure, on this day, was reminded when it was due.
CheckedSoFar(w, rows, time) ==
  w.pc \in Checking =>
    /\ w.todo \cup w.results = {n \in DOMAIN w.rows : w.rows[n].enabled}
    /\ w.pc # "check" => w.name \in w.todo
    /\ w.pc = "record" /\ w.clean => w.status = "sent"
    /\ w.clean => \A n \in w.results :
         VerdictAt(w.rows[n], w.dry, time) = "due" /\ HasNotifier => RemindedIn(rows, n, time)

CheckInv == \A p \in SubProcs : CheckedSoFar(worker[p], reminders, now)

SubInv == SubTypeOK /\ GraceInv /\ RenamesCompose /\ EditsCompose /\ CheckInv

-------------------------------------------------------------------------------
(* Facts about the operators                                                *)

\* What one map laid over another holds.
LEMMA OverFacts ==
  ASSUME NEW f, NEW g
  PROVE  /\ DOMAIN Over(f, g) = DOMAIN f \cup DOMAIN g
         /\ \A x \in DOMAIN f : Over(f, g)[x] = f[x]
         /\ \A x \in DOMAIN g : x \notin DOMAIN f => Over(f, g)[x] = g[x]
BY DEF Over

\* A map with one entry.
LEMMA EntryFacts ==
  ASSUME NEW x, NEW v
  PROVE  DOMAIN Entry(x, v) = {x} /\ Entry(x, v)[x] = v
BY DEF Entry

\* One process moves on.
LEMMA GoFacts ==
  ASSUME DOMAIN worker = SubProcs, NEW p \in SubProcs, NEW state, Go(p, state)
  PROVE  /\ DOMAIN worker' = SubProcs /\ worker'[p] = state
         /\ \A q \in SubProcs : q # p => worker'[q] = worker[q]
BY DEF Go

\* A new row has every column.
LEMMA NewRowFacts == DOMAIN Over(NewRow, Unset) = Edited \cup Settings
<1>1. DOMAIN NewRow = Edited /\ DOMAIN Unset = Settings
  BY DEF NewRow, Unset, Edited, Settings
<1>. QED  BY <1>1, OverFacts

\* A request's row is made of the one it read, or of a new one.
LEMMA JobFacts ==
  ASSUME NEW rows, \A n \in DOMAIN rows : DOMAIN rows[n] = Edited \cup Settings,
         NEW from \in Names, NEW newName, newName = {} \/ \E m \in Names : newName = {m},
         NEW patch, DOMAIN patch \subseteq Edited, NEW job \in Job(from, newName, rows, patch)
  PROVE  JobShape(job) /\ ~(job.pc = "save" /\ job.renames)
<1> DEFINE base == IF Has(rows, from) THEN rows[from] ELSE Over(NewRow, Unset)
           name == CHOOSE n \in newName \cup {from} : newName # {} => n \in newName
<1>1. PICK row \in applySubscriptionPatch(base, patch) :
        job = [pc |-> IF newName = {} THEN "save" ELSE "remove", renames |-> newName # {},
               from |-> from, name |-> name, patch |-> patch, row |-> row,
               read |-> RowOf(rows, from), base |-> {}, gone |-> {}]
  BY DEF Job
<1>2. row = Over(patch, base)
  BY <1>1 DEF applySubscriptionPatch
<1>3. DOMAIN base = Edited \cup Settings
  BY NewRowFacts DEF Has
<1>4. newName = {} => name = from
  OBVIOUS
<1> HIDE DEF base, name
<1>5. /\ job.pc = IF newName = {} THEN "save" ELSE "remove"
      /\ job.renames = (newName # {}) /\ job.from = from /\ job.name = name /\ job.patch = patch
      /\ job.row = row /\ job.read = RowOf(rows, from) /\ job.base = {}
      /\ DOMAIN job = JobFields
  BY <1>1 DEF JobFields
<1>6. \E r \in job.read \cup {Over(NewRow, Unset)} :
        job.read \subseteq {r} /\ DOMAIN r = Edited \cup Settings /\ job.row = Over(job.patch, r)
  <2>1. base \in job.read \cup {Over(NewRow, Unset)} /\ job.read \subseteq {base}
    BY <1>5 DEF base, RowOf
  <2>. QED  BY <1>2, <1>3, <1>5, <2>1
<1>7. job.renames \in BOOLEAN /\ (~job.renames => job.pc = "save" /\ job.name = job.from)
  BY <1>4, <1>5
<1>8. job.pc \in {"remove", "save"} /\ ~(job.pc = "save" /\ job.renames)
  BY <1>5
<1>. QED  BY <1>5, <1>6, <1>7, <1>8 DEF JobShape

\* What every handler that edits a row by reading it first leaves behind.
LEMMA HandlerFacts ==
  ASSUME SubTypeOK, NEW p \in SubPages, NEW n \in EditNames,
         \/ \E patch \in Patches : handleAddSubscription(p, n, patch)
         \/ \E patch \in Patches, newName \in {{}} \cup {{m} : m \in Names} :
              handleUpdateSubscription(p, n, newName, patch)
         \/ handleMarkRenewed(p, n) \/ handleClearRenewed(p, n) \/ handleDeleteSubscription(p, n)
  PROVE  /\ UNCHANGED <<now, subscriptions, reminders, delivered, grace, intended, spoilt, amiss>>
         /\ subFaults' \in Nat
         /\ worker[p].pc = "idle"
         /\ \E job : /\ Go(p, job)
                     /\ job.pc = "drop" \/ (JobShape(job) /\ ~(job.pc = "save" /\ job.renames))
<1>1. StartEdit(p) => /\ UNCHANGED <<now, subscriptions, reminders, delivered, grace, intended, spoilt, amiss>>
                      /\ worker[p].pc = "idle"
  BY DEF StartEdit, Free, Idle
<1>2. \A rows : Loaded(rows) => subFaults' \in Nat
  BY DEF Loaded, Fault, SubTypeOK
<1>3. n \in Names
  BY SubscriptionAssumption
<1>4. \A m \in DOMAIN subscriptions : DOMAIN subscriptions[m] = Edited \cup Settings
  BY DEF SubTypeOK, Whole
<1>5. CASE \E patch \in Patches : handleAddSubscription(p, n, patch)
  <2>1. PICK patch \in Patches, rows \in {subscriptions, <<>>} :
          Loaded(rows) /\ StartEdit(p) /\ \E job \in Job(n, {}, rows, Over(patch, NewRow)) : Go(p, job)
    BY <1>5 DEF handleAddSubscription
  <2>2. DOMAIN Over(patch, NewRow) \subseteq Edited
    <3>1. DOMAIN NewRow = Edited /\ DOMAIN patch \subseteq Edited
      BY SubscriptionAssumption DEF NewRow, Edited
    <3>. QED  BY <3>1, OverFacts
  <2>3. \A m \in DOMAIN rows : DOMAIN rows[m] = Edited \cup Settings
    <3>1. DOMAIN <<>> = {}
      OBVIOUS
    <3>2. CASE rows = <<>>
      BY <3>1, <3>2
    <3>3. CASE rows = subscriptions
      BY <1>4, <3>3
    <3>. QED  BY <3>2, <3>3
  <2>4. \A job \in Job(n, {}, rows, Over(patch, NewRow)) : JobShape(job) /\ ~(job.pc = "save" /\ job.renames)
    BY <1>3, <2>2, <2>3, JobFacts
  <2>. QED  BY <1>1, <1>2, <2>1, <2>4
<1>6. CASE \E patch \in Patches, newName \in {{}} \cup {{m} : m \in Names} :
             handleUpdateSubscription(p, n, newName, patch)
  <2>1. PICK patch \in Patches, newName \in {{}} \cup {{m} : m \in Names} :
          StartEdit(p) /\ UNCHANGED subFaults /\ \E job \in Job(n, newName, subscriptions, patch) : Go(p, job)
    BY <1>6 DEF handleUpdateSubscription
  <2>2. DOMAIN patch \subseteq Edited
    BY SubscriptionAssumption
  <2>3. \A job \in Job(n, newName, subscriptions, patch) : JobShape(job) /\ ~(job.pc = "save" /\ job.renames)
    BY <1>3, <1>4, <2>2, JobFacts
  <2>. QED  BY <1>1, <2>1, <2>3 DEF SubTypeOK
<1>7. CASE handleMarkRenewed(p, n) \/ handleClearRenewed(p, n)
  <2>1. PICK v : StartEdit(p) /\ UNCHANGED subFaults /\ \E job \in Job(n, {}, subscriptions, [renewed |-> v]) : Go(p, job)
    BY <1>7 DEF handleMarkRenewed, handleClearRenewed
  <2>2. DOMAIN [renewed |-> v] \subseteq Edited
    BY DEF Edited
  <2>3. \A job \in Job(n, {}, subscriptions, [renewed |-> v]) : JobShape(job) /\ ~(job.pc = "save" /\ job.renames)
    BY <1>3, <1>4, <2>2, JobFacts
  <2>. QED  BY <1>1, <2>1, <2>3 DEF SubTypeOK
<1>8. CASE handleDeleteSubscription(p, n)
  BY <1>1, <1>8 DEF handleDeleteSubscription, SubTypeOK
<1>. QED  BY <1>5, <1>6, <1>7, <1>8

\* One table is the other with a row put in.
IsPut(new, rows, n, row) ==
  /\ DOMAIN new = DOMAIN rows \cup {n} /\ new[n] = row
  /\ \A m \in DOMAIN rows : m # n => new[m] = rows[m]

\* A row put into a table is there, and the others stay.
LEMMA PutFacts ==
  ASSUME NEW rows, NEW n, NEW put
  PROVE  IsPut(Over(Entry(n, put), rows), rows, n, put)
<1> DEFINE entry == Entry(n, put)
<1>1. DOMAIN entry = {n} /\ entry[n] = put
  BY EntryFacts
<1> HIDE DEF entry
<1>2. /\ DOMAIN Over(entry, rows) = DOMAIN entry \cup DOMAIN rows
      /\ \A x \in DOMAIN entry : Over(entry, rows)[x] = entry[x]
      /\ \A x \in DOMAIN rows : x \notin DOMAIN entry => Over(entry, rows)[x] = rows[x]
  BY OverFacts
<1>. QED  BY <1>1, <1>2 DEF entry, IsPut

\* new is the row b, but for what patch sets.
IsPatched(new, patch, b) ==
  /\ DOMAIN new = Edited \cup Settings
  /\ \A c \in DOMAIN patch : new[c] = patch[c]
  /\ \A c \in Edited \cup Settings : c \notin DOMAIN patch => new[c] = b[c]
  /\ \A c \in Settings : new[c] = b[c]

\* A patch replaces its columns of a whole row and no others.
LEMMA PatchedRow ==
  ASSUME NEW patch, DOMAIN patch \subseteq Edited, NEW b, DOMAIN b = Edited \cup Settings
  PROVE  IsPatched(Over(patch, b), patch, b)
<1>1. Edited \cap Settings = {}
  BY DEF Edited, Settings
<1>2. /\ DOMAIN Over(patch, b) = DOMAIN patch \cup DOMAIN b
      /\ \A x \in DOMAIN patch : Over(patch, b)[x] = patch[x]
      /\ \A x \in DOMAIN b : x \notin DOMAIN patch => Over(patch, b)[x] = b[x]
  BY OverFacts
<1>. QED  BY <1>1, <1>2 DEF IsPatched

\* The columns an edit writes, and the row it lays them over.
EditedOf(row) == [c \in Edited |-> row[c]]
OldRow(rows, n) == IF Has(rows, n) THEN rows[n] ELSE Unset

\* One table is the other with the edited columns of a row written.
IsUpserted(new, rows, n, row) ==
  /\ Whole(new)
  /\ DOMAIN new = DOMAIN rows \cup {n}
  /\ \A c \in Edited : new[n][c] = row[c]
  /\ \A c \in Settings : new[n][c] = OldRow(rows, n)[c]
  /\ \A m \in DOMAIN rows : m # n => new[m] = rows[m]

\* The upsert writes the edited columns of one row, and keeps its settings.
LEMMA UpsertFacts ==
  ASSUME NEW rows, Whole(rows), NEW n, NEW row
  PROVE  IsUpserted(UpsertSubscription(rows, n, row), rows, n, row)
<1> DEFINE old == OldRow(rows, n)
           edited == EditedOf(row)
           put == Over(edited, old)
           new == UpsertSubscription(rows, n, row)
<1>1. new = Over(Entry(n, put), rows)
  BY DEF UpsertSubscription, EditedOf, OldRow
<1>2. DOMAIN old = Edited \cup Settings \/ DOMAIN old = Settings
  <2>1. DOMAIN Unset = Settings
    BY DEF Unset, Settings
  <2>. QED  BY <2>1 DEF Whole, Has, OldRow
<1>3. DOMAIN edited = Edited /\ \A c \in Edited : edited[c] = row[c]
  BY DEF EditedOf
<1>4. Edited \cap Settings = {}
  BY DEF Edited, Settings
<1> HIDE DEF old, edited
<1>5. /\ DOMAIN put = DOMAIN edited \cup DOMAIN old
      /\ \A c \in DOMAIN edited : put[c] = edited[c]
      /\ \A c \in DOMAIN old : c \notin DOMAIN edited => put[c] = old[c]
  BY OverFacts
<1> HIDE DEF put
<1>6. DOMAIN put = Edited \cup Settings /\ (\A c \in Edited : put[c] = row[c]) /\ (\A c \in Settings : put[c] = old[c])
  BY <1>2, <1>3, <1>4, <1>5
<1>7. DOMAIN new = DOMAIN rows \cup {n} /\ new[n] = put /\ \A m \in DOMAIN rows : m # n => new[m] = rows[m]
  <2> HIDE DEF new
  <2>1. IsPut(new, rows, n, put)
    BY <1>1, PutFacts
  <2>. QED  BY <2>1 DEF IsPut
<1> HIDE DEF new
<1>8. Whole(new)
  BY <1>6, <1>7 DEF Whole
<1>9. IsUpserted(new, rows, n, row)
  BY <1>6, <1>7, <1>8 DEF old, IsUpserted
<1>. QED  BY <1>9 DEF new

\* Deleting a row leaves the others, and so does no longer wanting one.
LEMMA DeleteFacts ==
  ASSUME NEW rows, NEW n
  PROVE  /\ DeleteSubscription(rows, n) = Without(rows, n)
         /\ LET new == Without(rows, n)
            IN  /\ Whole(rows) => Whole(new)
                /\ DOMAIN new = DOMAIN rows \ {n}
                /\ \A m \in DOMAIN new : new[m] = rows[m]
BY DEF DeleteSubscription, Without, Whole

\* Setting a column leaves the other columns and rows.
LEMMA SetColumnFacts ==
  ASSUME NEW rows, Whole(rows), NEW n \in DOMAIN rows, NEW column \in Settings, NEW value
  PROVE  LET new == SetRowColumn(rows, n, column, value)
         IN  /\ Whole(new)
             /\ DOMAIN new = DOMAIN rows
             /\ new[n] = [rows[n] EXCEPT ![column] = value]
             /\ \A m \in DOMAIN rows : m # n => new[m] = rows[m]
<1> DEFINE new == SetRowColumn(rows, n, column, value)
<1>1. new = [rows EXCEPT ![n] = [rows[n] EXCEPT ![column] = value]]
  BY DEF SetRowColumn, Has
<1>2. DOMAIN [rows[n] EXCEPT ![column] = value] = DOMAIN rows[n]
  OBVIOUS
<1>3. /\ DOMAIN new = DOMAIN rows /\ new[n] = [rows[n] EXCEPT ![column] = value]
      /\ \A m \in DOMAIN rows : m # n => new[m] = rows[m]
  BY <1>1
<1> HIDE DEF new
<1>4. Whole(new)
  BY <1>2, <1>3 DEF Whole
<1>. QED  BY <1>3, <1>4 DEF new

-------------------------------------------------------------------------------
(* Edits compose                                                            *)

\* The composition of edits is kept name by name.
LEMMA EditsParts ==
  /\ EditsCompose <=> \A n \in Names \ spoilt : Agrees(n)
  /\ EditsCompose' <=> \A n \in Names \ spoilt' : Agrees(n)'
BY DEF EditsCompose, Agrees

\* A name whose rows stay agrees as it did.
LEMMA OtherAgrees ==
  ASSUME NEW n \in Names \ spoilt, EditsCompose,
         Has(subscriptions', n) <=> Has(subscriptions, n), Has(subscriptions, n) => subscriptions'[n] = subscriptions[n],
         Has(intended', n) <=> Has(intended, n), Has(intended, n) => intended'[n] = intended[n],
         \A c : <<n, c>> \in amiss => <<n, c>> \in amiss'
  PROVE  Agrees(n)'
<1>1. Agrees(n)
  BY EditsParts
<1>2. Has(subscriptions', n) <=> Has(intended', n)
  BY <1>1 DEF Agrees
<1>3. ASSUME NEW c \in Edited \cup Settings, Has(subscriptions', n), <<n, c>> \notin amiss'
      PROVE  subscriptions'[n][c] = intended'[n][c]
  <2>1. <<n, c>> \notin amiss /\ Has(subscriptions, n) /\ Has(intended, n)
    BY <1>1, <1>3 DEF Agrees
  <2>2. subscriptions[n][c] = intended[n][c]
    BY <1>1, <2>1 DEF Agrees
  <2>. QED  BY <2>1, <2>2
<1>. QED  BY <1>2, <1>3 DEF Agrees, Has

\* A settled name has no row, and the others keep what is known of them.
LEMMA SettledFacts ==
  ASSUME NEW n, Settled(n)
  PROVE  /\ \A m : m # n => (m \in spoilt' <=> m \in spoilt)
         /\ \A m, c : m # n => (<<m, c>> \in amiss' <=> <<m, c>> \in amiss)
<1>1. spoilt' = spoilt \ {n} /\ amiss' = {at \in amiss : at[1] # n}
  BY DEF Settled
<1>2. ASSUME NEW m, NEW c, m # n  PROVE <<m, c>> \in amiss' <=> <<m, c>> \in amiss
  <2>1. <<m, c>>[1] = m
    OBVIOUS
  <2>. QED  BY <1>1, <1>2, <2>1
<1>. QED  BY <1>1, <1>2

\* What an edit is about to write: the patch, and the rest as it read it.
LEMMA JobRow ==
  ASSUME NEW job, JobShape(job)
  PROVE  /\ \A c \in DOMAIN job.patch : job.row[c] = job.patch[c]
         /\ \A c \in Edited \ DOMAIN job.patch, old \in job.read : job.row[c] = old[c]
         /\ job.read = {} => job.row = Over(job.patch, Over(NewRow, Unset))
<1>1. PICK r \in job.read \cup {Over(NewRow, Unset)} :
        job.read \subseteq {r} /\ DOMAIN r = Edited \cup Settings /\ job.row = Over(job.patch, r)
  BY DEF JobShape
<1>2. /\ \A x \in DOMAIN job.patch : Over(job.patch, r)[x] = job.patch[x]
      /\ \A x \in DOMAIN r : x \notin DOMAIN job.patch => Over(job.patch, r)[x] = r[x]
  BY OverFacts
<1>. QED  BY <1>1, <1>2

\* A column that is not stale is written as the row has it now.
LEMMA FreshColumn ==
  ASSUME NEW job, JobShape(job), NEW c \in Edited \ DOMAIN job.patch, c \notin StaleColumns(job)
  PROVE  Has(subscriptions, job.from) /\ job.row[c] = subscriptions[job.from][c]
<1>1. PICK r \in RowOf(subscriptions, job.from), old \in job.read : r[c] = old[c]
  BY DEF StaleColumns
<1>2. job.row[c] = old[c]
  BY JobRow
<1>. QED  BY <1>1, <1>2 DEF RowOf, Has

\* Jobs that go on as they were, or are no rename about to save.
LEMMA RenamesFrame ==
  ASSUME RenamesCompose,
         \A q \in SubProcs : worker'[q] = worker[q] \/ ~(worker'[q].pc = "save" /\ worker'[q].renames)
  PROVE  RenamesCompose'
<1> SUFFICES ASSUME NEW q \in SubProcs, worker'[q].pc = "save", worker'[q].renames,
                    NEW b \in worker'[q].base, NEW c \in Edited \ (worker'[q].gone \cup DOMAIN worker'[q].patch)
             PROVE  b[c] = worker'[q].row[c]
  BY DEF RenamesCompose
<1>1. worker'[q] = worker[q]
  OBVIOUS
<1>. QED  BY <1>1 DEF RenamesCompose

\* A process that moves to a known step leaves the types.
LEMMA TypeMove ==
  ASSUME SubTypeOK, NEW p \in SubProcs, NEW state, Go(p, state), WorkerShape(state),
         UNCHANGED <<now, reminders, delivered, grace>>, subFaults' \in Nat,
         Whole(subscriptions)', Whole(intended)'
  PROVE  SubTypeOK'
<1>1. DOMAIN worker = SubProcs /\ \A q \in SubProcs : WorkerShape(worker[q])
  BY DEF SubTypeOK
<1>2. DOMAIN worker' = SubProcs /\ \A q \in SubProcs : worker'[q] = worker[q] \/ worker'[q] = state
  BY <1>1, GoFacts
<1>3. \A q \in SubProcs : WorkerShape(worker'[q])
  BY <1>1, <1>2
<1>. QED  BY <1>2, <1>3 DEF SubTypeOK

\* The deletion of a renamed row keeps what edits have made of the rows.
LEMMA RemoveEdit ==
  ASSUME SubTypeOK, RenamesCompose, EditsCompose, NEW p \in SubPages, RemoveRenamed(p)
  PROVE  SubTypeOK' /\ RenamesCompose' /\ EditsCompose'
<1> DEFINE job == worker[p]
           from == job.from
           gone == IF job.from \in spoilt THEN Edited
                   ELSE {c \in Edited : <<job.from, c>> \in amiss} \cup StaleColumns(job)
           saving == [job EXCEPT !.pc = "save", !.base = RowOf(intended, job.from), !.gone = gone]
<1>1. p \in SubProcs /\ job.pc = "remove" /\ Go(p, saving)
  BY DEF RemoveRenamed, SubProcs
<1>2. JobShape(job) /\ DOMAIN worker = SubProcs /\ Whole(subscriptions) /\ Whole(intended)
  BY <1>1 DEF SubTypeOK, WorkerShape, CheckShape
<1>3. /\ intended' = Without(intended, from)
      /\ \/ subscriptions' = Without(subscriptions, from) /\ Settled(from)
         \/ subscriptions' = subscriptions /\ spoilt' = spoilt \cup {from} /\ amiss' = amiss
      /\ UNCHANGED <<now, reminders, delivered, grace>> /\ subFaults' \in Nat
  <2>1. DeleteSubscription(subscriptions, from) = Without(subscriptions, from)
    BY DeleteFacts
  <2>. QED  BY <2>1 DEF RemoveRenamed, SubTypeOK, Fault
<1> HIDE DEF gone
<1>4. /\ DOMAIN saving = JobFields /\ saving.pc = "save" /\ saving.base = RowOf(intended, from)
      /\ saving.renames = job.renames /\ saving.from = from /\ saving.name = job.name
      /\ saving.patch = job.patch /\ saving.row = job.row /\ saving.read = job.read /\ saving.gone = gone
  BY <1>2 DEF JobShape, JobFields
<1>5. DOMAIN worker' = SubProcs /\ worker'[p] = saving /\ \A q \in SubProcs : q # p => worker'[q] = worker[q]
  BY <1>1, <1>2, GoFacts
<1> HIDE DEF saving
<1>6. \A r \in RowOf(intended, from) : RowOf(intended, from) = {r} /\ DOMAIN r = Edited \cup Settings
  BY <1>2 DEF RowOf, Has, Whole
<1>7. JobShape(saving)
  BY <1>1, <1>2, <1>4, <1>6 DEF JobShape
<1>8. ASSUME NEW rows, Whole(rows)
      PROVE  /\ Whole(Without(rows, from)) /\ ~Has(Without(rows, from), from)
             /\ \A n : n # from => /\ Has(Without(rows, from), n) <=> Has(rows, n)
                                   /\ Has(rows, n) => Without(rows, from)[n] = rows[n]
  BY <1>8, DeleteFacts DEF Has
<1>9. /\ Whole(intended') /\ ~Has(intended', from)
      /\ \A n : n # from => (Has(intended', n) <=> Has(intended, n)) /\ (Has(intended, n) => intended'[n] = intended[n])
  BY <1>2, <1>3, <1>8
<1>10. SubTypeOK'
  <2>1. Whole(subscriptions')
    BY <1>2, <1>3, <1>8
  <2>2. Whole(subscriptions)' /\ Whole(intended)'
    BY <1>9, <2>1 DEF Whole
  <2>. QED  BY <1>1, <1>3, <1>7, <2>2, TypeMove DEF WorkerShape
<1> HIDE DEF job, from
<1>11. EditsCompose'
  <2>1. ASSUME subscriptions' = Without(subscriptions, from), Settled(from), NEW n \in Names \ spoilt'
        PROVE  Agrees(n)'
    <3>1. /\ ~Has(subscriptions', from)
          /\ \A m : m # from => /\ Has(subscriptions', m) <=> Has(subscriptions, m)
                                /\ Has(subscriptions, m) => subscriptions'[m] = subscriptions[m]
      BY <1>2, <1>8, <2>1
    <3>2. CASE n = from
      BY <1>9, <3>1, <3>2 DEF Agrees, Has
    <3>3. CASE n # from
      <4>1. n \notin spoilt /\ \A c : <<n, c>> \in amiss => <<n, c>> \in amiss'
        BY <2>1, <3>3, SettledFacts
      <4>. QED  BY <1>9, <3>1, <3>3, <4>1, OtherAgrees
    <3>. QED  BY <3>2, <3>3
  <2>2. ASSUME subscriptions' = subscriptions, spoilt' = spoilt \cup {from}, amiss' = amiss, NEW n \in Names \ spoilt'
        PROVE  Agrees(n)'
    <3>1. n \notin spoilt /\ n # from
      BY <2>2
    <3>. QED  BY <1>9, <2>2, <3>1, OtherAgrees
  <2>. QED  BY <1>3, <2>1, <2>2, EditsParts
<1>12. ASSUME NEW b \in saving.base, NEW c \in Edited \ (saving.gone \cup DOMAIN saving.patch)
       PROVE  b[c] = saving.row[c]
  <2>1. from \notin spoilt /\ <<from, c>> \notin amiss /\ c \notin StaleColumns(job) /\ from = job.from
    BY <1>4, <1>12 DEF gone, from
  <2>2. Has(subscriptions, from) /\ job.row[c] = subscriptions[from][c]
    BY <1>2, <1>4, <1>12, <2>1, FreshColumn
  <2>3. from \in Names
    BY <1>2 DEF JobShape, from
  <2>4. Agrees(from)
    BY <2>1, <2>3, EditsParts
  <2>5. b = intended[from]
    BY <1>4, <1>12 DEF RowOf
  <2>6. subscriptions[from][c] = intended[from][c]
    BY <1>12, <2>1, <2>2, <2>4 DEF Agrees
  <2>. QED  BY <1>4, <2>2, <2>5, <2>6
<1>13. RenamesCompose'
  <2> SUFFICES ASSUME NEW q \in SubProcs, worker'[q].pc = "save", worker'[q].renames,
                      NEW b \in worker'[q].base, NEW c \in Edited \ (worker'[q].gone \cup DOMAIN worker'[q].patch)
               PROVE  b[c] = worker'[q].row[c]
    BY DEF RenamesCompose
  <2>1. CASE q = p
    BY <1>5, <1>12, <2>1
  <2>2. CASE q # p
    <3>1. worker'[q] = worker[q]
      BY <1>5, <2>2
    <3>. QED  BY <3>1 DEF RenamesCompose
  <2>. QED  BY <2>1, <2>2
<1>. QED  BY <1>10, <1>11, <1>13

\* What a save puts where: the row of the request over the settings there are.
LEMMA SaveRows ==
  ASSUME SubTypeOK, NEW p \in SubPages, Save(p)
  PROVE  LET job == worker[p]
         IN  /\ p \in SubProcs /\ job.pc = "save" /\ Go(p, [pc |-> "load"])
             /\ JobShape(job) /\ Whole(subscriptions) /\ Whole(intended)
             /\ UNCHANGED <<now, reminders, delivered, grace>> /\ subFaults' \in Nat
             /\ Renamed(job) \/ Added(job) \/ SavedOver(job)
             /\ Whole(subscriptions') /\ Has(subscriptions', job.name)
             /\ \A c \in Edited : subscriptions'[job.name][c] = job.row[c]
             /\ \A c \in Settings : subscriptions'[job.name][c] = OldRow(subscriptions, job.name)[c]
             /\ \A m : m # job.name => /\ Has(subscriptions', m) <=> Has(subscriptions, m)
                                       /\ Has(subscriptions, m) => subscriptions'[m] = subscriptions[m]
<1> DEFINE job == worker[p]
           name == job.name
           row == job.row
<1>1. /\ p \in SubProcs /\ job.pc = "save" /\ Go(p, [pc |-> "load"])
      /\ UNCHANGED <<now, reminders, delivered, grace>> /\ subFaults' \in Nat
      /\ Renamed(job) \/ Added(job) \/ SavedOver(job)
      /\ subscriptions' = UpsertSubscription(subscriptions, name, row)
  BY DEF Save, SubProcs, SubTypeOK
<1>2. JobShape(job) /\ Whole(subscriptions) /\ Whole(intended)
  BY <1>1 DEF SubTypeOK, WorkerShape, CheckShape
<1> HIDE DEF name, row
<1>3. /\ Whole(subscriptions')
      /\ DOMAIN subscriptions' = DOMAIN subscriptions \cup {name}
      /\ \A c \in Edited : subscriptions'[name][c] = row[c]
      /\ \A c \in Settings : subscriptions'[name][c] = OldRow(subscriptions, name)[c]
      /\ \A m \in DOMAIN subscriptions : m # name => subscriptions'[m] = subscriptions[m]
  <2> DEFINE new == UpsertSubscription(subscriptions, name, row)
  <2>1. subscriptions' = new
    BY <1>1
  <2>2. IsUpserted(new, subscriptions, name, row)
    BY <1>2, UpsertFacts
  <2> HIDE DEF new
  <2>. QED  BY <2>1, <2>2 DEF IsUpserted
<1>. QED  BY <1>1, <1>2, <1>3 DEF Has, name, row

\* What a request asks for when it puts a row of its own.
LEMMA IntendedPut ==
  ASSUME Whole(intended), NEW n, NEW row, DOMAIN row = Edited \cup Settings,
         intended' = Over(Entry(n, row), intended)
  PROVE  /\ Whole(intended') /\ Has(intended', n) /\ intended'[n] = row
         /\ \A m : m # n => (Has(intended', m) <=> Has(intended, m)) /\ (Has(intended, m) => intended'[m] = intended[m])
<1> DEFINE new == Over(Entry(n, row), intended)
<1>1. intended' = new
  OBVIOUS
<1>2. IsPut(new, intended, n, row)
  BY PutFacts
<1> HIDE DEF new
<1>3. IsPut(intended', intended, n, row)
  BY <1>1, <1>2
<1>. QED  BY <1>3 DEF IsPut, Whole, Has

\* The write of a rename: the old row, the patch, and no settings.
LEMMA RenamedEdit ==
  ASSUME SubTypeOK, RenamesCompose, EditsCompose, NEW p \in SubPages, Save(p), Renamed(worker[p])
  PROVE  Whole(intended') /\ EditsCompose'
<1> DEFINE job == worker[p]
           name == job.name
<1>1. /\ p \in SubProcs /\ job.pc = "save" /\ JobShape(job) /\ Whole(intended) /\ Renamed(job) /\ Has(subscriptions', name)
      /\ \A c \in Edited : subscriptions'[name][c] = job.row[c]
      /\ \A c \in Settings : subscriptions'[name][c] = OldRow(subscriptions, name)[c]
      /\ \A m : m # name => /\ Has(subscriptions', m) <=> Has(subscriptions, m)
                            /\ Has(subscriptions, m) => subscriptions'[m] = subscriptions[m]
  BY SaveRows
<1>2. job.renames => \A b \in job.base, c \in Edited \ (job.gone \cup DOMAIN job.patch) : b[c] = job.row[c]
  BY <1>1 DEF RenamesCompose
<1>3. job.name = name
  OBVIOUS
<1> HIDE DEF job, name
<1>4. CASE spoilt' = spoilt \cup {name} /\ UNCHANGED <<intended, amiss>>
  <2>1. ASSUME NEW n \in Names \ spoilt'  PROVE Agrees(n)'
    <3>1. n \in Names \ spoilt /\ n # name
      BY <1>4
    <3>. QED  BY <1>1, <1>4, <3>1, OtherAgrees
  <2>2. Whole(intended')
    BY <1>1, <1>4
  <2>. QED  BY <2>1, <2>2, EditsParts
<1>5. ASSUME NEW b \in job.base, job.renames,
             intended' = Over(Entry(name, Over(job.patch, b)), intended),
             spoilt' = spoilt \ {name},
             amiss' = {at \in amiss : at[1] # name} \cup AllOf(name, job.gone \ DOMAIN job.patch)
                     \cup AllOf(name, {c \in Settings : Has(subscriptions, name) \/ b[c] # Unset[c]})
      PROVE  Whole(intended') /\ EditsCompose'
  <2>1. DOMAIN b = Edited \cup Settings /\ DOMAIN job.patch \subseteq Edited
    BY <1>1, <1>5 DEF JobShape
  <2> DEFINE row == Over(job.patch, b)
  <2>2. /\ DOMAIN row = Edited \cup Settings
        /\ \A c \in DOMAIN job.patch : row[c] = job.patch[c]
        /\ \A c \in Edited \cup Settings : c \notin DOMAIN job.patch => row[c] = b[c]
        /\ \A c \in Settings : row[c] = b[c]
    <3>1. IsPatched(row, job.patch, b)
      BY <2>1, PatchedRow
    <3> HIDE DEF row
    <3>. QED  BY <3>1 DEF IsPatched
  <2>0. intended' = Over(Entry(name, row), intended)
    BY <1>5
  <2> HIDE DEF row
  <2>3. /\ Whole(intended') /\ Has(intended', name) /\ intended'[name] = row
        /\ \A m : m # name => (Has(intended', m) <=> Has(intended, m)) /\ (Has(intended, m) => intended'[m] = intended[m])
    BY <1>1, <2>0, <2>2, IntendedPut
  <2>4. \A n, c : n # name /\ <<n, c>> \in amiss => <<n, c>> \in amiss'
    <3>1. \A n, c : <<n, c>>[1] = n
      OBVIOUS
    <3>. QED  BY <1>5, <3>1
  <2>5. /\ \A c \in job.gone \ DOMAIN job.patch : <<name, c>> \in amiss'
        /\ \A c \in Settings : Has(subscriptions, name) \/ b[c] # Unset[c] => <<name, c>> \in amiss'
    BY <1>5 DEF AllOf
  <2>6. ASSUME NEW c \in Edited, <<name, c>> \notin amiss'  PROVE subscriptions'[name][c] = row[c]
    <3>1. CASE c \in DOMAIN job.patch
      BY <1>1, <2>2, <3>1, JobRow
    <3>2. CASE c \notin DOMAIN job.patch
      <4>1. c \notin job.gone
        BY <2>5, <2>6, <3>2
      <4>2. b[c] = job.row[c]
        BY <1>2, <1>5, <3>2, <4>1
      <4>. QED  BY <1>1, <2>2, <3>2, <4>2
    <3>. QED  BY <3>1, <3>2
  <2>7. ASSUME NEW c \in Settings, <<name, c>> \notin amiss'  PROVE subscriptions'[name][c] = row[c]
    <3>1. ~Has(subscriptions, name) /\ b[c] = Unset[c]
      BY <2>5, <2>7
    <3>. QED  BY <1>1, <2>2, <3>1 DEF OldRow
  <2>8. ASSUME NEW n \in Names, n = name  PROVE Agrees(n)'
    BY <1>1, <2>3, <2>6, <2>7, <2>8 DEF Agrees, Has
  <2>9. ASSUME NEW n \in Names \ spoilt', n # name  PROVE Agrees(n)'
    <3>1. n \in Names \ spoilt /\ \A c : <<n, c>> \in amiss => <<n, c>> \in amiss'
      BY <1>5, <2>4, <2>9
    <3>. QED  BY <1>1, <2>3, <2>9, <3>1, OtherAgrees
  <2>10. \A n \in Names \ spoilt' : Agrees(n)'
    BY <2>8, <2>9
  <2>. QED  BY <2>3, <2>10, EditsParts
<1>. QED  BY <1>1, <1>3, <1>4, <1>5 DEF Renamed

\* The write of an add: a new row, or one over a row it did not see.
LEMMA AddedEdit ==
  ASSUME SubTypeOK, EditsCompose, NEW p \in SubPages, Save(p), Added(worker[p])
  PROVE  Whole(intended') /\ EditsCompose'
<1> DEFINE job == worker[p]
           name == job.name
<1>1. /\ JobShape(job) /\ Whole(intended) /\ Added(job) /\ Has(subscriptions', name)
      /\ \A c \in Edited : subscriptions'[name][c] = job.row[c]
      /\ \A c \in Settings : subscriptions'[name][c] = OldRow(subscriptions, name)[c]
      /\ \A m : m # name => /\ Has(subscriptions', m) <=> Has(subscriptions, m)
                            /\ Has(subscriptions, m) => subscriptions'[m] = subscriptions[m]
  BY SaveRows
<1>2. job.name = name /\ spoilt' = spoilt /\ job.read = {}
  BY <1>1 DEF Added
<1> HIDE DEF job, name
<1>3. ASSUME ~Has(intended, name),
             intended' = Over(Entry(name, Over(job.patch, Over(NewRow, Unset))), intended),
             amiss' = amiss \ AllOf(name, DOMAIN job.patch)
      PROVE  Whole(intended') /\ EditsCompose'
  <2> DEFINE fresh == Over(NewRow, Unset)
             row == Over(job.patch, fresh)
  <2>1. DOMAIN fresh = Edited \cup Settings /\ DOMAIN job.patch \subseteq Edited
    BY <1>1, NewRowFacts DEF JobShape
  <2>2. \A c \in Settings : fresh[c] = Unset[c]
    <3>1. DOMAIN NewRow = Edited /\ DOMAIN Unset = Settings /\ Edited \cap Settings = {}
      BY DEF NewRow, Unset, Edited, Settings
    <3>2. \A x \in DOMAIN Unset : x \notin DOMAIN NewRow => Over(NewRow, Unset)[x] = Unset[x]
      BY OverFacts
    <3>. QED  BY <3>1, <3>2
  <2>3. job.row = row
    BY <1>1, <1>2, JobRow
  <2> HIDE DEF fresh
  <2>4. DOMAIN row = Edited \cup Settings /\ \A c \in Settings : row[c] = fresh[c]
    <3>1. IsPatched(row, job.patch, fresh)
      BY <2>1, PatchedRow
    <3> HIDE DEF row
    <3>. QED  BY <3>1 DEF IsPatched
  <2>0. intended' = Over(Entry(name, row), intended)
    BY <1>3 DEF fresh
  <2> HIDE DEF row
  <2>5. /\ Whole(intended') /\ Has(intended', name) /\ intended'[name] = row
        /\ \A m : m # name => (Has(intended', m) <=> Has(intended, m)) /\ (Has(intended, m) => intended'[m] = intended[m])
    BY <1>1, <2>0, <2>4, IntendedPut
  <2>6. ASSUME NEW n \in Names \ spoilt, n = name  PROVE Agrees(n)'
    <3>1. ~Has(subscriptions, name)
      BY <1>3, <2>6, EditsParts DEF Agrees
    <3>2. \A c \in Settings : subscriptions'[name][c] = Unset[c]
      BY <1>1, <3>1 DEF OldRow
    <3>3. \A c \in Edited \cup Settings : subscriptions'[name][c] = intended'[name][c]
      BY <1>1, <2>2, <2>3, <2>4, <2>5, <3>2
    <3>. QED  BY <1>1, <2>5, <2>6, <3>3 DEF Agrees, Has
  <2>7. ASSUME NEW n \in Names \ spoilt, n # name  PROVE Agrees(n)'
    <3>1. \A c : <<n, c>> \in amiss => <<n, c>> \in amiss'
      BY <1>3, <2>7 DEF AllOf
    <3>. QED  BY <1>1, <2>5, <2>7, <3>1, OtherAgrees
  <2>8. \A n \in Names \ spoilt' : Agrees(n)'
    BY <1>2, <2>6, <2>7
  <2>. QED  BY <2>5, <2>8, EditsParts
<1>4. ASSUME Has(intended, name), amiss' = amiss \cup AllOf(name, Edited), intended' = intended
      PROVE  Whole(intended') /\ EditsCompose'
  <2>1. \A n, c : <<n, c>> \in amiss => <<n, c>> \in amiss'
    BY <1>4
  <2>2. \A c \in Edited : <<name, c>> \in amiss'
    BY <1>4 DEF AllOf
  <2>3. ASSUME NEW n \in Names \ spoilt, n = name  PROVE Agrees(n)'
    <3>1. Agrees(name) /\ Has(subscriptions, name)
      BY <1>4, <2>3, EditsParts DEF Agrees
    <3>2. ASSUME NEW c \in Edited \cup Settings, <<name, c>> \notin amiss'
          PROVE  subscriptions'[name][c] = intended'[name][c]
      <4>1. c \in Settings /\ <<name, c>> \notin amiss
        BY <2>1, <2>2, <3>2
      <4>2. subscriptions'[name][c] = subscriptions[name][c]
        BY <1>1, <3>1, <4>1 DEF OldRow
      <4>. QED  BY <1>4, <3>1, <4>1, <4>2 DEF Agrees
    <3>3. Has(intended', name)
      BY <1>4
    <3>. QED  BY <1>1, <2>3, <3>2, <3>3 DEF Agrees, Has
  <2>4. ASSUME NEW n \in Names \ spoilt, n # name  PROVE Agrees(n)'
    BY <1>1, <1>4, <2>1, <2>4, OtherAgrees
  <2>5. Whole(intended')
    BY <1>1, <1>4
  <2>6. \A n \in Names \ spoilt' : Agrees(n)'
    BY <1>2, <2>3, <2>4
  <2>. QED  BY <2>5, <2>6, EditsParts
<1>. QED  BY <1>1, <1>2, <1>3, <1>4 DEF Added

\* The write of an update: the patch, and what was read too early.
LEMMA PatchedEdit ==
  ASSUME SubTypeOK, EditsCompose, NEW p \in SubPages, Save(p), SavedOver(worker[p])
  PROVE  Whole(intended') /\ EditsCompose'
<1> DEFINE job == worker[p]
           name == job.name
<1>1. /\ JobShape(job) /\ Whole(intended) /\ SavedOver(job) /\ Has(subscriptions', name)
      /\ \A c \in Edited : subscriptions'[name][c] = job.row[c]
      /\ \A c \in Settings : subscriptions'[name][c] = OldRow(subscriptions, name)[c]
      /\ \A m : m # name => /\ Has(subscriptions', m) <=> Has(subscriptions, m)
                            /\ Has(subscriptions, m) => subscriptions'[m] = subscriptions[m]
  BY SaveRows
<1>2. job.name = name /\ job.from = name
  BY <1>1 DEF SavedOver, JobShape
<1> HIDE DEF job, name
<1>3. ASSUME Has(intended, name), intended' = [intended EXCEPT ![name] = Over(job.patch, @)],
             amiss' = (amiss \ AllOf(name, DOMAIN job.patch)) \cup AllOf(name, StaleColumns(job)), spoilt' = spoilt
      PROVE  Whole(intended') /\ EditsCompose'
  <2> DEFINE row == Over(job.patch, intended[name])
  <2>1. DOMAIN intended[name] = Edited \cup Settings /\ DOMAIN job.patch \subseteq Edited
    BY <1>1, <1>3 DEF JobShape, Whole, Has
  <2>2. /\ DOMAIN row = Edited \cup Settings
        /\ \A c \in DOMAIN job.patch : row[c] = job.patch[c]
        /\ \A c \in Edited \cup Settings : c \notin DOMAIN job.patch => row[c] = intended[name][c]
        /\ \A c \in Settings : row[c] = intended[name][c]
    <3>1. IsPatched(row, job.patch, intended[name])
      BY <2>1, PatchedRow
    <3> HIDE DEF row
    <3>. QED  BY <3>1 DEF IsPatched
  <2>3. intended' = [intended EXCEPT ![name] = row]
    BY <1>3
  <2> HIDE DEF row
  <2>4. /\ DOMAIN intended' = DOMAIN intended /\ intended'[name] = row
        /\ \A m \in DOMAIN intended : m # name => intended'[m] = intended[m]
    BY <1>3, <2>3 DEF Has
  <2>5. Whole(intended')
    BY <1>1, <2>2, <2>4 DEF Whole
  <2>6. /\ \A c \in StaleColumns(job) : <<name, c>> \in amiss'
        /\ \A c : c \notin DOMAIN job.patch /\ <<name, c>> \in amiss => <<name, c>> \in amiss'
        /\ \A n, c : n # name /\ <<n, c>> \in amiss => <<n, c>> \in amiss'
    BY <1>3 DEF AllOf
  <2>7. ASSUME NEW n \in Names \ spoilt, n = name  PROVE Agrees(n)'
    <3>1. Agrees(name) /\ Has(subscriptions, name)
      BY <1>3, <2>7, EditsParts DEF Agrees
    <3>2. ASSUME NEW c \in Edited, <<name, c>> \notin amiss'  PROVE subscriptions'[name][c] = row[c]
      <4>1. CASE c \in DOMAIN job.patch
        BY <1>1, <2>2, <4>1, JobRow
      <4>2. CASE c \notin DOMAIN job.patch
        <5>1. c \notin StaleColumns(job) /\ <<name, c>> \notin amiss
          BY <2>6, <3>2, <4>2
        <5>2. job.row[c] = subscriptions[name][c]
          BY <1>1, <1>2, <4>2, <5>1, FreshColumn
        <5>3. subscriptions[name][c] = intended[name][c]
          BY <3>1, <5>1 DEF Agrees
        <5>. QED  BY <1>1, <2>2, <4>2, <5>2, <5>3
      <4>. QED  BY <4>1, <4>2
    <3>3. ASSUME NEW c \in Settings, <<name, c>> \notin amiss'  PROVE subscriptions'[name][c] = row[c]
      <4>1. c \notin DOMAIN job.patch
        BY <2>1 DEF Edited, Settings
      <4>2. subscriptions'[name][c] = subscriptions[name][c]
        BY <1>1, <3>1 DEF OldRow
      <4>3. <<name, c>> \notin amiss
        BY <2>6, <3>3, <4>1
      <4>. QED  BY <2>2, <3>1, <4>2, <4>3 DEF Agrees
    <3>. QED  BY <1>1, <1>3, <2>4, <2>7, <3>2, <3>3 DEF Agrees, Has
  <2>8. ASSUME NEW n \in Names \ spoilt, n # name  PROVE Agrees(n)'
    <3>1. (Has(intended', n) <=> Has(intended, n)) /\ (Has(intended, n) => intended'[n] = intended[n])
      BY <2>4, <2>8 DEF Has
    <3>. QED  BY <1>1, <2>6, <2>8, <3>1, OtherAgrees
  <2>9. \A n \in Names \ spoilt' : Agrees(n)'
    BY <1>3, <2>7, <2>8
  <2>. QED  BY <2>5, <2>9, EditsParts
<1>4. ASSUME spoilt' = spoilt \cup {name}, UNCHANGED <<intended, amiss>>
      PROVE  Whole(intended') /\ EditsCompose'
  <2>1. ASSUME NEW n \in Names \ spoilt'  PROVE Agrees(n)'
    <3>1. n \in Names \ spoilt /\ n # name
      BY <1>4, <2>1
    <3>. QED  BY <1>1, <1>4, <3>1, OtherAgrees
  <2>2. Whole(intended')
    BY <1>1, <1>4
  <2>. QED  BY <2>1, <2>2, EditsParts
<1>. QED  BY <1>1, <1>2, <1>3, <1>4 DEF SavedOver

\* A save keeps what edits have made of the rows.
LEMMA SaveEdit ==
  ASSUME SubTypeOK, RenamesCompose, EditsCompose, NEW p \in SubPages, Save(p)
  PROVE  SubTypeOK' /\ RenamesCompose' /\ EditsCompose'
<1>1. /\ p \in SubProcs /\ Go(p, [pc |-> "load"]) /\ Whole(subscriptions') /\ DOMAIN worker = SubProcs
      /\ UNCHANGED <<now, reminders, delivered, grace>> /\ subFaults' \in Nat
      /\ Renamed(worker[p]) \/ Added(worker[p]) \/ SavedOver(worker[p])
  BY SaveRows DEF SubTypeOK
<1>2. Whole(intended') /\ EditsCompose'
  BY <1>1, RenamedEdit, AddedEdit, PatchedEdit
<1>3. SubTypeOK'
  <2>1. Whole(subscriptions)' /\ Whole(intended)'
    BY <1>1, <1>2 DEF Whole
  <2>2. WorkerShape([pc |-> "load"])
    BY DEF WorkerShape
  <2>. QED  BY <1>1, <2>1, <2>2, TypeMove
<1>4. RenamesCompose'
  <2>1. [pc |-> "load"].pc # "save"
    OBVIOUS
  <2>2. \A q \in SubProcs : worker'[q] = worker[q] \/ ~(worker'[q].pc = "save" /\ worker'[q].renames)
    BY <1>1, <2>1, GoFacts
  <2>. QED  BY <2>2, RenamesFrame
<1>. QED  BY <1>2, <1>3, <1>4

\* A rename whose row is given up returns the removed row to what was intended;
\* its name is spoilt, whatever the rows are.
LEMMA LostRows ==
  ASSUME Whole(intended), NEW put, Whole(put), intended' = Over(put, intended)
  PROVE  /\ Whole(intended')
         /\ \A n : n \notin DOMAIN put =>
              (Has(intended', n) <=> Has(intended, n)) /\ (Has(intended, n) => intended'[n] = intended[n])
<1>3. /\ DOMAIN Over(put, intended) = DOMAIN put \cup DOMAIN intended
      /\ \A x \in DOMAIN put : Over(put, intended)[x] = put[x]
      /\ \A x \in DOMAIN intended : x \notin DOMAIN put => Over(put, intended)[x] = intended[x]
  BY OverFacts
<1>4. Whole(intended')
  BY <1>3 DEF Whole
<1>. QED  BY <1>3, <1>4 DEF Has

\* A failed save keeps what edits have made of the rows.
LEMMA SaveFailsEdit ==
  ASSUME SubTypeOK, RenamesCompose, EditsCompose, NEW p \in SubPages, SaveFails(p)
  PROVE  SubTypeOK' /\ RenamesCompose' /\ EditsCompose'
<1> DEFINE job == worker[p]
           never == Abandoned(job)
           put == [n \in {m \in never : job.base # {}} |-> CHOOSE r \in job.base : TRUE]
<1>1. p \in SubProcs /\ job.pc = "save" /\ Go(p, Idle)
  BY DEF SaveFails, SubProcs
<1>2. JobShape(job) /\ DOMAIN worker = SubProcs /\ Whole(subscriptions) /\ Whole(intended)
  BY <1>1 DEF SubTypeOK, WorkerShape, CheckShape
<1>3. /\ spoilt' = spoilt \cup never /\ intended' = Over(put, intended)
      /\ UNCHANGED <<now, subscriptions, reminders, delivered, grace, amiss>> /\ subFaults' \in Nat
  BY DEF SaveFails, SubTypeOK, Fault
<1>4. DOMAIN put \subseteq never /\ Whole(put)
  <2>1. \A n \in DOMAIN put : n \in never /\ job.base # {} /\ put[n] = CHOOSE r \in job.base : TRUE
    OBVIOUS
  <2> HIDE DEF put
  <2>2. ASSUME job.base # {}  PROVE DOMAIN (CHOOSE r \in job.base : TRUE) = Edited \cup Settings
    <3>1. (CHOOSE r \in job.base : TRUE) \in job.base
      BY <2>2
    <3>. QED  BY <1>2, <3>1 DEF JobShape
  <2>. QED  BY <2>1, <2>2 DEF Whole
<1> HIDE DEF put, never
<1>5. /\ Whole(intended')
      /\ \A n : n \notin never => (Has(intended', n) <=> Has(intended, n)) /\ (Has(intended, n) => intended'[n] = intended[n])
  BY <1>2, <1>3, <1>4, LostRows
<1>6. Idle.pc = "idle" /\ WorkerShape(Idle)
  BY DEF Idle, WorkerShape
<1>7. SubTypeOK'
  <2>1. Whole(subscriptions)' /\ Whole(intended)'
    BY <1>2, <1>3, <1>5 DEF Whole
  <2>. QED  BY <1>1, <1>3, <1>6, <2>1, TypeMove
<1>8. RenamesCompose'
  <2>1. \A q \in SubProcs : worker'[q] = worker[q] \/ ~(worker'[q].pc = "save" /\ worker'[q].renames)
    BY <1>1, <1>2, <1>6, GoFacts
  <2>. QED  BY <1>3, <2>1, RenamesFrame
<1>9. EditsCompose'
  <2>1. ASSUME NEW n \in Names \ spoilt'  PROVE Agrees(n)'
    <3>1. n \in Names \ spoilt /\ n \notin never
      BY <1>3
    <3>2. /\ Has(intended', n) <=> Has(intended, n)
          /\ Has(intended, n) => intended'[n] = intended[n]
      BY <1>5, <3>1
    <3>3. subscriptions' = subscriptions /\ amiss' = amiss
      BY <1>3
    <3>. QED  BY <3>1, <3>2, <3>3, OtherAgrees
  <2>. QED  BY <2>1, EditsParts
<1>. QED  BY <1>7, <1>8, <1>9

\* A deletion keeps what edits have made of the rows.
LEMMA DropEdit ==
  ASSUME SubTypeOK, RenamesCompose, EditsCompose, NEW p \in SubPages, Drop(p)
  PROVE  SubTypeOK' /\ RenamesCompose' /\ EditsCompose'
<1> DEFINE name == worker[p].name
<1>1. p \in SubProcs /\ Go(p, [pc |-> "load"]) /\ DOMAIN worker = SubProcs /\ Whole(subscriptions) /\ Whole(intended)
  BY DEF Drop, SubProcs, SubTypeOK
<1>2. /\ subscriptions' = Without(subscriptions, name) /\ intended' = Without(intended, name) /\ Settled(name)
      /\ UNCHANGED <<now, reminders, delivered, grace>> /\ subFaults' \in Nat
  <2>1. DeleteSubscription(subscriptions, name) = Without(subscriptions, name)
    BY DeleteFacts
  <2>. QED  BY <2>1 DEF Drop, SubTypeOK
<1> HIDE DEF name
<1>3. \A rows : Whole(rows) =>
        /\ Whole(Without(rows, name)) /\ ~Has(Without(rows, name), name)
        /\ \A n : n # name => /\ Has(Without(rows, name), n) <=> Has(rows, n)
                              /\ Has(rows, n) => Without(rows, name)[n] = rows[n]
  BY DeleteFacts DEF Has
<1>4. SubTypeOK'
  <2>1. Whole(subscriptions') /\ Whole(intended')
    BY <1>1, <1>2, <1>3
  <2>2. Whole(subscriptions)' /\ Whole(intended)'
    BY <2>1 DEF Whole
  <2>. QED  BY <1>1, <1>2, <2>2, TypeMove DEF WorkerShape
<1>5. RenamesCompose'
  <2>1. \A q \in SubProcs : worker'[q] = worker[q] \/ ~(worker'[q].pc = "save" /\ worker'[q].renames)
    BY <1>1, GoFacts
  <2>. QED  BY <2>1, RenamesFrame
<1>6. EditsCompose'
  <2>1. /\ ~Has(subscriptions', name) /\ ~Has(intended', name)
        /\ \A n : n # name => /\ Has(subscriptions', n) <=> Has(subscriptions, n)
                              /\ Has(subscriptions, n) => subscriptions'[n] = subscriptions[n]
                              /\ Has(intended', n) <=> Has(intended, n)
                              /\ Has(intended, n) => intended'[n] = intended[n]
    BY <1>1, <1>2, <1>3
  <2>2. ASSUME NEW n \in Names \ spoilt'  PROVE Agrees(n)'
    <3>1. CASE n = name
      BY <2>1, <3>1 DEF Agrees, Has
    <3>2. CASE n # name
      <4>1. n \notin spoilt /\ \A c : <<n, c>> \in amiss => <<n, c>> \in amiss'
        BY <1>2, <2>2, <3>2, SettledFacts
      <4>. QED  BY <2>1, <3>2, <4>1, OtherAgrees
    <3>. QED  BY <3>1, <3>2
  <2>. QED  BY <2>2, EditsParts
<1>. QED  BY <1>4, <1>5, <1>6

\* Setting one column keeps what edits have made of the rows.
LEMMA SettingEdit ==
  ASSUME SubTypeOK, RenamesCompose, EditsCompose, NEW p \in SubPages,
         NEW n, NEW column \in Settings, NEW value, SetSetting(p, n, column, value)
  PROVE  SubTypeOK' /\ RenamesCompose' /\ EditsCompose'
<1>1. p \in SubProcs /\ Go(p, [pc |-> "load"]) /\ DOMAIN worker = SubProcs /\ Whole(subscriptions) /\ Whole(intended)
  BY DEF SetSetting, SubProcs, SubTypeOK
<1>2. /\ subscriptions' = SetRowColumn(subscriptions, n, column, value)
      /\ intended' = SetRowColumn(intended, n, column, value)
      /\ amiss' = amiss \ {<<n, column>>}
      /\ UNCHANGED <<now, reminders, delivered, grace, spoilt>> /\ subFaults' \in Nat
  BY DEF SetSetting, SetRowColumn, SubTypeOK
<1>3. ASSUME NEW rows, Whole(rows)
      PROVE  /\ Whole(SetRowColumn(rows, n, column, value))
             /\ \A m : Has(SetRowColumn(rows, n, column, value), m) <=> Has(rows, m)
             /\ \A m : Has(rows, m) /\ m # n => SetRowColumn(rows, n, column, value)[m] = rows[m]
             /\ Has(rows, n) => SetRowColumn(rows, n, column, value)[n] = [rows[n] EXCEPT ![column] = value]
  <2>1. CASE n \in DOMAIN rows
    BY <1>3, <2>1, SetColumnFacts DEF Has
  <2>2. CASE n \notin DOMAIN rows
    BY <1>3, <2>2 DEF SetRowColumn, Has
  <2>. QED  BY <2>1, <2>2
<1>4. SubTypeOK'
  <2>1. Whole(subscriptions') /\ Whole(intended')
    BY <1>1, <1>2, <1>3
  <2>2. Whole(subscriptions)' /\ Whole(intended)'
    BY <2>1 DEF Whole
  <2>. QED  BY <1>1, <1>2, <2>2, TypeMove DEF WorkerShape
<1>5. RenamesCompose'
  <2>1. \A q \in SubProcs : worker'[q] = worker[q] \/ ~(worker'[q].pc = "save" /\ worker'[q].renames)
    BY <1>1, GoFacts
  <2>. QED  BY <2>1, RenamesFrame
<1>6. EditsCompose'
  <2>1. /\ \A m : (Has(subscriptions', m) <=> Has(subscriptions, m)) /\ (Has(intended', m) <=> Has(intended, m))
        /\ \A m : m # n => /\ Has(subscriptions, m) => subscriptions'[m] = subscriptions[m]
                           /\ Has(intended, m) => intended'[m] = intended[m]
        /\ Has(subscriptions, n) => subscriptions'[n] = [subscriptions[n] EXCEPT ![column] = value]
        /\ Has(intended, n) => intended'[n] = [intended[n] EXCEPT ![column] = value]
    BY <1>1, <1>2, <1>3
  <2>2. ASSUME NEW m \in Names \ spoilt  PROVE Agrees(m)'
    <3>1. CASE m # n
      <4>1. \A c : <<m, c>> \in amiss => <<m, c>> \in amiss'
        BY <1>2, <3>1
      <4>. QED  BY <2>1, <2>2, <3>1, <4>1, OtherAgrees
    <3>2. CASE m = n
      <4>1. Agrees(n)
        BY <2>2, <3>2, EditsParts
      <4>2. ASSUME NEW c \in Edited \cup Settings, Has(subscriptions', n), <<n, c>> \notin amiss'
            PROVE  subscriptions'[n][c] = intended'[n][c]
        <5>1. Has(subscriptions, n) /\ Has(intended, n)
          BY <2>1, <4>1, <4>2 DEF Agrees
        <5>2. DOMAIN subscriptions[n] = Edited \cup Settings /\ DOMAIN intended[n] = Edited \cup Settings
          BY <1>1, <5>1 DEF Whole, Has
        <5>3. CASE c = column
          BY <2>1, <5>1, <5>2, <5>3
        <5>4. CASE c # column
          <6>1. <<n, c>> \notin amiss
            BY <1>2, <4>2, <5>4
          <6>. QED  BY <2>1, <4>1, <5>1, <5>2, <5>4, <6>1 DEF Agrees
        <5>. QED  BY <5>3, <5>4
      <4>3. Has(subscriptions', n) <=> Has(intended', n)
        BY <2>1, <4>1 DEF Agrees
      <4>. QED  BY <3>2, <4>2, <4>3 DEF Agrees, Has
    <3>. QED  BY <3>1, <3>2
  <2>. QED  BY <1>2, <2>2, EditsParts
<1>. QED  BY <1>4, <1>5, <1>6

-------------------------------------------------------------------------------
(* What a step leaves alone                                                 *)

\* No process asks for a cooldown, delivers, records or leaves off doing so.
LEMMA QuietMove ==
  ASSUME GraceInv, UNCHANGED <<now, reminders, delivered, grace>>,
         \A q \in SubProcs : \/ worker'[q] = worker[q]
                             \/ worker[q].pc \notin {"send", "record"} /\ worker'[q].pc \notin {"send", "record"}
  PROVE  GraceInv'
<1>1. \A n : \A q \in SubProcs : Undelivered(worker'[q], n) <=> Undelivered(worker[q], n)
  BY DEF Undelivered
<1>2. \A n : OpenFor(n)' = OpenFor(n)
  <2>1. \A n, q : q \in OpenFor(n)' <=> q \in OpenFor(n)
    BY <1>1 DEF OpenFor
  <2>. QED  BY <2>1 DEF OpenFor
<1>3. \A n : Unrecorded(n)' <=> Unrecorded(n)
  BY DEF Unrecorded
<1>4. \A n : (Recent(n)' <=> Recent(n)) /\ (Visible(n)' <=> Visible(n))
  BY DEF Recent, Visible
<1>. QED  BY <1>2, <1>3, <1>4 DEF GraceInv

\* The rows and the renames under way are as they were.
LEMMA EditFrame ==
  ASSUME RenamesCompose, EditsCompose, UNCHANGED <<subscriptions, intended, spoilt, amiss>>,
         \A q \in SubProcs : worker'[q] = worker[q] \/ ~(worker'[q].pc = "save" /\ worker'[q].renames)
  PROVE  RenamesCompose' /\ EditsCompose'
<1>1. RenamesCompose'
  BY RenamesFrame
<1>2. EditsCompose'
  BY DEF EditsCompose
<1>. QED  BY <1>1, <1>2

\* What a check has seen done stays done while the clock stands and no reminder is lost.
LEMMA CheckFrame ==
  ASSUME CheckInv, UNCHANGED now,
         \A n : RemindedIn(reminders, n, now) => RemindedIn(reminders', n, now),
         \A q \in SubProcs : worker'[q] = worker[q] \/ worker'[q].pc \notin Checking
  PROVE  CheckInv'
<1>1. ASSUME NEW q \in SubProcs, worker'[q] = worker[q]  PROVE CheckedSoFar(worker'[q], reminders', now')
  <2> DEFINE w == worker[q]
  <2>1. CheckedSoFar(w, reminders, now)
    BY DEF CheckInv
  <2> HIDE DEF w
  <2>2. CheckedSoFar(w, reminders', now)
    BY <2>1 DEF CheckedSoFar
  <2>. QED  BY <1>1, <2>2 DEF w
<1>2. ASSUME NEW q \in SubProcs, worker'[q].pc \notin Checking  PROVE CheckedSoFar(worker'[q], reminders', now')
  BY <1>2 DEF CheckedSoFar
<1>. QED  BY <1>1, <1>2 DEF CheckInv

\* The verdict of a check is the verdict at the present time.
LEMMA VerdictNow ==
  ASSUME NEW row, NEW dry
  PROVE  Verdict(row, dry) = VerdictAt(row, dry, now)
BY DEF Verdict, VerdictAt, Today

-------------------------------------------------------------------------------
(* Edits leave checks alone                                                 *)

\* The steps of an edit that write nothing but its own place.
LEMMA WorkerStep ==
  ASSUME SubInv, UNCHANGED <<now, subscriptions, reminders, delivered, grace, intended, spoilt, amiss>>, subFaults' \in Nat,
         NEW p \in SubProcs, worker[p].pc \notin Checking,
         NEW job, Go(p, job), WorkerShape(job), job.pc \notin Checking, ~(job.pc = "save" /\ job.renames)
  PROVE  SubInv'
<1>1. SubTypeOK /\ GraceInv /\ RenamesCompose /\ EditsCompose /\ CheckInv
  BY DEF SubInv
<1>2. DOMAIN worker = SubProcs /\ Whole(subscriptions) /\ Whole(intended)
  BY <1>1 DEF SubTypeOK
<1>3. DOMAIN worker' = SubProcs /\ worker'[p] = job /\ \A q \in SubProcs : q # p => worker'[q] = worker[q]
  BY <1>2, GoFacts
<1>4. SubTypeOK'
  <2>1. Whole(subscriptions)' /\ Whole(intended)'
    BY <1>2 DEF Whole
  <2>. QED  BY <1>1, <2>1, TypeMove
<1>5. GraceInv'
  <2>1. \A q \in SubProcs : \/ worker'[q] = worker[q]
                            \/ worker[q].pc \notin {"send", "record"} /\ worker'[q].pc \notin {"send", "record"}
    BY <1>3 DEF Checking
  <2>. QED  BY <1>1, <2>1, QuietMove
<1>6. RenamesCompose' /\ EditsCompose'
  <2>1. \A q \in SubProcs : worker'[q] = worker[q] \/ ~(worker'[q].pc = "save" /\ worker'[q].renames)
    BY <1>3
  <2>. QED  BY <1>1, <2>1, EditFrame
<1>7. CheckInv'
  <2>1. \A q \in SubProcs : worker'[q] = worker[q] \/ worker'[q].pc \notin Checking
    BY <1>3
  <2>. QED  BY <1>1, <2>1, CheckFrame
<1>. QED  BY <1>4, <1>5, <1>6, <1>7 DEF SubInv

\* An edit is no check before its step and none after it.
LEMMA EditStep ==
  ASSUME SubInv, NEW p \in SubPages, RemoveRenamed(p) \/ Save(p) \/ SaveFails(p) \/ Drop(p)
                   \/ \E n \in EditNames, column \in Settings : \E value : SetSetting(p, n, column, value)
  PROVE  SubInv'
<1>1. SubTypeOK /\ GraceInv /\ RenamesCompose /\ EditsCompose /\ CheckInv
  BY DEF SubInv
<1>2. p \in SubProcs /\ DOMAIN worker = SubProcs
  BY <1>1 DEF SubTypeOK, SubProcs
<1>3. SubTypeOK' /\ RenamesCompose' /\ EditsCompose'
  BY <1>1, RemoveEdit, SaveEdit, SaveFailsEdit, DropEdit, SettingEdit
<1>4. /\ UNCHANGED <<now, reminders, delivered, grace>>
      /\ worker[p].pc \notin Checking
      /\ \E state : Go(p, state) /\ state.pc \notin Checking
  <2>1. CASE RemoveRenamed(p)
    <3>1. WorkerShape(worker[p])
      BY <1>1, <1>2 DEF SubTypeOK
    <3>2. worker[p].pc = "remove" /\ JobShape(worker[p])
      BY <2>1, <3>1 DEF RemoveRenamed, WorkerShape, CheckShape
    <3> DEFINE gone == IF worker[p].from \in spoilt THEN Edited
                       ELSE {c \in Edited : <<worker[p].from, c>> \in amiss} \cup StaleColumns(worker[p])
               saving == [worker[p] EXCEPT !.pc = "save", !.base = RowOf(intended, worker[p].from), !.gone = gone]
    <3>3. saving.pc = "save"
      BY <3>2 DEF JobShape, JobFields
    <3>4. Go(p, saving) /\ UNCHANGED <<now, reminders, delivered, grace>>
      BY <2>1 DEF RemoveRenamed
    <3> HIDE DEF saving
    <3>. QED  BY <3>2, <3>3, <3>4 DEF Checking
  <2>2. CASE Save(p)
    BY <2>2 DEF Save, Checking
  <2>3. CASE SaveFails(p)
    BY <2>3 DEF SaveFails, Checking, Idle
  <2>4. CASE Drop(p)
    BY <2>4 DEF Drop, Checking
  <2>5. CASE \E n \in EditNames, column \in Settings : \E value : SetSetting(p, n, column, value)
    BY <2>5 DEF SetSetting, Checking, Free, Idle
  <2>. QED  BY <2>1, <2>2, <2>3, <2>4, <2>5
<1>5. PICK state : Go(p, state) /\ state.pc \notin Checking
  BY <1>4
<1>6. worker'[p] = state /\ \A q \in SubProcs : q # p => worker'[q] = worker[q]
  BY <1>2, <1>5, GoFacts
<1>7. GraceInv'
  <2>1. \A q \in SubProcs : \/ worker'[q] = worker[q]
                            \/ worker[q].pc \notin {"send", "record"} /\ worker'[q].pc \notin {"send", "record"}
    BY <1>4, <1>5, <1>6 DEF Checking
  <2>. QED  BY <1>1, <1>4, <2>1, QuietMove
<1>8. CheckInv'
  <2>1. \A q \in SubProcs : worker'[q] = worker[q] \/ worker'[q].pc \notin Checking
    BY <1>5, <1>6
  <2>. QED  BY <1>1, <1>4, <2>1, CheckFrame
<1>. QED  BY <1>3, <1>7, <1>8 DEF SubInv

\* Every request that begins keeps the invariant.
LEMMA HandlerStep ==
  ASSUME SubInv, NEW p \in SubPages, NEW n \in EditNames,
         \/ \E patch \in Patches : handleAddSubscription(p, n, patch)
         \/ \E patch \in Patches, newName \in {{}} \cup {{m} : m \in Names} :
              handleUpdateSubscription(p, n, newName, patch)
         \/ handleMarkRenewed(p, n) \/ handleClearRenewed(p, n) \/ handleDeleteSubscription(p, n)
  PROVE  SubInv'
<1>1. SubTypeOK /\ p \in SubProcs
  BY DEF SubInv, SubProcs
<1>2. /\ UNCHANGED <<now, subscriptions, reminders, delivered, grace, intended, spoilt, amiss>>
      /\ subFaults' \in Nat /\ worker[p].pc = "idle"
  BY <1>1, HandlerFacts
<1>3. PICK job : Go(p, job) /\ (job.pc = "drop" \/ (JobShape(job) /\ ~(job.pc = "save" /\ job.renames)))
  BY <1>1, HandlerFacts
<1>4. WorkerShape(job) /\ ~(job.pc = "save" /\ job.renames)
  BY <1>3 DEF WorkerShape
<1>5. job.pc \notin Checking /\ worker[p].pc \notin Checking
  BY <1>2, <1>3 DEF JobShape, Checking
<1>. QED  BY <1>1, <1>2, <1>3, <1>4, <1>5, WorkerStep

-------------------------------------------------------------------------------
(* Checks move on                                                           *)

\* What the step of a check needs, whatever it does to the cooldowns.
LEMMA CheckStep ==
  ASSUME SubInv, NEW p \in SubProcs, NEW state, Go(p, state), WorkerShape(state), state.pc # "save",
         UNCHANGED <<now, subscriptions, intended, spoilt, amiss>>, subFaults' \in Nat,
         IsFiniteSet(reminders'), \A r \in reminders' : r.at \in Nat /\ r.at <= now,
         delivered' \in [Names -> Nat \cup {NoMark}], \A n \in Names : delivered'[n] <= now,
         grace' \in [Names -> Nat],
         \A n : RemindedIn(reminders, n, now) => RemindedIn(reminders', n, now),
         CheckedSoFar(state, reminders', now)
  PROVE  SubTypeOK' /\ RenamesCompose' /\ EditsCompose' /\ CheckInv'
<1>1. SubTypeOK /\ RenamesCompose /\ EditsCompose /\ CheckInv
  BY DEF SubInv
<1>2. /\ DOMAIN worker = SubProcs /\ Whole(subscriptions) /\ Whole(intended) /\ now \in Nat
      /\ \A q \in SubProcs : WorkerShape(worker[q])
  BY <1>1 DEF SubTypeOK
<1>3. DOMAIN worker' = SubProcs /\ worker'[p] = state /\ \A q \in SubProcs : q # p => worker'[q] = worker[q]
  BY <1>2, GoFacts
<1>4. SubTypeOK'
  <2>1. Whole(subscriptions)' /\ Whole(intended)'
    BY <1>2 DEF Whole
  <2>2. \A q \in SubProcs : WorkerShape(worker'[q])
    BY <1>2, <1>3
  <2>. QED  BY <1>2, <1>3, <2>1, <2>2 DEF SubTypeOK
<1>5. RenamesCompose' /\ EditsCompose'
  <2>1. \A q \in SubProcs : worker'[q] = worker[q] \/ ~(worker'[q].pc = "save" /\ worker'[q].renames)
    BY <1>3
  <2>. QED  BY <1>1, <2>1, EditFrame
<1>6. CheckInv'
  <2>1. ASSUME NEW q \in SubProcs, q # p  PROVE CheckedSoFar(worker'[q], reminders', now')
    <3> DEFINE w == worker[q]
    <3>1. CheckedSoFar(w, reminders, now)
      BY <1>1 DEF CheckInv
    <3> HIDE DEF w
    <3>2. CheckedSoFar(w, reminders', now)
      BY <3>1 DEF CheckedSoFar
    <3>. QED  BY <1>3, <2>1, <3>2 DEF w
  <2>2. CheckedSoFar(worker'[p], reminders', now')
    BY <1>3
  <2>. QED  BY <2>1, <2>2 DEF CheckInv
<1>. QED  BY <1>4, <1>5, <1>6

\* Finitely many checks hold an undelivered reminder of a subscription.
LEMMA OpenFinite == \A n : IsFiniteSet(OpenFor(n)) /\ Cardinality(OpenFor(n)) \in Nat
<1>1. IsFiniteSet(SubProcs)
  BY SubscriptionAssumption, FS_AddElement DEF SubProcs
<1>2. \A n : OpenFor(n) \subseteq SubProcs
  BY DEF OpenFor
<1>. QED  BY <1>1, <1>2, FS_Subset, FS_CardinalityType

\* One process moves on: who may still deliver a name.
LEMMA OpenMove ==
  ASSUME NEW p \in SubProcs, \A q \in SubProcs : q # p => worker'[q] = worker[q], NEW n
  PROVE  /\ OpenFor(n)' = IF Undelivered(worker'[p], n) THEN OpenFor(n) \cup {p} ELSE OpenFor(n) \ {p}
         /\ p \in OpenFor(n) <=> Undelivered(worker[p], n)
         /\ Cardinality(OpenFor(n)') = IF Undelivered(worker'[p], n)
              THEN IF Undelivered(worker[p], n) THEN Cardinality(OpenFor(n)) ELSE Cardinality(OpenFor(n)) + 1
              ELSE IF Undelivered(worker[p], n) THEN Cardinality(OpenFor(n)) - 1 ELSE Cardinality(OpenFor(n))
<1>1. \A q : q \in OpenFor(n)' <=> q \in SubProcs /\ Undelivered(worker'[q], n)
  BY DEF OpenFor
<1>2. \A q : q \in OpenFor(n) <=> q \in SubProcs /\ Undelivered(worker[q], n)
  BY DEF OpenFor
<1>3. \A q : q \in OpenFor(n)' <=> q \in IF Undelivered(worker'[p], n) THEN OpenFor(n) \cup {p} ELSE OpenFor(n) \ {p}
  <2>1. \A q \in SubProcs : q # p => (Undelivered(worker'[q], n) <=> Undelivered(worker[q], n))
    BY DEF Undelivered
  <2>. QED  BY <1>1, <1>2, <2>1
<1>4. OpenFor(n)' = IF Undelivered(worker'[p], n) THEN OpenFor(n) \cup {p} ELSE OpenFor(n) \ {p}
  BY <1>3
<1>5. IsFiniteSet(OpenFor(n))
  BY OpenFinite
<1>6. p \notin OpenFor(n) => Cardinality(OpenFor(n) \cup {p}) = Cardinality(OpenFor(n)) + 1
  BY <1>5, FS_AddElement
<1>7. p \in OpenFor(n) => Cardinality(OpenFor(n) \ {p}) = Cardinality(OpenFor(n)) - 1
  BY <1>5, FS_RemoveElement
<1>8. /\ p \in OpenFor(n) => OpenFor(n) \cup {p} = OpenFor(n)
      /\ p \notin OpenFor(n) => OpenFor(n) \ {p} = OpenFor(n)
  OBVIOUS
<1>9. p \in OpenFor(n) <=> Undelivered(worker[p], n)
  BY <1>2
<1>. QED  BY <1>4, <1>6, <1>7, <1>8, <1>9

\* One process moves on: who has delivered a name and not recorded it.
LEMMA UnrecordedMove ==
  ASSUME NEW p \in SubProcs, \A q \in SubProcs : q # p => worker'[q] = worker[q], NEW n
  PROVE  /\ Unrecorded(n)' => \/ Unrecorded(n)
                              \/ worker'[p].pc = "record" /\ worker'[p].status = "sent" /\ worker'[p].name = n
         /\ Unrecorded(n) => \/ Unrecorded(n)'
                             \/ worker[p].pc = "record" /\ worker[p].status = "sent" /\ worker[p].name = n
BY DEF Unrecorded

-------------------------------------------------------------------------------
(* Early reminders are paid for                                             *)

\* GraceInv, one name at a time.
GraceFor(n) ==
  /\ Recent(n) => grace[n] >= Cardinality(OpenFor(n))
  /\ ~Recent(n) => grace[n] >= Cardinality(OpenFor(n)) - 1
  /\ Recent(n) /\ ~Unrecorded(n) /\ ~Visible(n) => grace[n] >= 1

\* The count of excused reminders is kept name by name.
LEMMA GraceParts == (GraceInv <=> \A n \in Names : GraceFor(n)) /\ (GraceInv' <=> \A n \in Names : GraceFor(n)')
BY DEF GraceInv, GraceFor

\* A name the moving process is not about.
LEMMA OtherName ==
  ASSUME NEW p \in SubProcs, \A q \in SubProcs : q # p => worker'[q] = worker[q],
         NEW m \in Names, GraceFor(m), grace[m] \in Nat, grace'[m] \in Nat, grace'[m] >= grace[m],
         UNCHANGED now, delivered'[m] = delivered[m], Visible(m) => Visible(m)',
         ~Undelivered(worker[p], m), ~Undelivered(worker'[p], m),
         worker[p].pc = "record" => worker[p].name # m
  PROVE  GraceFor(m)'
<1>1. Cardinality(OpenFor(m)') = Cardinality(OpenFor(m)) /\ Cardinality(OpenFor(m)) \in Nat
  BY OpenMove, OpenFinite
<1>2. Unrecorded(m) => Unrecorded(m)'
  BY UnrecordedMove
<1>3. Recent(m)' <=> Recent(m)
  BY DEF Recent
<1> DEFINE open == Cardinality(OpenFor(m))
           g == grace[m]
           h == grace'[m]
<1>4. /\ Recent(m) => g >= open
      /\ ~Recent(m) => g >= open - 1
      /\ Recent(m) /\ ~Unrecorded(m) /\ ~Visible(m) => g >= 1
  BY DEF GraceFor
<1>5. g \in Nat /\ h \in Nat /\ h >= g /\ open \in Nat
  BY <1>1
<1>6. Cardinality(OpenFor(m)') = open
  BY <1>1
<1> HIDE DEF open, g, h
<1>7. /\ Recent(m)' => h >= open
      /\ ~Recent(m)' => h >= open - 1
      /\ Recent(m)' /\ ~Unrecorded(m)' /\ ~Visible(m)' => h >= 1
  BY <1>2, <1>3, <1>4, <1>5
<1>. QED  BY <1>6, <1>7 DEF GraceFor, h

\* A cooldown that the last delivery should keep, and does not, was excused.
LEMMA AskGrace ==
  ASSUME SubTypeOK, GraceInv, NEW p \in SubProcs, NEW n \in Names, NEW state, Go(p, state),
         worker[p].pc = "check", state.pc = "send", state.name = n,
         UNCHANGED <<now, reminders, delivered>>,
         grace' \in [Names -> Nat], \A m \in Names \ {n} : grace'[m] = grace[m],
         \/ grace'[n] = grace[n] + 1
         \/ grace'[n] = grace[n] /\ ~Beside(p, n) /\ ~Cooling(n)
  PROVE  GraceInv'
<1>1. /\ DOMAIN worker = SubProcs /\ grace \in [Names -> Nat] /\ now \in Nat
      /\ delivered[n] \in Nat \cup {NoMark} /\ SubCooldown \in Nat
  BY SubscriptionAssumption DEF SubTypeOK
<1>2. worker'[p] = state /\ \A q \in SubProcs : q # p => worker'[q] = worker[q]
  BY <1>1, GoFacts
<1>3. \A m \in Names : Recent(m)' <=> Recent(m)
  BY DEF Recent
<1>4. \A m \in Names : Visible(m)' <=> Visible(m)
  BY DEF Visible
<1>5. ASSUME NEW m \in Names \ {n}  PROVE GraceFor(m)'
  <2>1. ~Undelivered(worker[p], m) /\ ~Undelivered(worker'[p], m)
    BY <1>2 DEF Undelivered
  <2>2. GraceFor(m) /\ grace[m] \in Nat /\ grace'[m] \in Nat /\ grace'[m] >= grace[m]
    BY <1>1, GraceParts
  <2>. QED  BY <1>2, <1>4, <2>1, <2>2, OtherName
<1>6. GraceFor(n)'
  <2> DEFINE open == Cardinality(OpenFor(n))
             g == grace[n]
             h == grace'[n]
  <2>1. Cardinality(OpenFor(n)') = open + 1 /\ open \in Nat
    <3>1. Undelivered(worker'[p], n) /\ ~Undelivered(worker[p], n)
      BY <1>2 DEF Undelivered
    <3>. QED  BY <1>2, <3>1, OpenMove, OpenFinite
  <2>2. /\ Recent(n) => g >= open
        /\ ~Recent(n) => g >= open - 1
        /\ Recent(n) /\ ~Unrecorded(n) /\ ~Visible(n) => g >= 1
    BY GraceParts DEF GraceFor
  <2>3. Unrecorded(n) => Unrecorded(n)'
    BY <1>2, UnrecordedMove
  <2>4. g \in Nat /\ h \in Nat
    BY <1>1
  <2>5. ~Beside(p, n) => open = 0 /\ ~Unrecorded(n)
    <3> SUFFICES ASSUME ~Beside(p, n)  PROVE open = 0 /\ ~Unrecorded(n)
      OBVIOUS
    <3>1. \A q \in SubProcs : ~(worker[q].pc \in {"send", "record"} /\ worker[q].name = n)
      BY DEF Beside
    <3>2. ~Unrecorded(n)
      BY <3>1 DEF Unrecorded
    <3>3. OpenFor(n) = {}
      BY <3>1 DEF OpenFor, Undelivered
    <3>. QED  BY <3>2, <3>3, FS_EmptySet
  <2>6. ~Cooling(n) /\ Recent(n) => ~Visible(n)
    <3> SUFFICES ASSUME Recent(n), NEW t \in LastSentAlert(reminders, n, SubCooldown, now), delivered[n] <= t
                 PROVE  now < t + SubCooldown
      BY DEF Cooling, Visible
    <3>1. t \in Nat
      BY DEF LastSentAlert, RecentAlerts, SubTypeOK
    <3>. QED  BY <1>1, <3>1 DEF Recent, NoMark
  <2>7. h = g + 1 \/ (h = g /\ ~Beside(p, n) /\ ~Cooling(n))
    OBVIOUS
  <2> HIDE DEF open, g, h
  <2>8. CASE h = g + 1
    <3>1. /\ Recent(n)' => h >= open + 1
          /\ ~Recent(n)' => h >= open + 1 - 1
          /\ h >= 1
      BY <1>3, <2>1, <2>2, <2>4, <2>8
    <3>. QED  BY <2>1, <3>1 DEF GraceFor, h
  <2>9. CASE h = g /\ ~Beside(p, n) /\ ~Cooling(n)
    <3>1. /\ Recent(n)' => h >= open + 1
          /\ ~Recent(n)' => h >= open + 1 - 1
          /\ Recent(n)' => h >= 1
      BY <1>3, <2>2, <2>4, <2>5, <2>6, <2>9
    <3>. QED  BY <2>1, <3>1 DEF GraceFor, h
  <2>. QED  BY <2>7, <2>8, <2>9
<1>. QED  BY <1>5, <1>6, GraceParts

\* A delivery closes what its query opened; an early one uses up an excuse.
LEMMA DeliverGrace ==
  ASSUME SubTypeOK, GraceInv, NEW p \in SubProcs, NEW n \in Names, NEW state, Go(p, state),
         worker[p].pc = "send", worker[p].name = n,
         state.pc = "record", state.status = "sent", state.name = n,
         UNCHANGED <<now, reminders>>,
         delivered'[n] = now, \A m \in Names \ {n} : delivered'[m] = delivered[m],
         grace'[n] = IF Recent(n) THEN grace[n] - 1 ELSE grace[n], \A m \in Names \ {n} : grace'[m] = grace[m]
  PROVE  GraceInv' /\ grace'[n] \in Nat
<1>1. /\ DOMAIN worker = SubProcs /\ grace \in [Names -> Nat] /\ now \in Nat
      /\ delivered[n] \in Nat \cup {NoMark} /\ SubCooldown \in Nat
  BY SubscriptionAssumption DEF SubTypeOK
<1>2. worker'[p] = state /\ \A q \in SubProcs : q # p => worker'[q] = worker[q]
  BY <1>1, GoFacts
<1>5. ASSUME NEW m \in Names \ {n}  PROVE GraceFor(m)'
  <2>1. ~Undelivered(worker[p], m) /\ ~Undelivered(worker'[p], m)
    BY <1>2 DEF Undelivered
  <2>2. GraceFor(m) /\ grace[m] \in Nat /\ grace'[m] \in Nat /\ grace'[m] >= grace[m]
    BY <1>1, GraceParts
  <2>3. Visible(m) => Visible(m)'
    BY DEF Visible
  <2>. QED  BY <1>2, <2>1, <2>2, <2>3, OtherName
<1>6. GraceFor(n)' /\ grace'[n] \in Nat
  <2> DEFINE open == Cardinality(OpenFor(n))
             g == grace[n]
             h == grace'[n]
  <2>1. Cardinality(OpenFor(n)') = open - 1 /\ open \in Nat \ {0}
    <3>1. Undelivered(worker[p], n) /\ ~Undelivered(worker'[p], n)
      BY <1>2 DEF Undelivered
    <3>2. Cardinality(OpenFor(n)') = open - 1 /\ open \in Nat /\ p \in OpenFor(n)
      BY <1>2, <3>1, OpenMove, OpenFinite
    <3>3. open # 0
      BY <3>2, OpenFinite, FS_EmptySet
    <3>. QED  BY <3>2, <3>3
  <2>2. /\ Recent(n) => g >= open
        /\ ~Recent(n) => g >= open - 1
    BY GraceParts DEF GraceFor
  <2>3. Unrecorded(n)'
    BY <1>2 DEF Unrecorded
  <2>4. g \in Nat /\ h = IF Recent(n) THEN g - 1 ELSE g
    BY <1>1
  <2> HIDE DEF open, g, h
  <2>5. h >= open - 1 /\ h \in Nat
    BY <2>1, <2>2, <2>4
  <2>6. h >= open - 1 - 1
    BY <2>1, <2>5
  <2>. QED  BY <2>1, <2>3, <2>5, <2>6 DEF GraceFor, h
<1>. QED  BY <1>5, <1>6, GraceParts

\* A refused reminder stays open until it is recorded or given up.
LEMMA RefusedGrace ==
  ASSUME SubTypeOK, GraceInv, NEW p \in SubProcs, NEW n \in Names, NEW state, Go(p, state),
         worker[p].pc = "send", worker[p].name = n,
         state.pc = "check" \/ (state.pc = "record" /\ state.status = "failed" /\ state.name = n),
         UNCHANGED <<now, reminders, delivered, grace>>
  PROVE  GraceInv'
<1>1. DOMAIN worker = SubProcs /\ grace \in [Names -> Nat]
  BY DEF SubTypeOK
<1>2. worker'[p] = state /\ \A q \in SubProcs : q # p => worker'[q] = worker[q]
  BY <1>1, GoFacts
<1>3. ASSUME NEW m \in Names  PROVE Visible(m) => Visible(m)'
  BY DEF Visible
<1>5. ASSUME NEW m \in Names \ {n}  PROVE GraceFor(m)'
  <2>1. ~Undelivered(worker[p], m) /\ ~Undelivered(worker'[p], m)
    BY <1>2 DEF Undelivered
  <2>2. GraceFor(m) /\ grace[m] \in Nat /\ grace'[m] \in Nat /\ grace'[m] >= grace[m]
    BY <1>1, GraceParts
  <2>. QED  BY <1>2, <1>3, <2>1, <2>2, OtherName
<1>6. GraceFor(n)'
  <2> DEFINE open == Cardinality(OpenFor(n))
             left == Cardinality(OpenFor(n)')
             g == grace[n]
  <2>1. left \in {open, open - 1} /\ open \in Nat
    <3>1. Undelivered(worker[p], n)
      BY DEF Undelivered
    <3>2. left = IF Undelivered(worker'[p], n) THEN open ELSE open - 1
      BY <1>2, <3>1, OpenMove
    <3>. QED  BY <3>2, OpenFinite
  <2>2. /\ Recent(n) => g >= open
        /\ ~Recent(n) => g >= open - 1
        /\ Recent(n) /\ ~Unrecorded(n) /\ ~Visible(n) => g >= 1
    BY GraceParts DEF GraceFor
  <2>3. Unrecorded(n) => Unrecorded(n)'
    BY <1>2, UnrecordedMove
  <2>4. g \in Nat /\ grace'[n] = g
    BY <1>1
  <2>5. Recent(n)' <=> Recent(n)
    BY DEF Recent
  <2> HIDE DEF open, g, left
  <2>6. /\ Recent(n)' => g >= left
        /\ ~Recent(n)' => g >= left - 1
        /\ Recent(n)' /\ ~Unrecorded(n)' /\ ~Visible(n)' => g >= 1
    BY <1>3, <2>1, <2>2, <2>3, <2>4, <2>5
  <2>. QED  BY <2>4, <2>6 DEF GraceFor, left
<1>. QED  BY <1>5, <1>6, GraceParts

\* A record that makes the delivery visible, or was excused; one of a failed
\* attempt may hide a delivery, whose excuse the attempt has.
LEMMA RecordGrace ==
  ASSUME SubTypeOK, GraceInv, NEW p \in SubProcs, NEW n \in Names, NEW state, Go(p, state),
         worker[p].pc = "record", worker[p].name = n, worker[p].status \in Statuses, state.pc = "check",
         UNCHANGED <<now, delivered>>,
         grace' \in [Names -> Nat], \A m \in Names : grace'[m] >= grace[m],
         \A m \in Names \ {n} : Visible(m) => Visible(m)',
         worker[p].status = "sent" => (Recent(n) => Visible(n)') \/ grace'[n] >= 1
  PROVE  GraceInv'
<1>1. DOMAIN worker = SubProcs /\ grace \in [Names -> Nat]
  BY DEF SubTypeOK
<1>2. worker'[p] = state /\ \A q \in SubProcs : q # p => worker'[q] = worker[q]
  BY <1>1, GoFacts
<1>5. ASSUME NEW m \in Names \ {n}  PROVE GraceFor(m)'
  <2>1. ~Undelivered(worker[p], m) /\ ~Undelivered(worker'[p], m)
    BY <1>2 DEF Undelivered
  <2>2. GraceFor(m) /\ grace[m] \in Nat /\ grace'[m] \in Nat /\ grace'[m] >= grace[m]
    BY <1>1, GraceParts
  <2>. QED  BY <1>2, <2>1, <2>2, OtherName
<1>6. GraceFor(n)'
  <2> DEFINE open == Cardinality(OpenFor(n))
             left == Cardinality(OpenFor(n)')
             g == grace[n]
             h == grace'[n]
  <2>1. left = (IF worker[p].status = "failed" THEN open - 1 ELSE open) /\ open \in Nat
    <3>1. ~Undelivered(worker'[p], n) /\ (Undelivered(worker[p], n) <=> worker[p].status = "failed")
      BY <1>2 DEF Undelivered
    <3>. QED  BY <1>2, <3>1, OpenMove, OpenFinite
  <2>2. worker[p].status = "failed" => open >= 1
    <3>1. worker[p].status = "failed" => p \in OpenFor(n)
      BY <1>2, OpenMove DEF Undelivered
    <3>2. worker[p].status = "failed" => open # 0
      BY <3>1, OpenFinite, FS_EmptySet
    <3>. QED  BY <2>1, <3>2
  <2>3. /\ Recent(n) => g >= open
        /\ ~Recent(n) => g >= open - 1
    BY GraceParts DEF GraceFor
  <2>4. g \in Nat /\ h \in Nat /\ h >= g
    BY <1>1
  <2>5. Recent(n)' <=> Recent(n)
    BY DEF Recent
  <2>6. worker[p].status = "failed" \/ (Recent(n) => Visible(n)') \/ h >= 1
    BY DEF Statuses
  <2> HIDE DEF open, g, left, h
  <2>7. /\ Recent(n)' => h >= left
        /\ ~Recent(n)' => h >= left - 1
        /\ Recent(n)' /\ ~Visible(n)' => h >= 1
    BY <2>1, <2>2, <2>3, <2>4, <2>5, <2>6
  <2>. QED  BY <2>7 DEF GraceFor, left, h
<1>. QED  BY <1>5, <1>6, GraceParts

-------------------------------------------------------------------------------
(* What the store shows of a delivery                                       *)

\* A window of whole days covers the hours it is made from.
LEMMA WindowCovers ==
  ASSUME NEW within \in Nat, NEW day \in Nat \ {0}
  PROVE  within <= (within \div day + 1) * day
<1>1. within = day * (within \div day) + (within % day) /\ (within % day) < day
  OBVIOUS
<1>2. within \div day \in Nat /\ within % day \in Nat
  OBVIOUS
<1>3. (within \div day + 1) * day = day * (within \div day) + day
  BY <1>2
<1>. QED  BY <1>1, <1>2, <1>3

\* How far back LastSentAlert looks, and the rows of a name newer than a time.
Window == IF Persistent THEN (SubCooldown \div Day + 1) * Day ELSE SubCooldown
Newer(rows, n, at) == {x \in rows : x.key = n /\ x.at > at}

Seen(rows, n, time, r) ==
  /\ r \in rows /\ r.key = n /\ r.status = "sent"
  /\ r.at >= time - Window /\ Cardinality(Newer(rows, n, r.at)) < RowLimit

\* The window that is read covers the cooldown.
LEMMA WindowFacts == Window \in Int /\ SubCooldown <= Window
<1>1. CASE Persistent
  <2>1. SubCooldown <= (SubCooldown \div Day + 1) * Day
    BY SubscriptionAssumption, StoreAssumption, WindowCovers
  <2>2. SubCooldown \div Day \in Int /\ Day \in Int
    BY SubscriptionAssumption, StoreAssumption
  <2> DEFINE days == SubCooldown \div Day + 1
  <2>3. days \in Int
    BY <2>2
  <2> HIDE DEF days
  <2>4. days * Day \in Int
    BY <2>2, <2>3
  <2>. QED  BY <1>1, <2>1, <2>4 DEF Window, days
<1>2. CASE ~Persistent
  BY <1>2, SubscriptionAssumption DEF Window
<1>. QED  BY <1>1, <1>2

\* The last alert that a check finds is a row it can see.
LEMMA SeenFacts ==
  ASSUME NEW rows, NEW n, NEW time, NEW t
  PROVE  t \in LastSentAlert(rows, n, SubCooldown, time) <=>
           SubCooldown > 0 /\ \E r : Seen(rows, n, time, r) /\ r.at = t
<1>1. CASE SubCooldown <= 0
  BY <1>1, SubscriptionAssumption DEF LastSentAlert
<1>2. CASE SubCooldown > 0
  <2>1. LastSentAlert(rows, n, SubCooldown, time)
          = {r.at : r \in {x \in RecentAlerts(rows, n, Window, time) : x.status = "sent"}}
    BY <1>2, SubscriptionAssumption DEF LastSentAlert, Window
  <2>2. \A r : r \in {x \in RecentAlerts(rows, n, Window, time) : x.status = "sent"} <=> Seen(rows, n, time, r)
    BY DEF RecentAlerts, Seen, Newer
  <2>. QED  BY <1>2, <2>1, <2>2
<1>. QED  BY <1>1, <1>2, SubscriptionAssumption

\* A row saved now is what the next query sees; rows of other names stay visible.
LEMMA SaveShows ==
  ASSUME SubTypeOK, NEW n \in Names, NEW status \in Statuses,
         reminders' = SaveAlert(reminders, n, status, now), UNCHANGED <<now, delivered>>
  PROVE  /\ IsFiniteSet(reminders') /\ \A r \in reminders' : r.at \in Nat /\ r.at <= now
         /\ \A m : RemindedIn(reminders, m, now) => RemindedIn(reminders', m, now)
         /\ status = "sent" => RemindedIn(reminders', n, now)
         /\ \A m \in Names \ {n} : Visible(m) => Visible(m)'
         /\ status = "sent" /\ Recent(n) => Visible(n)'
<1>1. /\ now \in Nat /\ IsFiniteSet(reminders) /\ SubCooldown \in Nat /\ Retention \in Nat
      /\ RowLimit \in Nat \ {0} /\ Window \in Int /\ SubCooldown <= Window
      /\ \A r \in reminders : r.at \in Nat /\ r.at <= now
      /\ delivered[n] \in Nat \cup {NoMark} /\ delivered[n] <= now
  BY SubscriptionAssumption, StoreAssumption, WindowFacts DEF SubTypeOK
<1> DEFINE new == Row(n, status, now)
<1>2. new.key = n /\ new.status = status /\ new.at = now
  BY DEF Row
<1> HIDE DEF new
<1>3. reminders' \subseteq reminders \cup {new}
  BY DEF SaveAlert, new
<1>4. status = "sent" => new \in reminders'
  BY DEF SaveAlert, new
<1>5. \A r \in reminders : r.key # n /\ (Persistent \/ now - r.at <= Retention) => r \in reminders'
  BY DEF SaveAlert
<1>6. Persistent \/ status # "sent" => reminders \subseteq reminders'
  BY DEF SaveAlert
<1>7. IsFiniteSet(reminders') /\ \A r \in reminders' : r.at \in Nat /\ r.at <= now
  <2>1. IsFiniteSet(reminders \cup {new})
    BY <1>1, FS_AddElement
  <2>2. IsFiniteSet(reminders')
    BY <1>3, <2>1, FS_Subset
  <2>. QED  BY <1>1, <1>2, <1>3, <2>2
<1>8. status = "sent" => RemindedIn(reminders', n, now)
  BY <1>2, <1>4 DEF RemindedIn
<1>9. ASSUME NEW m, RemindedIn(reminders, m, now)  PROVE RemindedIn(reminders', m, now)
  <2>1. PICK r \in reminders : r.key = m /\ r.status = "sent" /\ (r.at = now \/ now < r.at + SubCooldown)
    BY <1>9 DEF RemindedIn
  <2>2. CASE m = n /\ status = "sent"
    BY <1>8, <2>2
  <2>3. CASE Persistent \/ status # "sent"
    BY <1>6, <2>1, <2>3 DEF RemindedIn
  <2>4. CASE m # n /\ ~Persistent
    <3>1. SubCooldown <= Retention
      BY <2>4, SubscriptionAssumption
    <3>2. now - r.at <= Retention
      BY <1>1, <2>1, <3>1
    <3>3. r \in reminders'
      BY <1>5, <2>1, <2>4, <3>2
    <3>. QED  BY <2>1, <3>3 DEF RemindedIn
  <2>. QED  BY <2>2, <2>3, <2>4
<1>10. ASSUME NEW m \in Names \ {n}, Visible(m)  PROVE Visible(m)'
  <2>1. PICK r : Seen(reminders, m, now, r) /\ delivered[m] <= r.at /\ SubCooldown > 0
    BY <1>10, SeenFacts DEF Visible
  <2>2. r \in reminders'
    <3>1. CASE Persistent
      BY <1>6, <2>1, <3>1 DEF Seen
    <3>2. CASE ~Persistent
      <4>1. SubCooldown <= Retention /\ Window = SubCooldown
        BY <3>2, SubscriptionAssumption DEF Window
      <4>2. r.at \in Nat /\ r.at >= now - SubCooldown
        BY <1>1, <2>1, <4>1 DEF Seen
      <4>3. now - r.at <= Retention
        BY <1>1, <4>1, <4>2
      <4>. QED  BY <1>5, <2>1, <4>3 DEF Seen
    <3>. QED  BY <3>1, <3>2
  <2>3. Cardinality(Newer(reminders', m, r.at)) <= Cardinality(Newer(reminders, m, r.at))
    <3>1. Newer(reminders', m, r.at) \subseteq Newer(reminders, m, r.at)
      BY <1>2, <1>3 DEF Newer
    <3>2. IsFiniteSet(Newer(reminders, m, r.at))
      <4>1. Newer(reminders, m, r.at) \subseteq reminders
        BY DEF Newer
      <4>. QED  BY <1>1, <4>1, FS_Subset
    <3>. QED  BY <3>1, <3>2, FS_Subset
  <2>4. Cardinality(Newer(reminders', m, r.at)) \in Nat /\ Cardinality(Newer(reminders, m, r.at)) \in Nat
    <3>1. Newer(reminders', m, r.at) \subseteq reminders' /\ Newer(reminders, m, r.at) \subseteq reminders
      BY DEF Newer
    <3>. QED  BY <1>1, <1>7, <3>1, FS_Subset, FS_CardinalityType
  <2>5. Cardinality(Newer(reminders', m, r.at)) < RowLimit
    <3>1. Cardinality(Newer(reminders, m, r.at)) < RowLimit
      BY <2>1 DEF Seen
    <3>. QED  BY <1>1, <2>3, <2>4, <3>1
  <2>6. Seen(reminders', m, now, r)
    BY <2>1, <2>2, <2>5 DEF Seen
  <2>7. r.at \in LastSentAlert(reminders', m, SubCooldown, now)
    BY <2>1, <2>6, SeenFacts
  <2>. QED  BY <2>1, <2>7 DEF Visible
<1>11. ASSUME status = "sent", Recent(n)  PROVE Visible(n)'
  <2>1. SubCooldown > 0
    BY <1>1, <1>11 DEF Recent, NoMark
  <2>2. Newer(reminders', n, now) = {}
    BY <1>1, <1>7 DEF Newer
  <2>3. Cardinality(Newer(reminders', n, now)) < RowLimit
    BY <1>1, <2>2, FS_EmptySet
  <2>4. Seen(reminders', n, now, new)
    BY <1>1, <1>2, <1>4, <1>11, <2>3 DEF Seen
  <2>5. now \in LastSentAlert(reminders', n, SubCooldown, now)
    BY <1>2, <2>1, <2>4, SeenFacts
  <2>. QED  BY <1>1, <2>5 DEF Visible
<1>. QED  BY <1>7, <1>8, <1>9, <1>10, <1>11

-------------------------------------------------------------------------------
(* The steps of a check                                                     *)

\* A process whose check goes on is at a shape of its own.
LEMMA CheckingShape ==
  ASSUME SubInv, NEW p \in SubProcs, worker[p].pc \in Checking
  PROVE  CheckShape(worker[p]) /\ CheckedSoFar(worker[p], reminders, now)
<1>1. WorkerShape(worker[p]) /\ CheckedSoFar(worker[p], reminders, now)
  BY DEF SubInv, SubTypeOK, CheckInv
<1>. QED  BY <1>1 DEF WorkerShape, JobShape, Checking

\* The parts of the invariant that the steps use.
LEMMA InvParts ==
  ASSUME SubInv
  PROVE  /\ SubTypeOK /\ GraceInv /\ DOMAIN worker = SubProcs /\ now \in Nat /\ subFaults \in Nat
         /\ IsFiniteSet(reminders) /\ \A r \in reminders : r.at \in Nat /\ r.at <= now
         /\ delivered \in [Names -> Nat \cup {NoMark}] /\ \A n \in Names : delivered[n] <= now
         /\ grace \in [Names -> Nat] /\ SubCooldown \in Nat
BY SubscriptionAssumption DEF SubInv, SubTypeOK

\* A check that loads the subscriptions keeps the invariant.
LEMMA LoadStep ==
  ASSUME SubInv, NEW p \in SubProcs, LoadSubscriptions(p)
  PROVE  SubInv'
<1>1. PICK rows \in {subscriptions, <<>>} :
        /\ Loaded(rows)
        /\ Go(p, [pc |-> "check", dry |-> p # Scheduler /\ ~WebAlarm, rows |-> rows,
                  todo |-> {n \in DOMAIN rows : rows[n].enabled},
                  results |-> {}, clean |-> rows = subscriptions])
        /\ UNCHANGED <<now, subscriptions, reminders, subState, subEdits, delivered, grace, intended, spoilt, amiss>>
  BY DEF LoadSubscriptions
<1>0. worker[p].pc \in {"load", "idle"}
  BY DEF LoadSubscriptions, Free, Idle
<1> DEFINE enabled == {n \in DOMAIN rows : rows[n].enabled}
           state == [pc |-> "check", dry |-> p # Scheduler /\ ~WebAlarm, rows |-> rows,
                     todo |-> enabled, results |-> {}, clean |-> rows = subscriptions]
<1>2. Go(p, state)
  BY <1>1
<1> HIDE DEF enabled
<1>3. state.pc = "check" /\ DOMAIN state = CheckFields /\ state.todo = enabled /\ state.results = {} /\ state.rows = rows
  BY DEF CheckFields
<1> HIDE DEF state
<1>4. WorkerShape(state) /\ CheckedSoFar(state, reminders, now)
  BY <1>3 DEF WorkerShape, CheckShape, CheckedSoFar, enabled
<1>5. subFaults' \in Nat
  BY <1>1, InvParts DEF Loaded, Fault
<1>6. SubTypeOK' /\ RenamesCompose' /\ EditsCompose' /\ CheckInv'
  <2>1. \A n : RemindedIn(reminders, n, now) => RemindedIn(reminders', n, now)
    BY <1>1
  <2>2. /\ reminders' = reminders /\ delivered' = delivered /\ grace' = grace
        /\ UNCHANGED <<now, subscriptions, intended, spoilt, amiss>> /\ state.pc # "save"
    BY <1>1, <1>3
  <2>. QED  BY <1>2, <1>4, <1>5, <2>1, <2>2, InvParts, CheckStep
<1>7. GraceInv'
  <2>1. worker'[p] = state /\ \A q \in SubProcs : q # p => worker'[q] = worker[q]
    BY <1>2, InvParts, GoFacts
  <2>2. \A q \in SubProcs : \/ worker'[q] = worker[q]
                            \/ worker[q].pc \notin {"send", "record"} /\ worker'[q].pc \notin {"send", "record"}
    BY <1>3, <1>0, <2>1
  <2>. QED  BY <1>1, <2>2, InvParts, QuietMove
<1>. QED  BY <1>6, <1>7 DEF SubInv

\* A check that ends keeps the invariant.
LEMMA FinishStep ==
  ASSUME SubInv, NEW p \in SubProcs, FinishCheck(p)
  PROVE  SubInv'
<1>1. /\ worker[p].pc = "check" /\ Go(p, Idle) /\ Idle.pc = "idle"
      /\ UNCHANGED <<now, subscriptions, reminders, subEdits, subFaults, delivered, grace, intended, spoilt, amiss>>
  BY DEF FinishCheck, Idle
<1>2. SubTypeOK' /\ RenamesCompose' /\ EditsCompose' /\ CheckInv'
  <2>1. WorkerShape(Idle) /\ CheckedSoFar(Idle, reminders, now)
    BY <1>1 DEF WorkerShape, CheckedSoFar, Checking
  <2>2. \A n : RemindedIn(reminders, n, now) => RemindedIn(reminders', n, now)
    BY <1>1
  <2>3. reminders' = reminders /\ delivered' = delivered /\ grace' = grace /\ subFaults' = subFaults
    BY <1>1
  <2>. QED  BY <1>1, <2>1, <2>2, <2>3, InvParts, CheckStep
<1>3. GraceInv'
  <2>1. worker'[p] = Idle /\ \A q \in SubProcs : q # p => worker'[q] = worker[q]
    BY <1>1, InvParts, GoFacts
  <2>2. \A q \in SubProcs : \/ worker'[q] = worker[q]
                            \/ worker[q].pc \notin {"send", "record"} /\ worker'[q].pc \notin {"send", "record"}
    BY <1>1, <2>1
  <2>. QED  BY <1>1, <2>2, InvParts, QuietMove
<1>. QED  BY <1>2, <1>3 DEF SubInv

\* A name the check has done without a failure needed no reminder, or has one.
LEMMA ResultFacts ==
  ASSUME SubInv, NEW p \in SubProcs, worker[p].pc \in Checking, NEW n \in worker[p].todo, NEW ok \in BOOLEAN,
         NEW rows, \A m : RemindedIn(reminders, m, now) => RemindedIn(rows, m, now),
         worker[p].clean /\ ok /\ VerdictAt(worker[p].rows[n], worker[p].dry, now) = "due" /\ HasNotifier
           => RemindedIn(rows, n, now),
         Result(p, n, ok)
  PROVE  \E state : Go(p, state) /\ WorkerShape(state) /\ state.pc = "check" /\ CheckedSoFar(state, rows, now)
<1> DEFINE w == worker[p]
           state == [pc |-> "check", dry |-> w.dry, rows |-> w.rows, clean |-> w.clean /\ ok,
                     todo |-> w.todo \ {n}, results |-> w.results \cup {n}]
<1>1. Go(p, state)
  BY DEF Result
<1>2. CheckedSoFar(w, reminders, now)
  BY CheckingShape
<1>3. /\ w.pc \in Checking /\ n \in w.todo
      /\ w.clean /\ ok /\ VerdictAt(w.rows[n], w.dry, now) = "due" /\ HasNotifier => RemindedIn(rows, n, now)
  OBVIOUS
<1> HIDE DEF w
<1>4. /\ state.pc = "check" /\ DOMAIN state = CheckFields /\ state.dry = w.dry /\ state.rows = w.rows
      /\ state.clean = (w.clean /\ ok) /\ state.todo = w.todo \ {n} /\ state.results = w.results \cup {n}
  BY DEF CheckFields
<1> HIDE DEF state
<1>5. WorkerShape(state)
  BY <1>4 DEF WorkerShape, CheckShape
<1>6. state.todo \cup state.results = {m \in DOMAIN w.rows : w.rows[m].enabled}
  <2>1. w.todo \cup w.results = {m \in DOMAIN w.rows : w.rows[m].enabled}
    BY <1>2, <1>3 DEF CheckedSoFar
  <2>2. (w.todo \ {n}) \cup (w.results \cup {n}) = w.todo \cup w.results
    BY <1>3
  <2>. QED  BY <1>4, <2>1, <2>2
<1>7. ASSUME state.clean, NEW m \in state.results,
             VerdictAt(w.rows[m], w.dry, now) = "due", HasNotifier
      PROVE  RemindedIn(rows, m, now)
  <2>1. w.clean /\ ok
    BY <1>4, <1>7
  <2>2. CASE m = n
    BY <1>3, <1>7, <2>1, <2>2
  <2>3. CASE m \in w.results
    BY <1>2, <1>3, <1>7, <2>1, <2>3 DEF CheckedSoFar
  <2>. QED  BY <1>4, <2>2, <2>3
<1>8. CheckedSoFar(state, rows, now)
  <2>1. state.clean => \A m \in state.results :
          VerdictAt(state.rows[m], state.dry, now) = "due" /\ HasNotifier => RemindedIn(rows, m, now)
    BY <1>4, <1>7
  <2>. QED  BY <1>4, <1>6, <2>1 DEF CheckedSoFar
<1>. QED  BY <1>1, <1>4, <1>5, <1>8

\* A name in its cooldown was reminded within it.
LEMMA CoolingReminded ==
  ASSUME NEW n, Cooling(n)
  PROVE  RemindedIn(reminders, n, now)
<1>1. PICK t \in LastSentAlert(reminders, n, SubCooldown, now) : now < t + SubCooldown
  BY DEF Cooling
<1>2. PICK r : Seen(reminders, n, now, r) /\ r.at = t
  BY SeenFacts
<1>. QED  BY <1>1, <1>2 DEF Seen, RemindedIn

\* A check that asks, delivers or is about to record keeps what it has to do.
LEMMA SameWork ==
  ASSUME NEW w, CheckedSoFar(w, reminders, now), w.pc \in Checking,
         NEW state, state.pc \in {"send", "record"}, state.dry = w.dry, state.rows = w.rows,
         state.todo = w.todo, state.results = w.results, state.name \in w.todo,
         state.clean => w.clean, state.pc = "record" /\ state.clean => state.status = "sent"
  PROVE  CheckedSoFar(state, reminders, now)
<1>1. state.clean => \A n \in state.results :
        VerdictAt(state.rows[n], state.dry, now) = "due" /\ HasNotifier => RemindedIn(reminders, n, now)
  BY DEF CheckedSoFar
<1>2. state.todo \cup state.results = {n \in DOMAIN state.rows : state.rows[n].enabled}
  BY DEF CheckedSoFar
<1>. QED  BY <1>1, <1>2 DEF CheckedSoFar

\* Checking one subscription keeps the invariant (checkOne).
LEMMA CheckOneStep ==
  ASSUME SubInv, NEW p \in SubProcs, NEW n \in Names, checkOne(p, n)
  PROVE  SubInv'
<1> DEFINE w == worker[p]
           verdict == Verdict(w.rows[n], w.dry)
           Sending(ok) == [pc |-> "send", name |-> n, dry |-> w.dry, rows |-> w.rows, todo |-> w.todo,
                           results |-> w.results, clean |-> w.clean /\ ok]
<1>1. /\ w.pc = "check" /\ n \in w.todo
      /\ UNCHANGED <<now, subscriptions, reminders, subState, subEdits, delivered, intended, spoilt, amiss>>
  BY DEF checkOne
<1>2. \/ /\ verdict # "due" \/ Cooling(n)
         /\ Result(p, n, TRUE)
         /\ UNCHANGED <<subFaults, grace>>
      \/ /\ ~Cooling(n)
         /\ Go(p, Sending(TRUE))
         /\ Excuse(IF Beside(p, n) THEN {n} ELSE {})
         /\ UNCHANGED subFaults
      \/ /\ Fault
         /\ Go(p, Sending(FALSE))
         /\ Excuse({n})
  BY DEF checkOne
<1>3. verdict = VerdictAt(w.rows[n], w.dry, now)
  <2> DEFINE row == w.rows[n]
             dry == w.dry
  <2> HIDE DEF row, dry
  <2>1. Verdict(row, dry) = VerdictAt(row, dry, now)
    BY VerdictNow
  <2>. QED  BY <2>1 DEF row, dry
<1> HIDE DEF verdict
<1>4. w.pc \in Checking /\ CheckedSoFar(w, reminders, now)
  BY <1>1, CheckingShape DEF Checking
<1>5. subFaults' \in Nat
  <2>1. UNCHANGED subFaults \/ Fault
    BY DEF checkOne
  <2>. QED  BY <2>1, InvParts DEF Fault
<1>6. \A m : RemindedIn(reminders, m, now) => RemindedIn(reminders', m, now)
  BY <1>1
<1>7. CASE (verdict # "due" \/ Cooling(n)) /\ Result(p, n, TRUE) /\ UNCHANGED <<subFaults, grace>>
  <2>1. VerdictAt(w.rows[n], w.dry, now) = "due" /\ HasNotifier => RemindedIn(reminders, n, now)
    BY <1>3, <1>7, CoolingReminded
  <2>2. PICK state : Go(p, state) /\ WorkerShape(state) /\ state.pc = "check" /\ CheckedSoFar(state, reminders, now)
    BY <1>1, <1>4, <1>7, <2>1, ResultFacts
  <2>3. SubTypeOK' /\ RenamesCompose' /\ EditsCompose' /\ CheckInv'
    <3>1. reminders' = reminders /\ delivered' = delivered /\ grace' = grace /\ state.pc # "save"
      BY <1>1, <1>7, <2>2
    <3>. QED  BY <1>1, <1>5, <1>6, <2>2, <3>1, InvParts, CheckStep
  <2>4. GraceInv'
    <3>1. worker'[p] = state /\ \A q \in SubProcs : q # p => worker'[q] = worker[q]
      BY <2>2, InvParts, GoFacts
    <3>2. \A q \in SubProcs : \/ worker'[q] = worker[q]
                              \/ worker[q].pc \notin {"send", "record"} /\ worker'[q].pc \notin {"send", "record"}
      BY <1>1, <2>2, <3>1
    <3>. QED  BY <1>1, <1>7, <3>2, InvParts, QuietMove
  <2>. QED  BY <2>3, <2>4 DEF SubInv
<1>8. ASSUME NEW ok \in BOOLEAN, Go(p, Sending(ok)), grace' \in [Names -> Nat],
             \A m \in Names \ {n} : grace'[m] = grace[m],
             grace'[n] = grace[n] + 1 \/ (grace'[n] = grace[n] /\ ~Beside(p, n) /\ ~Cooling(n))
      PROVE  SubInv'
  <2> DEFINE state == Sending(ok)
  <2>1. Go(p, state)
    BY <1>8
  <2>2. w.pc = "check" /\ n \in w.todo
    BY <1>1
  <2> HIDE DEF w
  <2>3. /\ state.pc = "send" /\ state.name = n /\ DOMAIN state = CheckFields \cup {"name"} /\ state.dry = w.dry
        /\ state.rows = w.rows /\ state.todo = w.todo /\ state.results = w.results /\ state.clean = (w.clean /\ ok)
    BY DEF CheckFields
  <2> HIDE DEF state
  <2>4. WorkerShape(state)
    BY <2>3 DEF WorkerShape, CheckShape
  <2>5. CheckedSoFar(state, reminders, now)
    <3>1. state.clean => w.clean
      BY <2>3
    <3>2. state.pc \in {"send", "record"} /\ state.pc # "record" /\ state.name \in w.todo
      BY <2>2, <2>3
    <3>3. state.dry = w.dry /\ state.rows = w.rows /\ state.todo = w.todo /\ state.results = w.results
      BY <2>3
    <3>. QED  BY <1>4, <3>1, <3>2, <3>3, SameWork
  <2>6. SubTypeOK' /\ RenamesCompose' /\ EditsCompose' /\ CheckInv'
    <3>1. reminders' = reminders /\ delivered' = delivered /\ state.pc # "save"
      BY <1>1, <2>3
    <3>. QED  BY <1>1, <1>5, <1>6, <1>8, <2>1, <2>4, <2>5, <3>1, InvParts, CheckStep
  <2>7. GraceInv'
    BY <1>1, <1>8, <2>1, <2>2, <2>3, InvParts, AskGrace DEF w
  <2>. QED  BY <2>6, <2>7 DEF SubInv
<1>9. \A names : Excuse(names) => /\ grace' \in [Names -> Nat]
                                  /\ \A m \in Names : grace'[m] = IF m \in names THEN grace[m] + 1 ELSE grace[m]
  BY InvParts DEF Excuse
<1>10. CASE ~Cooling(n) /\ Go(p, Sending(TRUE)) /\ Excuse(IF Beside(p, n) THEN {n} ELSE {})
  <2>1. /\ grace' \in [Names -> Nat] /\ \A m \in Names \ {n} : grace'[m] = grace[m]
        /\ grace'[n] = IF Beside(p, n) THEN grace[n] + 1 ELSE grace[n]
    BY <1>9, <1>10
  <2>. QED  BY <1>8, <1>10, <2>1
<1>11. CASE Go(p, Sending(FALSE)) /\ Excuse({n})
  <2>1. /\ grace' \in [Names -> Nat] /\ \A m \in Names \ {n} : grace'[m] = grace[m]
        /\ grace'[n] = grace[n] + 1
    BY <1>9, <1>11
  <2>. QED  BY <1>8, <1>11, <2>1
<1>. QED  BY <1>2, <1>7, <1>10, <1>11

\* A check that sends is about a name and holds what a check holds.
LEMMA SendingFacts ==
  ASSUME SubInv, NEW p \in SubProcs, worker[p].pc \in {"send", "record"}
  PROVE  /\ worker[p].pc \in Checking /\ CheckedSoFar(worker[p], reminders, now)
         /\ worker[p].name \in Names /\ worker[p].name \in worker[p].todo
         /\ worker[p].pc = "record" => worker[p].status \in Statuses
<1>1. CheckShape(worker[p]) /\ CheckedSoFar(worker[p], reminders, now) /\ worker[p].pc \in Checking
  BY CheckingShape DEF Checking
<1>. QED  BY <1>1 DEF CheckShape, CheckedSoFar

\* A check that has tried to deliver is sound and about to record.
LEMMA RecordingFacts ==
  ASSUME SubInv, NEW p \in SubProcs, worker[p].pc = "send",
         NEW status \in Statuses, NEW ok \in BOOLEAN, ok => status = "sent",
         NEW state, state = Recording(worker[p], status, ok)
  PROVE  /\ WorkerShape(state) /\ CheckedSoFar(state, reminders, now)
         /\ state.pc = "record" /\ state.status = status /\ state.name = worker[p].name
<1> DEFINE w == worker[p]
<1>1. w.pc \in Checking /\ CheckedSoFar(w, reminders, now) /\ w.name \in Names /\ w.name \in w.todo
  BY SendingFacts
<1>2. state = Recording(w, status, ok)
  OBVIOUS
<1> HIDE DEF w
<1>3. /\ state.pc = "record" /\ state.name = w.name /\ state.status = status
      /\ DOMAIN state = CheckFields \cup {"name", "status"} /\ state.dry = w.dry
      /\ state.rows = w.rows /\ state.todo = w.todo /\ state.results = w.results /\ state.clean = (w.clean /\ ok)
  BY <1>2 DEF Recording, CheckFields
<1>4. WorkerShape(state)
  BY <1>1, <1>3 DEF WorkerShape, CheckShape
<1>5. CheckedSoFar(state, reminders, now)
  <2>1. (state.clean => w.clean) /\ (state.pc = "record" /\ state.clean => state.status = "sent")
    BY <1>3
  <2>2. state.pc \in {"send", "record"} /\ state.name \in w.todo
    BY <1>1, <1>3
  <2>3. state.dry = w.dry /\ state.rows = w.rows /\ state.todo = w.todo /\ state.results = w.results
    BY <1>3
  <2>. QED  BY <1>1, <2>1, <2>2, <2>3, SameWork
<1>. QED  BY <1>3, <1>4, <1>5 DEF w

\* A delivered reminder keeps the invariant.
LEMMA DeliverStep ==
  ASSUME SubInv, NEW p \in SubProcs, Deliver(p)
  PROVE  SubInv'
<1> DEFINE n == worker[p].name
           early == delivered[n] # NoMark /\ now - delivered[n] < SubCooldown
           state == Recording(worker[p], "sent", TRUE)
<1>1. /\ worker[p].pc = "send"
      /\ delivered' = [delivered EXCEPT ![n] = now]
      /\ grace' = [grace EXCEPT ![n] = IF early THEN @ - 1 ELSE @]
      /\ Go(p, state)
      /\ UNCHANGED <<now, subscriptions, reminders, subState, subEdits, subFaults, intended, spoilt, amiss>>
  BY DEF Deliver
<1>2. n \in Names
  BY <1>1, SendingFacts
<1>3. /\ WorkerShape(state) /\ CheckedSoFar(state, reminders, now)
      /\ state.pc = "record" /\ state.status = "sent" /\ state.name = n
  BY <1>1, RecordingFacts DEF Statuses
<1>4. early <=> Recent(n)
  BY DEF Recent
<1>5. worker[p].name = n
  OBVIOUS
<1> HIDE DEF n, state, early
<1>6. delivered'[n] = now /\ \A m \in Names \ {n} : delivered'[m] = delivered[m]
  BY <1>1, <1>2, InvParts
<1>7. /\ grace'[n] = IF Recent(n) THEN grace[n] - 1 ELSE grace[n]
      /\ \A m \in Names \ {n} : grace'[m] = grace[m]
  BY <1>1, <1>2, <1>4, InvParts
<1>8. GraceInv' /\ grace'[n] \in Nat
  BY <1>1, <1>2, <1>3, <1>5, <1>6, <1>7, InvParts, DeliverGrace
<1>9. SubTypeOK' /\ RenamesCompose' /\ EditsCompose' /\ CheckInv'
  <2>1. delivered' \in [Names -> Nat \cup {NoMark}] /\ \A m \in Names : delivered'[m] <= now
    <3>1. \A m \in Names : delivered'[m] \in Nat \cup {NoMark} /\ delivered'[m] <= now
      BY <1>6, InvParts
    <3>2. DOMAIN delivered' = Names /\ delivered' = [m \in Names |-> delivered'[m]]
      BY <1>1, InvParts
    <3>. QED  BY <3>1, <3>2
  <2>2. grace' \in [Names -> Nat]
    <3>1. \A m \in Names : grace'[m] \in Nat
      BY <1>7, <1>8, InvParts
    <3>2. DOMAIN grace' = Names /\ grace' = [m \in Names |-> grace'[m]]
      BY <1>1, InvParts
    <3>. QED  BY <3>1, <3>2
  <2>3. reminders' = reminders /\ subFaults' \in Nat /\ state.pc # "save"
    BY <1>1, <1>3, InvParts
  <2>4. \A m : RemindedIn(reminders, m, now) => RemindedIn(reminders', m, now)
    BY <1>1
  <2>. QED  BY <1>1, <1>3, <2>1, <2>2, <2>3, <2>4, InvParts, CheckStep
<1>. QED  BY <1>8, <1>9 DEF SubInv

\* A delivery whose sender does not know of it leaves its query open, with an excuse.
LEMMA UnknownGrace ==
  ASSUME SubTypeOK, GraceInv, NEW p \in SubProcs, NEW n \in Names,
         worker[p].pc = "send", worker[p].name = n, UNCHANGED <<now, reminders, worker>>,
         delivered'[n] = now, \A m \in Names \ {n} : delivered'[m] = delivered[m],
         grace'[n] = IF Recent(n) THEN grace[n] ELSE grace[n] + 1, \A m \in Names \ {n} : grace'[m] = grace[m]
  PROVE  GraceInv' /\ (Recent(n) => grace[n] > 0)
<1>1. /\ grace \in [Names -> Nat] /\ now \in Nat /\ worker' = worker
      /\ delivered[n] \in Nat \cup {NoMark} /\ SubCooldown \in Nat
  BY SubscriptionAssumption DEF SubTypeOK
<1>2. Undelivered(worker[p], n) /\ Undelivered(worker'[p], n) /\ \A q \in SubProcs : q # p => worker'[q] = worker[q]
  BY <1>1 DEF Undelivered
<1>3. ASSUME NEW m \in Names \ {n}  PROVE GraceFor(m)'
  <2>1. ~Undelivered(worker[p], m) /\ ~Undelivered(worker'[p], m)
    BY <1>1 DEF Undelivered
  <2>2. GraceFor(m) /\ grace[m] \in Nat /\ grace'[m] \in Nat /\ grace'[m] >= grace[m]
    BY <1>1, GraceParts
  <2>3. Visible(m) => Visible(m)'
    BY DEF Visible
  <2>. QED  BY <1>2, <2>1, <2>2, <2>3, OtherName
<1>4. GraceFor(n)' /\ (Recent(n) => grace[n] > 0)
  <2> DEFINE open == Cardinality(OpenFor(n))
             g == grace[n]
             h == grace'[n]
  <2>1. Cardinality(OpenFor(n)') = open
    BY <1>2, OpenMove
  <2>2. open \in Nat \ {0}
    <3>1. p \in OpenFor(n)
      BY <1>2, OpenMove
    <3>. QED  BY <3>1, OpenFinite, FS_EmptySet
  <2>3. /\ Recent(n) => g >= open
        /\ ~Recent(n) => g >= open - 1
    BY GraceParts DEF GraceFor
  <2>4. g \in Nat /\ h = IF Recent(n) THEN g ELSE g + 1
    BY <1>1
  <2> HIDE DEF open, g, h
  <2>5. h >= open /\ h >= open - 1 /\ h >= 1 /\ (Recent(n) => g > 0)
    BY <2>2, <2>3, <2>4
  <2>. QED  BY <2>1, <2>5 DEF GraceFor, g, h
<1>. QED  BY <1>3, <1>4, GraceParts

\* What an answer that is lost changes.
LEMMA AnswerLostFacts ==
  ASSUME SubInv, NEW p \in SubProcs, AnswerLost(p)
  PROVE  LET n == worker[p].name
         IN  /\ worker[p].pc = "send" /\ n \in Names
             /\ UNCHANGED <<now, subscriptions, reminders, worker, intended, spoilt, amiss>> /\ subFaults' \in Nat
             /\ delivered' = [delivered EXCEPT ![n] = now]
             /\ grace' = [grace EXCEPT ![n] = IF Recent(n) THEN @ ELSE @ + 1]
             /\ GraceInv' /\ (Recent(n) => grace[n] > 0)
<1> DEFINE n == worker[p].name
           early == delivered[n] # NoMark /\ now - delivered[n] < SubCooldown
<1>1. /\ worker[p].pc = "send"
      /\ UNCHANGED <<now, subscriptions, reminders, worker, intended, spoilt, amiss>>
      /\ delivered' = [delivered EXCEPT ![n] = now]
      /\ grace' = [grace EXCEPT ![n] = IF early THEN @ ELSE @ + 1]
  BY DEF AnswerLost
<1>2. n \in Names /\ subFaults' \in Nat
  BY <1>1, SendingFacts, InvParts DEF AnswerLost, Fault
<1>3. early <=> Recent(n)
  BY DEF Recent
<1>4. worker[p].name = n
  OBVIOUS
<1> HIDE DEF n, early
<1>5. delivered'[n] = now /\ \A m \in Names \ {n} : delivered'[m] = delivered[m]
  BY <1>1, <1>2, InvParts
<1>6. /\ grace'[n] = IF Recent(n) THEN grace[n] ELSE grace[n] + 1
      /\ \A m \in Names \ {n} : grace'[m] = grace[m]
  BY <1>1, <1>2, <1>3, InvParts
<1>7. GraceInv' /\ (Recent(n) => grace[n] > 0)
  BY <1>1, <1>2, <1>4, <1>5, <1>6, InvParts, UnknownGrace
<1>8. grace' = [grace EXCEPT ![n] = IF Recent(n) THEN @ ELSE @ + 1]
  BY <1>1, <1>3
<1>. QED  BY <1>1, <1>2, <1>4, <1>7, <1>8

\* A lost answer keeps the invariant.
LEMMA AnswerLostStep ==
  ASSUME SubInv, NEW p \in SubProcs, AnswerLost(p)
  PROVE  SubInv'
<1>1. PICK n \in Names :
        /\ UNCHANGED <<now, subscriptions, reminders, worker, intended, spoilt, amiss>> /\ subFaults' \in Nat
        /\ delivered' = [delivered EXCEPT ![n] = now]
        /\ grace' = [grace EXCEPT ![n] = IF Recent(n) THEN @ ELSE @ + 1]
        /\ GraceInv'
  BY AnswerLostFacts
<1>2. SubTypeOK'
  <2>1. delivered' \in [Names -> Nat \cup {NoMark}] /\ \A m \in Names : delivered'[m] <= now
    BY <1>1, InvParts
  <2>2. grace' \in [Names -> Nat]
    BY <1>1, InvParts
  <2>3. SubTypeOK
    BY InvParts
  <2>. QED  BY <1>1, <2>1, <2>2, <2>3 DEF SubTypeOK, Whole
<1>3. RenamesCompose' /\ EditsCompose'
  BY <1>1, EditFrame DEF SubInv
<1>4. CheckInv'
  BY <1>1, CheckFrame DEF SubInv
<1>. QED  BY <1>1, <1>2, <1>3, <1>4 DEF SubInv

\* A reminder that fails keeps the invariant.
LEMMA DeliverFailsStep ==
  ASSUME SubInv, NEW p \in SubProcs, DeliverFails(p)
  PROVE  SubInv'
<1> DEFINE n == worker[p].name
<1>1. /\ worker[p].pc = "send"
      /\ \/ Fault /\ Go(p, Recording(worker[p], "failed", FALSE))
         \/ ~HasNotifier /\ Result(p, n, TRUE) /\ UNCHANGED subFaults
      /\ UNCHANGED <<now, subscriptions, reminders, subState, subEdits, delivered, grace, intended, spoilt, amiss>>
  BY DEF DeliverFails
<1>2. n \in Names /\ n \in worker[p].todo /\ worker[p].pc \in Checking
  BY <1>1, SendingFacts
<1>3. subFaults' \in Nat
  <2>1. UNCHANGED subFaults \/ Fault
    BY DEF DeliverFails
  <2>. QED  BY <2>1, InvParts DEF Fault
<1>4. \E state : /\ Go(p, state) /\ WorkerShape(state) /\ CheckedSoFar(state, reminders, now)
                 /\ state.pc = "check" \/ (state.pc = "record" /\ state.status = "failed" /\ state.name = n)
  <2>1. CASE Go(p, Recording(worker[p], "failed", FALSE))
    <3> DEFINE state == Recording(worker[p], "failed", FALSE)
    <3>1. /\ WorkerShape(state) /\ CheckedSoFar(state, reminders, now)
          /\ state.pc = "record" /\ state.status = "failed" /\ state.name = n
      BY <1>1, RecordingFacts DEF Statuses
    <3>. QED  BY <2>1, <3>1
  <2>2. CASE ~HasNotifier /\ Result(p, n, TRUE)
    <3>1. \E state : Go(p, state) /\ WorkerShape(state) /\ state.pc = "check" /\ CheckedSoFar(state, reminders, now)
      BY <1>2, <2>2, ResultFacts
    <3>. QED  BY <3>1
  <2>. QED  BY <1>1, <2>1, <2>2
<1>5. PICK state : /\ Go(p, state) /\ WorkerShape(state) /\ CheckedSoFar(state, reminders, now)
                   /\ state.pc = "check" \/ (state.pc = "record" /\ state.status = "failed" /\ state.name = n)
  BY <1>4
<1>6. worker[p].name = n
  OBVIOUS
<1> HIDE DEF n
<1>7. SubTypeOK' /\ RenamesCompose' /\ EditsCompose' /\ CheckInv'
  <2>1. reminders' = reminders /\ delivered' = delivered /\ grace' = grace /\ state.pc # "save"
    BY <1>1, <1>5
  <2>2. \A m : RemindedIn(reminders, m, now) => RemindedIn(reminders', m, now)
    BY <1>1
  <2>. QED  BY <1>1, <1>3, <1>5, <2>1, <2>2, InvParts, CheckStep
<1>8. GraceInv'
  BY <1>1, <1>2, <1>5, <1>6, InvParts, RefusedGrace
<1>. QED  BY <1>7, <1>8 DEF SubInv

\* Recording a reminder, or failing to, keeps the invariant (record).
LEMMA RecordStep ==
  ASSUME SubInv, NEW p \in SubProcs, record(p)
  PROVE  SubInv'
<1>n. PICK n \in Names, status \in Statuses : worker[p].name = n /\ worker[p].status = status
  BY SendingFacts DEF record
<1> DEFINE ok == (subFaults' = subFaults)
<1>1. /\ worker[p].pc = "record"
      /\ \/ /\ reminders' = SaveAlert(reminders, n, status, now)
            /\ UNCHANGED <<subFaults, grace>>
         \/ /\ Fault
            /\ Excuse(IF status = "sent" THEN {n} ELSE {})
            /\ UNCHANGED reminders
      /\ Result(p, n, ok)
      /\ UNCHANGED <<now, subscriptions, subState, subEdits, delivered, intended, spoilt, amiss>>
  BY <1>n DEF record
<1>2. /\ n \in Names /\ n \in worker[p].todo /\ status \in Statuses /\ worker[p].pc \in Checking
      /\ CheckedSoFar(worker[p], reminders, now)
  BY <1>1, <1>n, SendingFacts
<1>4. worker[p].clean => status = "sent"
  BY <1>1, <1>2, <1>n DEF CheckedSoFar
<1>5. ok => ~Fault
  BY InvParts DEF Fault
<1> HIDE DEF ok
<1>6. ok \in BOOLEAN /\ subFaults' \in Nat
  <2>1. UNCHANGED subFaults \/ Fault
    BY <1>1
  <2>2. ok \in BOOLEAN
    BY DEF ok
  <2>. QED  BY <2>1, <2>2, InvParts DEF Fault
<1>7. ASSUME reminders' = SaveAlert(reminders, n, status, now)
      PROVE
        /\ IsFiniteSet(reminders') /\ \A r \in reminders' : r.at \in Nat /\ r.at <= now
        /\ \A m : RemindedIn(reminders, m, now) => RemindedIn(reminders', m, now)
        /\ status = "sent" => RemindedIn(reminders', n, now)
        /\ \A m \in Names \ {n} : Visible(m) => Visible(m)'
        /\ status = "sent" /\ Recent(n) => Visible(n)'
  <2>1. SubTypeOK /\ UNCHANGED <<now, delivered>>
    BY <1>1, InvParts
  <2>. QED  BY <1>2, <1>7, <2>1, SaveShows
<1>8. /\ IsFiniteSet(reminders') /\ \A r \in reminders' : r.at \in Nat /\ r.at <= now
      /\ \A m : RemindedIn(reminders, m, now) => RemindedIn(reminders', m, now)
      /\ \A m \in Names \ {n} : Visible(m) => Visible(m)'
  <2>1. CASE reminders' = SaveAlert(reminders, n, status, now)
    BY <1>7, <2>1
  <2>2. CASE UNCHANGED reminders
    <3>1. \A m : Visible(m)' <=> Visible(m)
      BY <1>1, <2>2 DEF Visible
    <3>. QED  BY <2>2, <3>1, InvParts
  <2>. QED  BY <1>1, <2>1, <2>2
<1>9. grace' \in [Names -> Nat] /\ \A m \in Names : grace'[m] >= grace[m]
  <2>1. CASE UNCHANGED grace
    BY <2>1, InvParts
  <2>2. CASE Excuse(IF status = "sent" THEN {n} ELSE {})
    BY <2>2, InvParts DEF Excuse
  <2>. QED  BY <1>1, <2>1, <2>2
<1>10. status = "sent" => (Recent(n) => Visible(n)') \/ grace'[n] >= 1
  <2>1. CASE reminders' = SaveAlert(reminders, n, status, now)
    BY <1>7, <2>1
  <2>2. CASE Excuse(IF status = "sent" THEN {n} ELSE {})
    <3>1. status = "sent" => grace'[n] = grace[n] + 1
      BY <1>2, <2>2 DEF Excuse
    <3>2. grace[n] \in Nat
      BY <1>2, InvParts
    <3>. QED  BY <3>1, <3>2
  <2>. QED  BY <1>1, <2>1, <2>2
<1>11. worker[p].clean /\ ok /\ VerdictAt(worker[p].rows[n], worker[p].dry, now) = "due" /\ HasNotifier
         => RemindedIn(reminders', n, now)
  BY <1>1, <1>4, <1>5, <1>7
<1>12. PICK state : Go(p, state) /\ WorkerShape(state) /\ state.pc = "check" /\ CheckedSoFar(state, reminders', now)
  BY <1>1, <1>2, <1>6, <1>8, <1>11, ResultFacts
<1>13. SubTypeOK' /\ RenamesCompose' /\ EditsCompose' /\ CheckInv'
  <2>1. delivered' = delivered /\ state.pc # "save"
    BY <1>1, <1>12
  <2>. QED  BY <1>1, <1>6, <1>8, <1>9, <1>12, <2>1, InvParts, CheckStep
<1>14. GraceInv'
  <2>1. SubTypeOK /\ GraceInv /\ UNCHANGED <<now, delivered>> /\ worker[p].pc = "record"
    BY <1>1, InvParts
  <2>2. worker[p].name = n /\ worker[p].status \in Statuses
    BY <1>2, <1>n
  <2>3. worker[p].status = "sent" => (Recent(n) => Visible(n)') \/ grace'[n] >= 1
    BY <1>n, <1>10
  <2>. QED  BY <1>2, <1>8, <1>9, <1>12, <2>1, <2>2, <2>3, RecordGrace
<1>. QED  BY <1>13, <1>14 DEF SubInv

-------------------------------------------------------------------------------
(* Crashes and the clock                                                    *)

\* Time keeps the invariant.
LEMMA TickStep ==
  ASSUME SubInv, TickDay
  PROVE  SubInv'
<1>1. /\ now' = now + 1
      /\ worker' = [p \in SubProcs |-> IF worker[p].pc \in Checking THEN [worker[p] EXCEPT !.clean = FALSE] ELSE worker[p]]
      /\ UNCHANGED <<subscriptions, reminders, subState, subEdits, subFaults, delivered, grace, intended, spoilt, amiss>>
  BY DEF TickDay
<1>2. now \in Nat /\ now' \in Nat /\ now' > now
  BY <1>1, InvParts
<1>3. ASSUME NEW p \in SubProcs, worker[p].pc \notin Checking  PROVE worker'[p] = worker[p]
  BY <1>1, <1>3
<1>4. ASSUME NEW p \in SubProcs, worker[p].pc \in Checking
      PROVE  /\ DOMAIN worker'[p] = DOMAIN worker[p] /\ worker'[p].clean = FALSE
             /\ \A f \in DOMAIN worker[p] \ {"clean"} : worker'[p][f] = worker[p][f]
             /\ CheckShape(worker[p])
  <2>1. worker'[p] = [worker[p] EXCEPT !.clean = FALSE]
    BY <1>1, <1>4
  <2>2. CheckShape(worker[p])
    BY <1>4, CheckingShape
  <2>3. "clean" \in DOMAIN worker[p]
    BY <2>2 DEF CheckShape, CheckFields
  <2>. QED  BY <2>1, <2>2, <2>3
<1>5. ASSUME NEW p \in SubProcs, worker[p].pc \in Checking
      PROVE  /\ worker'[p].pc = worker[p].pc /\ worker'[p].rows = worker[p].rows /\ worker'[p].todo = worker[p].todo
             /\ worker'[p].results = worker[p].results
             /\ worker[p].pc # "check" => worker'[p].name = worker[p].name
             /\ worker[p].pc = "record" => worker'[p].status = worker[p].status
             /\ ~worker'[p].clean
             /\ CheckShape(worker'[p])
  <2>1. CheckFields \subseteq DOMAIN worker[p]
    BY <1>4, <1>5 DEF CheckShape
  <2>2. /\ worker'[p].pc = worker[p].pc /\ worker'[p].rows = worker[p].rows /\ worker'[p].todo = worker[p].todo
        /\ worker'[p].results = worker[p].results
    BY <1>4, <1>5, <2>1 DEF CheckFields
  <2>3. /\ worker[p].pc # "check" => worker'[p].name = worker[p].name
        /\ worker[p].pc = "record" => worker'[p].status = worker[p].status
    BY <1>4, <1>5 DEF CheckShape
  <2>4. CheckShape(worker'[p])
    BY <1>4, <1>5, <2>2, <2>3 DEF CheckShape
  <2>. QED  BY <1>4, <1>5, <2>2, <2>3, <2>4
<1>6. SubTypeOK'
  <2>1. \A p \in SubProcs : WorkerShape(worker'[p])
    <3> SUFFICES ASSUME NEW p \in SubProcs  PROVE WorkerShape(worker'[p])
      OBVIOUS
    <3>1. CASE worker[p].pc \in Checking
      BY <1>5, <3>1 DEF WorkerShape
    <3>2. CASE worker[p].pc \notin Checking
      BY <1>3, <3>2 DEF SubInv, SubTypeOK
    <3>. QED  BY <3>1, <3>2
  <2>2. DOMAIN worker' = SubProcs
    BY <1>1
  <2>3. Whole(subscriptions)' /\ Whole(intended)'
    BY <1>1 DEF SubInv, SubTypeOK, Whole
  <2>4. /\ \A r \in reminders' : r.at \in Nat /\ r.at <= now'
        /\ \A n \in Names : delivered'[n] <= now'
    <3>1. \A r \in reminders : r.at \in Nat /\ r.at <= now + 1
      BY <1>2, InvParts
    <3>2. \A n \in Names : delivered[n] <= now + 1
      <4>1. \A n \in Names : delivered[n] \in Nat \cup {NoMark} /\ delivered[n] <= now
        BY InvParts
      <4>. QED  BY <1>2, <4>1 DEF NoMark
    <3>. QED  BY <1>1, <3>1, <3>2
  <2>. QED  BY <1>1, <1>2, <2>1, <2>2, <2>3, <2>4, InvParts DEF SubTypeOK
<1>7. GraceInv'
  <2>1. \A n : \A p \in SubProcs : Undelivered(worker'[p], n) <=> Undelivered(worker[p], n)
    <3> SUFFICES ASSUME NEW n, NEW p \in SubProcs  PROVE Undelivered(worker'[p], n) <=> Undelivered(worker[p], n)
      OBVIOUS
    <3>1. CASE worker[p].pc \in Checking
      BY <1>5, <3>1 DEF Undelivered
    <3>2. CASE worker[p].pc \notin Checking
      BY <1>3, <3>2
    <3>. QED  BY <3>1, <3>2
  <2>2. \A n : OpenFor(n)' = OpenFor(n)
    <3>1. \A n, p : p \in OpenFor(n)' <=> p \in OpenFor(n)
      BY <2>1 DEF OpenFor
    <3>. QED  BY <3>1 DEF OpenFor
  <2>3. \A n : Unrecorded(n) => Unrecorded(n)'
    <3> SUFFICES ASSUME NEW n, Unrecorded(n)  PROVE Unrecorded(n)'
      OBVIOUS
    <3>1. PICK p \in SubProcs : worker[p].pc = "record" /\ worker[p].status = "sent" /\ worker[p].name = n
      BY DEF Unrecorded
    <3>2. worker'[p].pc = "record" /\ worker'[p].status = "sent" /\ worker'[p].name = n
      BY <1>5, <3>1 DEF Checking
    <3>. QED  BY <3>2 DEF Unrecorded
  <2>4. ASSUME NEW n \in Names  PROVE GraceFor(n)'
    <3>1. /\ delivered' = delivered /\ delivered[n] \in Nat \cup {NoMark} /\ SubCooldown \in Nat
          /\ now' = now + 1 /\ now \in Nat /\ Window \in Int /\ SubCooldown <= Window
      BY <1>1, InvParts, WindowFacts
    <3>2. Recent(n)' => Recent(n)
      BY <3>1 DEF Recent, NoMark
    <3>3. ASSUME Recent(n)', Visible(n)  PROVE Visible(n)'
      <4>1. PICK r : Seen(reminders, n, now, r) /\ delivered[n] <= r.at /\ SubCooldown > 0
        BY <3>3, SeenFacts DEF Visible
      <4>2. r.at \in Nat
        BY <4>1, InvParts DEF Seen
      <4>3. delivered[n] \in Nat /\ now' - delivered[n] < SubCooldown
        BY <3>1, <3>3 DEF Recent
      <4>4. r.at >= now' - Window
        BY <3>1, <4>1, <4>2, <4>3
      <4>5. Seen(reminders, n, now', r)
        BY <4>1, <4>4 DEF Seen
      <4>6. r.at \in LastSentAlert(reminders, n, SubCooldown, now')
        BY <4>1, <4>5, SeenFacts
      <4>7. r.at \in LastSentAlert(reminders', n, SubCooldown, now') /\ delivered'[n] <= r.at
        BY <1>1, <4>1, <4>6
      <4>. QED  BY <4>7 DEF Visible
    <3>4. GraceFor(n) /\ grace'[n] = grace[n] /\ OpenFor(n)' = OpenFor(n)
      BY <1>1, <2>2, InvParts, GraceParts
    <3>5. grace[n] \in Nat /\ Cardinality(OpenFor(n)) \in Nat
      BY InvParts, OpenFinite
    <3> DEFINE open == Cardinality(OpenFor(n))
               g == grace[n]
    <3>6. /\ Recent(n) => g >= open
          /\ ~Recent(n) => g >= open - 1
          /\ Recent(n) /\ ~Unrecorded(n) /\ ~Visible(n) => g >= 1
      BY <3>4 DEF GraceFor
    <3>7. g \in Nat /\ open \in Nat /\ grace'[n] = g /\ Cardinality(OpenFor(n)') = open
      BY <3>4, <3>5
    <3> HIDE DEF open, g
    <3>8. /\ Recent(n)' => g >= open
          /\ ~Recent(n)' => g >= open - 1
          /\ Recent(n)' /\ ~Unrecorded(n)' /\ ~Visible(n)' => g >= 1
      BY <2>3, <3>2, <3>3, <3>6, <3>7
    <3>. QED  BY <3>7, <3>8 DEF GraceFor
  <2>. QED  BY <2>4, GraceParts
<1>8. RenamesCompose' /\ EditsCompose'
  <2>1. \A q \in SubProcs : worker'[q] = worker[q] \/ ~(worker'[q].pc = "save" /\ worker'[q].renames)
    BY <1>3, <1>5 DEF Checking
  <2>2. RenamesCompose /\ EditsCompose /\ UNCHANGED <<subscriptions, intended, spoilt, amiss>>
    BY <1>1 DEF SubInv
  <2>. QED  BY <2>1, <2>2, EditFrame
<1>9. CheckInv'
  <2> SUFFICES ASSUME NEW p \in SubProcs  PROVE CheckedSoFar(worker'[p], reminders', now')
    BY DEF CheckInv
  <2>1. CASE worker[p].pc \notin Checking
    BY <1>3, <2>1 DEF CheckedSoFar
  <2>2. CASE worker[p].pc \in Checking
    <3>1. CheckedSoFar(worker[p], reminders, now)
      BY <2>2, CheckingShape
    <3> DEFINE w == worker[p]
               v == worker'[p]
    <3>2. /\ v.pc = w.pc /\ v.rows = w.rows /\ v.todo = w.todo /\ v.results = w.results
          /\ w.pc # "check" => v.name = w.name
          /\ ~v.clean /\ w.pc \in Checking /\ CheckedSoFar(w, reminders, now)
      BY <1>5, <2>2, <3>1
    <3> HIDE DEF w, v
    <3>3. CheckedSoFar(v, reminders', now')
      BY <3>2 DEF CheckedSoFar
    <3>. QED  BY <3>3 DEF v
  <2>. QED  BY <2>1, <2>2
<1>. QED  BY <1>6, <1>7, <1>8, <1>9 DEF SubInv

\* A crash of the checks keeps the invariant.
LEMMA CrashStep ==
  ASSUME SubInv, CrashChecks
  PROVE  SubInv'
<1> DEFINE cut == {p \in SubProcs : worker[p].pc = "record" /\ worker[p].status = "sent"}
           names == {worker[p].name : p \in cut}
           never == UNION {Abandoned(worker[p]) : p \in SubProcs}
           bases(n) == UNION {worker[p].base : p \in {q \in SubProcs : n \in Abandoned(worker[q])}}
           put == [n \in {m \in never : bases(m) # {}} |-> CHOOSE r \in bases(n) : TRUE]
<1>1. /\ Fault
      /\ worker' = [p \in SubProcs |-> Idle]
      /\ Excuse(names)
      /\ spoilt' = spoilt \cup never
      /\ intended' = Over(put, intended)
      /\ UNCHANGED <<now, subscriptions, reminders, subEdits, delivered, amiss>>
  BY DEF CrashChecks
<1>2. \A p \in SubProcs : worker'[p] = Idle
  BY <1>1
<1>3. Idle.pc = "idle"
  BY DEF Idle
<1>4. \A m \in Names : grace'[m] = IF m \in names THEN grace[m] + 1 ELSE grace[m]
  BY <1>1 DEF Excuse
<1>5. grace' \in [Names -> Nat]
  <2>1. \A m \in Names : grace[m] \in Nat
    BY InvParts
  <2> HIDE DEF names
  <2>. QED  BY <1>1, <2>1 DEF Excuse
<1>6. Whole(intended) /\ Whole(subscriptions) /\ RenamesCompose /\ EditsCompose
  BY DEF SubInv, SubTypeOK
<1>7. DOMAIN put \subseteq never /\ Whole(put)
  <2>1. ASSUME NEW n \in DOMAIN put  PROVE n \in never /\ DOMAIN put[n] = Edited \cup Settings
    <3>1. n \in never /\ bases(n) # {} /\ put[n] = CHOOSE r \in bases(n) : TRUE
      BY <2>1
    <3>2. put[n] \in bases(n)
      BY <3>1
    <3> HIDE DEF put
    <3>3. PICK p \in SubProcs : n \in Abandoned(worker[p]) /\ put[n] \in worker[p].base
      BY <3>2
    <3>4. worker[p].pc = "save"
      BY <3>3 DEF Abandoned
    <3>5. JobShape(worker[p])
      BY <3>4 DEF SubInv, SubTypeOK, WorkerShape, CheckShape
    <3>6. DOMAIN put[n] = Edited \cup Settings
      BY <3>3, <3>5 DEF JobShape
    <3>. QED  BY <3>1, <3>6
  <2> HIDE DEF put, never
  <2>. QED  BY <2>1 DEF Whole
<1> HIDE DEF put, never
<1>8. /\ Whole(intended')
      /\ \A n : n \notin never => (Has(intended', n) <=> Has(intended, n)) /\ (Has(intended, n) => intended'[n] = intended[n])
  BY <1>1, <1>6, <1>7, LostRows
<1>9. SubTypeOK'
  <2>1. \A p \in SubProcs : WorkerShape(worker'[p])
    BY <1>2, <1>3 DEF WorkerShape
  <2>2. DOMAIN worker' = SubProcs /\ subFaults' \in Nat
    BY <1>1, InvParts DEF Fault
  <2>3. Whole(subscriptions)' /\ Whole(intended)'
    BY <1>1, <1>6, <1>8 DEF Whole
  <2>4. UNCHANGED <<now, reminders, delivered>>
    BY <1>1
  <2>. QED  BY <1>5, <2>1, <2>2, <2>3, <2>4, InvParts DEF SubTypeOK
<1>10. RenamesCompose'
  BY <1>2, <1>3 DEF RenamesCompose
<1>11. EditsCompose'
  <2>1. ASSUME NEW n \in Names \ spoilt'  PROVE Agrees(n)'
    <3>1. n \in Names \ spoilt /\ n \notin never
      BY <1>1
    <3>2. /\ Has(intended', n) <=> Has(intended, n)
          /\ Has(intended, n) => intended'[n] = intended[n]
      BY <1>8, <3>1
    <3>3. subscriptions' = subscriptions /\ amiss' = amiss
      BY <1>1
    <3>. QED  BY <1>6, <3>1, <3>2, <3>3, OtherAgrees
  <2>. QED  BY <2>1, EditsParts
<1>12. CheckInv'
  BY <1>2, <1>3 DEF CheckInv, CheckedSoFar, Checking
<1>13. GraceInv'
  <2>1. ASSUME NEW n \in Names  PROVE GraceFor(n)'
    <3>1. OpenFor(n)' = {}
      BY <1>2, <1>3 DEF OpenFor, Undelivered
    <3>2. Cardinality(OpenFor(n)') = 0
      BY <3>1, FS_EmptySet
    <3>3. (Recent(n)' <=> Recent(n)) /\ (Visible(n)' <=> Visible(n))
      BY <1>1 DEF Recent, Visible
    <3>4. Unrecorded(n) => n \in names
      BY DEF Unrecorded
    <3>5. grace[n] \in Nat /\ (Recent(n) /\ ~Unrecorded(n) /\ ~Visible(n) => grace[n] >= 1)
      BY InvParts, GraceParts DEF GraceFor
    <3> HIDE DEF names
    <3>6. grace'[n] >= 0 /\ grace'[n] >= 0 - 1 /\ (Recent(n)' /\ ~Visible(n)' => grace'[n] >= 1)
      BY <1>4, <3>3, <3>4, <3>5
    <3>. QED  BY <3>2, <3>6 DEF GraceFor
  <2>. QED  BY <2>1, GraceParts
<1>. QED  BY <1>9, <1>10, <1>11, <1>12, <1>13 DEF SubInv

-------------------------------------------------------------------------------
(* The theorems                                                             *)

\* The invariant holds when the server starts.
LEMMA InitStep == SubInit => SubInv
<1> SUFFICES ASSUME SubInit  PROVE SubInv
  OBVIOUS
<1>1. \A p \in SubProcs : worker[p] = Idle /\ worker[p].pc = "idle"
  BY DEF SubInit, Idle
<1>2. SubTypeOK
  <2>1. /\ now \in Nat /\ subFaults \in Nat /\ reminders = {} /\ DOMAIN worker = SubProcs
        /\ delivered \in [Names -> Nat \cup {NoMark}] /\ \A n \in Names : delivered[n] <= now
        /\ grace \in [Names -> Nat]
    BY DEF SubInit, NoMark
  <2>2. Whole(subscriptions) /\ Whole(intended)
    BY SubscriptionAssumption DEF SubInit, Whole
  <2>3. \A p \in SubProcs : WorkerShape(worker[p])
    BY <1>1 DEF WorkerShape
  <2>4. IsFiniteSet(reminders)
    BY <2>1, FS_EmptySet
  <2>. QED  BY <2>1, <2>2, <2>3, <2>4 DEF SubTypeOK
<1>3. GraceInv
  <2>1. ASSUME NEW n \in Names  PROVE ~Recent(n) /\ grace[n] = 0 /\ Cardinality(OpenFor(n)) = 0
    <3>1. OpenFor(n) = {}
      BY <1>1 DEF OpenFor, Undelivered
    <3>2. ~Recent(n) /\ grace[n] = 0
      BY DEF SubInit, Recent
    <3>. QED  BY <3>1, <3>2, FS_EmptySet
  <2>. QED  BY <2>1 DEF GraceInv
<1>4. RenamesCompose /\ CheckInv
  BY <1>1 DEF RenamesCompose, CheckInv, CheckedSoFar, Checking
<1>5. EditsCompose
  BY DEF SubInit, EditsCompose
<1>. QED  BY <1>2, <1>3, <1>4, <1>5 DEF SubInv

\* The settings columns are the ones the settings handlers write.
LEMMA SettingStep ==
  ASSUME SubInv, NEW p \in SubPages, NEW n \in EditNames,
         handleSubscriptionSnooze(p, n) \/ handleSubscriptionTimezone(p, n) \/ handleSubscriptionWebhook(p, n)
  PROVE  SubInv'
<1>1. \E column \in Settings : \E value : SetSetting(p, n, column, value)
  <2>1. "snoozed" \in Settings /\ "zone" \in Settings /\ "hook" \in Settings
    BY DEF Settings
  <2>. QED  BY <2>1 DEF handleSubscriptionSnooze, handleSubscriptionTimezone, handleSubscriptionWebhook
<1>. QED  BY <1>1, EditStep

\* A step that changes nothing keeps the invariant.
LEMMA StutterStep ==
  ASSUME SubInv, UNCHANGED SubVars
  PROVE  SubInv'
<1>1. UNCHANGED <<now, subscriptions, reminders, subState, worker, subEdits, subFaults,
                  delivered, grace, intended, spoilt, amiss>>
  BY DEF SubVars
<1>2. SubTypeOK'
  BY <1>1 DEF SubInv, SubTypeOK, Whole
<1>3. GraceInv'
  BY <1>1, QuietMove DEF SubInv
<1>4. RenamesCompose' /\ EditsCompose'
  BY <1>1, EditFrame DEF SubInv
<1>5. CheckInv'
  BY <1>1, CheckFrame DEF SubInv
<1>. QED  BY <1>2, <1>3, <1>4, <1>5 DEF SubInv

\* What the properties rest on: the shape of the jobs and of the rows, what every
\* open check and every delivery the store does not show has been excused for,
\* what a rename under way will write, and what a check under way has seen done.
THEOREM SubInvariance == SubSpec => []SubInv
<1>1. SubInit => SubInv
  BY InitStep
<1>2. SubInv /\ [SubNext]_SubVars => SubInv'
  <2> SUFFICES ASSUME SubInv, [SubNext]_SubVars  PROVE SubInv'
    OBVIOUS
  <2>1. CASE UNCHANGED SubVars
    BY <2>1, StutterStep
  <2>2. ASSUME NEW p \in SubPages, NEW n \in EditNames,
               \/ \E patch \in Patches : handleAddSubscription(p, n, patch)
               \/ \E patch \in Patches, newName \in {{}} \cup {{m} : m \in Names} :
                    handleUpdateSubscription(p, n, newName, patch)
               \/ handleMarkRenewed(p, n) \/ handleClearRenewed(p, n) \/ handleDeleteSubscription(p, n)
        PROVE  SubInv'
    BY <2>2, HandlerStep
  <2>3. ASSUME NEW p \in SubPages, NEW n \in EditNames,
               handleSubscriptionSnooze(p, n) \/ handleSubscriptionTimezone(p, n) \/ handleSubscriptionWebhook(p, n)
        PROVE  SubInv'
    BY <2>3, SettingStep
  <2>4. ASSUME NEW p \in SubPages, RemoveRenamed(p) \/ Save(p) \/ SaveFails(p) \/ Drop(p)  PROVE SubInv'
    BY <2>4, EditStep
  <2>5. ASSUME NEW p \in SubProcs,
               \/ LoadSubscriptions(p) \/ \E n \in Names : checkOne(p, n)
               \/ Deliver(p) \/ AnswerLost(p) \/ DeliverFails(p) \/ record(p) \/ FinishCheck(p)
        PROVE  SubInv'
    BY <2>5, LoadStep, CheckOneStep, DeliverStep, AnswerLostStep, DeliverFailsStep, RecordStep, FinishStep
  <2>6. CASE CrashChecks
    BY <2>6, CrashStep
  <2>7. CASE TickDay
    BY <2>7, TickStep
  <2>. QED  BY <2>1, <2>2, <2>3, <2>4, <2>5, <2>6, <2>7 DEF SubNext
<1>. QED  BY <1>1, <1>2, PTL DEF SubSpec

\* Every process is idle or at a step of an edit or a check, with the data of that
\* step; rows have all their columns; no reminder is from the future.
THEOREM SubTypeCorrect == SubSpec => []SubTypeOK
<1>1. SubInv => SubTypeOK
  BY DEF SubInv
<1>. QED  BY <1>1, SubInvariance, PTL

\* However requests overlap, fail or are cut off, each row is there and holds what
\* the requests ask for one after the other, in every column that no edit wrote back
\* stale and no rename left behind.
THEOREM RowsCompose == SubSpec => []EditsCompose
<1>1. SubInv => EditsCompose
  BY DEF SubInv
<1>. QED  BY <1>1, SubInvariance, PTL


-------------------------------------------------------------------------------
(* Reminders implement the cooldown of Throttle                             *)

\* The first state of the reminders is one of the abstract cooldown.
LEMMA ThrottleInit == SubInit => Reminders!Init
BY DEF SubInit, Reminders!Init

\* Every step delivers one name, known or not to its sender, excuses some, moves the clock, or is a stutter.
LEMMA ThrottleStep ==
  ASSUME SubInv, [SubNext]_SubVars
  PROVE  [Reminders!Next]_(Reminders!vars)
<1>1. CASE UNCHANGED <<now, delivered, grace>>
  BY <1>1 DEF Reminders!vars
<1>2. ASSUME NEW names, Excuse(names), UNCHANGED <<now, delivered>>
      PROVE  Reminders!Next
  <2>1. \A n \in Names : grace[n] \in Nat
    BY InvParts
  <2>2. grace' \in [Names -> Nat] /\ \A n \in Names : grace'[n] >= grace[n]
    BY <1>2, <2>1 DEF Excuse
  <2>3. Reminders!Excuse
    BY <1>2, <2>2 DEF Reminders!Excuse
  <2>. QED  BY <2>3 DEF Reminders!Next
<1>3. ASSUME NEW p \in SubProcs, NEW n \in Names, checkOne(p, n)
      PROVE  [Reminders!Next]_(Reminders!vars)
  <2>1. UNCHANGED <<now, delivered>> /\ (UNCHANGED grace \/ \E names : Excuse(names))
    BY <1>3 DEF checkOne
  <2>. QED  BY <1>1, <1>2, <2>1
<1>4. ASSUME NEW p \in SubProcs, record(p)
      PROVE  [Reminders!Next]_(Reminders!vars)
  <2>1. UNCHANGED <<now, delivered>> /\ (UNCHANGED grace \/ \E names : Excuse(names))
    BY <1>4 DEF record
  <2>. QED  BY <1>1, <1>2, <2>1
<1>5. CASE CrashChecks
  <2>1. UNCHANGED <<now, delivered>> /\ \E names : Excuse(names)
    BY <1>5 DEF CrashChecks
  <2>. QED  BY <1>2, <2>1
<1>6. CASE TickDay
  BY <1>6 DEF TickDay, Reminders!Next, Reminders!Tick
<1>7. ASSUME NEW p \in SubProcs, Deliver(p)
      PROVE  [Reminders!Next]_(Reminders!vars)
  <2>1. PICK n \in Names : worker[p].name = n
    BY <1>7, SendingFacts DEF Deliver
  <2>2. /\ worker[p].pc = "send"
        /\ delivered' = [delivered EXCEPT ![n] = now]
        /\ grace' = [grace EXCEPT ![n] = IF delivered[n] # NoMark /\ now - delivered[n] < SubCooldown THEN @ - 1 ELSE @]
        /\ now' = now
    BY <1>7, <2>1 DEF Deliver
  <2>3. Reminders!Early(n) <=> Recent(n)
    BY DEF Reminders!Early, Recent
  <2>4. Recent(n) => grace[n] > 0
    <3>1. Undelivered(worker[p], n)
      BY <2>1, <2>2 DEF Undelivered
    <3>2. p \in OpenFor(n)
      BY <3>1 DEF OpenFor
    <3>3. Cardinality(OpenFor(n)) \in Nat /\ Cardinality(OpenFor(n)) # 0
      BY <3>2, OpenFinite, FS_EmptySet
    <3>4. (Recent(n) => grace[n] >= Cardinality(OpenFor(n))) /\ grace[n] \in Nat
      BY InvParts, GraceParts DEF GraceFor
    <3>. QED  BY <3>3, <3>4
  <2>5. Reminders!Deliver(n)
    <3>1. grace' = [grace EXCEPT ![n] = IF Reminders!Early(n) THEN @ - 1 ELSE @]
      BY <2>2 DEF Reminders!Early
    <3>. QED  BY <2>2, <2>3, <2>4, <3>1 DEF Reminders!Deliver
  <2>. QED  BY <2>5 DEF Reminders!Next
<1>8. ASSUME NEW p \in SubPages, NEW n \in EditNames,
             \/ \E patch \in Patches : handleAddSubscription(p, n, patch)
             \/ \E patch \in Patches, newName \in {{}} \cup {{m} : m \in Names} :
                  handleUpdateSubscription(p, n, newName, patch)
             \/ handleMarkRenewed(p, n) \/ handleClearRenewed(p, n) \/ handleDeleteSubscription(p, n)
      PROVE  UNCHANGED <<now, delivered, grace>>
  BY <1>8, InvParts, HandlerFacts
<1>9. ASSUME NEW p \in SubPages, NEW n \in EditNames,
             handleSubscriptionSnooze(p, n) \/ handleSubscriptionTimezone(p, n) \/ handleSubscriptionWebhook(p, n)
      PROVE  UNCHANGED <<now, delivered, grace>>
  BY <1>9 DEF handleSubscriptionSnooze, handleSubscriptionTimezone, handleSubscriptionWebhook, SetSetting
<1>10. ASSUME NEW p \in SubPages, RemoveRenamed(p) \/ Save(p) \/ SaveFails(p) \/ Drop(p)
       PROVE  UNCHANGED <<now, delivered, grace>>
  BY <1>10 DEF RemoveRenamed, Save, SaveFails, Drop
<1>11. ASSUME NEW p \in SubProcs, LoadSubscriptions(p) \/ DeliverFails(p) \/ FinishCheck(p)
       PROVE  UNCHANGED <<now, delivered, grace>>
  BY <1>11 DEF LoadSubscriptions, DeliverFails, FinishCheck
<1>12. CASE UNCHANGED SubVars
  BY <1>1, <1>12 DEF SubVars
<1>13. ASSUME NEW p \in SubProcs, AnswerLost(p)
       PROVE  [Reminders!Next]_(Reminders!vars)
  <2>1. PICK n \in Names :
          /\ now' = now /\ delivered' = [delivered EXCEPT ![n] = now]
          /\ grace' = [grace EXCEPT ![n] = IF Recent(n) THEN @ ELSE @ + 1]
          /\ Recent(n) => grace[n] > 0
    BY <1>13, AnswerLostFacts
  <2>2. Reminders!Early(n) <=> Recent(n)
    BY DEF Reminders!Early, Recent
  <2>3. Reminders!Unknown(n)
    <3>1. grace' = [grace EXCEPT ![n] = IF Reminders!Early(n) THEN @ ELSE @ + 1]
      BY <2>1, <2>2
    <3>. QED  BY <2>1, <2>2, <3>1 DEF Reminders!Unknown
  <2>. QED  BY <2>3 DEF Reminders!Next
<1>. QED  BY <1>1, <1>3, <1>4, <1>5, <1>6, <1>7, <1>8, <1>9, <1>10, <1>11, <1>12, <1>13 DEF SubNext

\* The checks of checker.go implement the abstract cooldown: two reminders of one
\* name are a cooldown apart but for the failures, crashes, lost answers and overlaps
\* that pay for each early one.
THEOREM RemindersImplementCooldown == SubSpec => RemindersThrottled
<1>1. SubInit => Reminders!Init
  BY ThrottleInit
<1>2. SubInv /\ [SubNext]_SubVars => [Reminders!Next]_(Reminders!vars)
  BY ThrottleStep
<1>. QED  BY <1>1, <1>2, SubInvariance, PTL DEF SubSpec, RemindersThrottled, Reminders!Spec


-------------------------------------------------------------------------------
(* A clean check reminds                                                    *)

\* Only the step of a process itself makes it idle.
LEMMA OwnStep ==
  ASSUME SubInv, NEW p \in SubProcs, worker[p].pc = "check", worker'[p] = Idle,
         NEW q \in SubProcs, NEW state, Go(q, state)
  PROVE  q = p /\ state.pc = "idle"
<1>1. worker'[q] = state /\ \A r \in SubProcs : r # q => worker'[r] = worker[r]
  BY InvParts, GoFacts
<1>2. Idle.pc = "idle"
  BY DEF Idle
<1>. QED  BY <1>1, <1>2

\* A check ends by FinishCheck, or with the process.
LEMMA OnlyFinish ==
  ASSUME SubInv, SubNext, NEW p \in SubProcs, worker[p].pc = "check", worker'[p] = Idle, subFaults' = subFaults
  PROVE  FinishCheck(p)
<1>1. Idle.pc = "idle" /\ p \in DOMAIN worker /\ subFaults \in Nat
  BY InvParts DEF Idle
<1>2. \A q \in SubProcs : \A state : Go(q, state) => q = p /\ state.pc = "idle"
  BY OwnStep
<1>3. ASSUME NEW q \in SubPages, NEW n \in EditNames,
             \/ \E patch \in Patches : handleAddSubscription(q, n, patch)
             \/ \E patch \in Patches, newName \in {{}} \cup {{m} : m \in Names} :
                  handleUpdateSubscription(q, n, newName, patch)
             \/ handleMarkRenewed(q, n) \/ handleClearRenewed(q, n) \/ handleDeleteSubscription(q, n)
      PROVE  FALSE
  <2>1. worker[q].pc = "idle" /\ \E job : Go(q, job)
    BY <1>3, InvParts, HandlerFacts
  <2>. QED  BY <1>2, <2>1 DEF SubProcs
<1>4. ASSUME NEW q \in SubPages, NEW n \in EditNames,
             handleSubscriptionSnooze(q, n) \/ handleSubscriptionTimezone(q, n) \/ handleSubscriptionWebhook(q, n)
      PROVE  FALSE
  <2>1. Go(q, [pc |-> "load"])
    BY <1>4 DEF handleSubscriptionSnooze, handleSubscriptionTimezone, handleSubscriptionWebhook, SetSetting
  <2>. QED  BY <1>2, <2>1 DEF SubProcs
<1>5. ASSUME NEW q \in SubPages, RemoveRenamed(q) \/ Save(q) \/ SaveFails(q) \/ Drop(q)
      PROVE  FALSE
  <2>1. worker[q].pc # "check" /\ \E state : Go(q, state)
    BY <1>5 DEF RemoveRenamed, Save, SaveFails, Drop
  <2>. QED  BY <1>2, <2>1 DEF SubProcs
<1>6. ASSUME NEW q \in SubProcs, LoadSubscriptions(q)  PROVE FALSE
  <2>1. worker[q].pc # "check" /\ \E state : Go(q, state)
    BY <1>1, <1>6 DEF LoadSubscriptions, Free
  <2>. QED  BY <1>2, <2>1
<1>7. ASSUME NEW q \in SubProcs, NEW n \in Names, checkOne(q, n)  PROVE FALSE
  <2>1. \E state : Go(q, state) /\ state.pc # "idle"
    BY <1>7 DEF checkOne, Result
  <2>. QED  BY <1>2, <2>1
<1>8. ASSUME NEW q \in SubProcs, Deliver(q) \/ DeliverFails(q) \/ record(q)  PROVE FALSE
  <2>1. worker[q].pc # "check" /\ \E state : Go(q, state)
    BY <1>8 DEF Deliver, DeliverFails, record, Result
  <2>. QED  BY <1>2, <2>1
<1>9. ASSUME NEW q \in SubProcs, FinishCheck(q)  PROVE q = p
  BY <1>2, <1>9 DEF FinishCheck
<1>10. CASE CrashChecks
  BY <1>1, <1>10 DEF CrashChecks, Fault
<1>11. CASE TickDay
  <2>1. worker'[p] = [worker[p] EXCEPT !.clean = FALSE]
    BY <1>11 DEF TickDay, Checking
  <2>2. CheckShape(worker[p])
    BY CheckingShape DEF Checking
  <2>3. worker'[p].pc = "check"
    BY <2>1, <2>2 DEF CheckShape, CheckFields
  <2>. QED  BY <1>1, <2>3
<1>12. ASSUME NEW q \in SubProcs, AnswerLost(q)  PROVE FALSE
  <2>1. worker' = worker
    BY <1>12 DEF AnswerLost
  <2>. QED  BY <1>1, <2>1
<1>. QED  BY <1>3, <1>4, <1>5, <1>6, <1>7, <1>8, <1>9, <1>10, <1>11, <1>12 DEF SubNext

\* A check that nothing disturbed leaves no due subscription of the table without
\* a reminder on record, sent now or within the cooldown, and shows on the page
\* what is enabled: SetSubscriptions at the end of refreshSubscriptions.
THEOREM CleanChecksRemind == SubSpec => CleanCheckReminds
<1>1. ASSUME SubInv, [SubNext]_SubVars
      PROVE  [\A p \in SubProcs :
                LET w == worker[p]
                IN  (/\ w.pc = "check" /\ worker'[p] = Idle /\ subFaults' = subFaults
                     /\ w.clean /\ w.rows = subscriptions)
                    => /\ subState' = {n \in DOMAIN subscriptions : subscriptions[n].enabled}
                       /\ \A n \in subState' :
                            (Verdict(subscriptions[n], w.dry) = "due" /\ HasNotifier)
                            => \E r \in reminders :
                                 r.key = n /\ r.status = "sent" /\ (r.at = now \/ now < r.at + SubCooldown)]_SubVars
  <2>1. CASE UNCHANGED SubVars
    BY <2>1
  <2>2. ASSUME SubNext, NEW p \in SubProcs, worker[p].pc = "check", worker'[p] = Idle, subFaults' = subFaults,
               worker[p].clean, worker[p].rows = subscriptions
        PROVE  /\ subState' = {n \in DOMAIN subscriptions : subscriptions[n].enabled}
               /\ \A n \in subState' :
                    (Verdict(subscriptions[n], worker[p].dry) = "due" /\ HasNotifier)
                    => \E r \in reminders :
                         r.key = n /\ r.status = "sent" /\ (r.at = now \/ now < r.at + SubCooldown)
    <3>1. worker[p].todo = {} /\ subState' = worker[p].results
      BY <1>1, <2>2, OnlyFinish DEF FinishCheck, SetSubscriptions
    <3>2. CheckedSoFar(worker[p], reminders, now)
      BY <1>1, <2>2, CheckingShape DEF Checking
    <3>3. worker[p].results = {n \in DOMAIN subscriptions : subscriptions[n].enabled}
      BY <2>2, <3>1, <3>2 DEF CheckedSoFar, Checking
    <3>4. ASSUME NEW n \in worker[p].results, Verdict(subscriptions[n], worker[p].dry) = "due", HasNotifier
          PROVE  RemindedIn(reminders, n, now)
      <4> DEFINE row == subscriptions[n]
                 dry == worker[p].dry
      <4>1. Verdict(row, dry) = "due"
        BY <3>4
      <4> HIDE DEF row, dry
      <4>2. VerdictAt(row, dry, now) = "due"
        BY <4>1, VerdictNow
      <4>3. VerdictAt(worker[p].rows[n], worker[p].dry, now) = "due"
        BY <2>2, <4>2 DEF row, dry
      <4>. QED  BY <2>2, <3>2, <3>4, <4>3 DEF CheckedSoFar, Checking
    <3>. QED  BY <3>1, <3>3, <3>4 DEF RemindedIn
  <2>3. CASE SubNext
    BY <2>2, <2>3
  <2>. QED  BY <1>1, <2>1, <2>3
<1>. QED  BY <1>1, SubInvariance, PTL DEF SubSpec, CleanCheckReminds

================================================================================

---------------------------- MODULE MailScanProofs ----------------------------
(***************************************************************************)
(* Proofs about MailScan, for every set of mails and mailboxes, every      *)
(* window and retention and every number of workers and faults.            *)
(***************************************************************************)
EXTENDS MailScan, TLAPS

-------------------------------------------------------------------------------
(* The invariant                                                            *)

\* Actor a is reporting mail e, met in mailbox m.
Reporting(a, m, e) == pc[a][m] \in InFlight /\ cur[a][m] = e

\* A mail on the page has been marked, and a marked billing mail is on the page.
SeenInv ==
  \A a \in Actors :
    /\ \A k \in alerts[a] : k[2] \in seen[a]
    /\ \A e \in seen[a] \cap Matching : \E m \in Mailboxes : <<m, e>> \in alerts[a]

\* What is being reported is a mail, only an open mailbox has mails left, and only
\* accepted mails are recorded as sent.
StageInv ==
  /\ \A a \in Actors, m \in Mailboxes :
       /\ pc[a][m] \in InFlight => cur[a][m] \in Mails
       /\ pc[a][m] \in {"idle", "queued", "done"} => todo[a][m] = {}
       /\ pc[a][m] = "sent" => delivered[<<m, cur[a][m]>>] # Never
  /\ \A k \in Pairs : rows[k] # Never => delivered[k] # Never
  /\ \A k \in Pairs : delivered[k] <= now
  /\ muted \subseteq everMuted

\* Unless something has defeated the de-duplication, one actor at a time reports a
\* mail of a mailbox, and what was accepted is recorded, being recorded or too old
\* for any scan to ask for.
RepeatInv ==
  \A k \in Pairs \ tainted :
    /\ \A a, b \in Actors : Reporting(a, k[1], k[2]) /\ Reporting(b, k[1], k[2]) => a = b
    /\ delivered[k] # Never =>
         \/ rows[k] >= delivered[k]
         \/ delivered[k] + Retention < now
         \/ \E a \in Actors : pc[a][k[1]] = "sent" /\ cur[a][k[1]] = k[2]

\* A scan without a failure has not lost track of a mail it found, and what it has
\* met is accepted, muted or being reported.
CleanFor(a) ==
  clean[a] =>
    /\ \A e \in found[a] : e \in seen[a] \/ \E m \in Mailboxes : e \in todo[a][m]
    /\ \A m \in Mailboxes : pc[a][m] = "unsent" => <<m, cur[a][m]>> \in everMuted
    /\ \A m \in Mailboxes, e \in Mails : <<m, e>> \in alerts[a] =>
         \/ DryRun(a) \/ ~webhook
         \/ Reporting(a, m, e)
         \/ delivered[<<m, e>>] # Never
         \/ <<m, e>> \in everMuted

CleanInv == \A a \in Actors : CleanFor(a)

Inv == TypeOK /\ SeenInv /\ StageInv /\ RepeatInv /\ CleanInv
       /\ OneEntryPerMail /\ NoRepeatWithinWindow

-------------------------------------------------------------------------------
(* Facts about the operators                                                *)

\* What the assumptions on the constants give.
LEMMA Basics ==
  /\ Scheduler \in Actors /\ Page \in Actors
  /\ Mutable \subseteq Pairs /\ Matching \subseteq Mails
  /\ Retention \in Nat /\ MaxFaults \in Nat /\ MaxTime \in Nat /\ Persistent \in BOOLEAN
  /\ \A a \in Actors : Window(a) \in Nat /\ Window(a) <= Retention
BY MailAssumption, MailRetention DEF Actors, Pairs, Window

\* A pair is made of a mailbox and a mail.
LEMMA PairFacts ==
  /\ \A m \in Mailboxes, e \in Mails :
       <<m, e>> \in Pairs /\ <<m, e>>[1] = m /\ <<m, e>>[2] = e
  /\ \A k \in Pairs : k[1] \in Mailboxes /\ k[2] \in Mails /\ k = <<k[1], k[2]>>
BY DEF Pairs

\* Setting one cell of an actor's table leaves the others.
LEMMA Cell ==
  ASSUME NEW V, NEW f \in [Actors -> [Mailboxes -> V]],
         NEW a \in Actors, NEW m \in Mailboxes, NEW v \in V
  PROVE  /\ [f EXCEPT ![a][m] = v] \in [Actors -> [Mailboxes -> V]]
         /\ \A b \in Actors, n \in Mailboxes :
              [f EXCEPT ![a][m] = v][b][n] = IF b = a /\ n = m THEN v ELSE f[b][n]
OBVIOUS

\* A scan that begins or ends moves all its mailboxes together.
LEMMA RowFacts ==
  ASSUME TypeOK, NEW a \in Actors, NEW st,
         pc' = [pc EXCEPT ![a] = [m \in Mailboxes |-> st]]
  PROVE  \A b \in Actors, n \in Mailboxes : pc'[b][n] = IF b = a THEN st ELSE pc[b][n]
<1>1. pc \in [Actors -> [Mailboxes -> Stages]]
  BY DEF TypeOK
<1>2. \A b \in Actors : pc'[b] = IF b = a THEN [m \in Mailboxes |-> st] ELSE pc[b]
  BY <1>1
<1>. QED  BY <1>2

\* A mailbox is done only when no mail is left.
LEMMA BackToFacts ==
  \A rest : BackTo(rest) \in {"open", "done"} /\ (BackTo(rest) = "done" => rest = {})
BY DEF BackTo

\* A search finds mails.
LEMMA SearchFacts ==
  ASSUME NEW a, NEW m
  PROVE  Search(a, m) \subseteq Mails
BY DEF Search

\* A report in flight is being sent, was sent or failed to be.
LEMMA StageNames ==
  /\ InFlight \subseteq Stages
  /\ {"idle", "queued", "open", "done"} \subseteq Stages \ InFlight
  /\ {"send", "sent", "unsent"} = InFlight
BY DEF Stages, InFlight

\* A row the Volatile store drops is older than the retention; the others stay.
LEMMA SaveFacts ==
  ASSUME TypeOK, NEW m \in Mailboxes, NEW e \in Mails, NEW sent \in BOOLEAN
  PROVE  /\ SaveEmailAlert(m, e, sent) \in [Pairs -> Nat \cup {Never}]
         /\ sent => SaveEmailAlert(m, e, sent)[<<m, e>>] = now
         /\ \A k \in Pairs :
              \/ SaveEmailAlert(m, e, sent)[k] = rows[k]
              \/ SaveEmailAlert(m, e, sent)[k] = Never /\ now - rows[k] > Retention
              \/ sent /\ k = <<m, e>>
<1> DEFINE kept == [k \in Pairs |-> IF Persistent \/ now - rows[k] <= Retention THEN rows[k] ELSE Never]
<1>1. now \in Nat /\ rows \in [Pairs -> Nat \cup {Never}] /\ <<m, e>> \in Pairs
  BY PairFacts, Basics DEF TypeOK
<1>2. \A k \in Pairs : now - rows[k] \in Int
  BY <1>1 DEF Never
<1>3. kept \in [Pairs -> Nat \cup {Never}]
      /\ \A k \in Pairs : kept[k] = rows[k] \/ (kept[k] = Never /\ now - rows[k] > Retention)
  BY <1>1, <1>2, Basics
<1>4. SaveEmailAlert(m, e, sent) = IF sent THEN [kept EXCEPT ![<<m, e>>] = now] ELSE rows
  BY DEF SaveEmailAlert
<1> HIDE DEF kept
<1>5. CASE sent
  <2>1. SaveEmailAlert(m, e, sent) = [kept EXCEPT ![<<m, e>>] = now]
    BY <1>4, <1>5
  <2>. QED  BY <1>1, <1>3, <1>5, <2>1
<1>6. CASE ~sent
  BY <1>1, <1>4, <1>6
<1>. QED  BY <1>5, <1>6

-------------------------------------------------------------------------------
(* What a worker's step does to its own mailbox, and to no other            *)

\* Only the worker of actor a in mailbox m moves.
Moved(a, m) ==
  /\ pc' \in [Actors -> [Mailboxes -> Stages]]
  /\ todo' \in [Actors -> [Mailboxes -> SUBSET Mails]]
  /\ cur' \in [Actors -> [Mailboxes -> Mails \cup {None}]]
  /\ \A b \in Actors, n \in Mailboxes :
       (b # a \/ n # m) => /\ pc'[b][n] = pc[b][n]
                           /\ todo'[b][n] = todo[b][n]
                           /\ cur'[b][n] = cur[b][n]

\* What a mailbox is after its search: its mails claimed for the round's list.
LEMMA ScanInboxFacts ==
  ASSUME TypeOK, NEW a \in Actors, NEW m \in Mailboxes, ScanInbox(a, m)
  PROVE  /\ Moved(a, m) /\ pc[a][m] = "queued"
         /\ pc'[a][m] \in {"open", "done"} /\ (pc'[a][m] = "done" => todo'[a][m] = {})
         /\ found'[a] = found[a] \cup todo'[a][m]
         /\ \A b \in Actors : b # a => found'[b] = found[b]
         /\ found' \in [Actors -> SUBSET Mails]
<1> DEFINE nums == Search(a, m)
           st == IF nums = {} THEN "done" ELSE "open"
<1>1. nums \in SUBSET Mails /\ st \in Stages /\ st \in {"open", "done"} /\ (st = "done" => nums = {})
  BY SearchFacts, StageNames
<1>2. pc' = [pc EXCEPT ![a][m] = st] /\ todo' = [todo EXCEPT ![a][m] = nums] /\ cur' = cur
      /\ found' = [found EXCEPT ![a] = @ \cup nums] /\ pc[a][m] = "queued"
  BY DEF ScanInbox
<1> HIDE DEF nums, st
<1>3. pc \in [Actors -> [Mailboxes -> Stages]] /\ todo \in [Actors -> [Mailboxes -> SUBSET Mails]]
  BY DEF TypeOK
<1>4. /\ pc' \in [Actors -> [Mailboxes -> Stages]]
      /\ \A b \in Actors, n \in Mailboxes : pc'[b][n] = IF b = a /\ n = m THEN st ELSE pc[b][n]
  BY <1>1, <1>2, <1>3, Cell
<1>5. /\ todo' \in [Actors -> [Mailboxes -> SUBSET Mails]]
      /\ \A b \in Actors, n \in Mailboxes : todo'[b][n] = IF b = a /\ n = m THEN nums ELSE todo[b][n]
  BY <1>1, <1>2, <1>3, Cell
<1>6. /\ found' \in [Actors -> SUBSET Mails]
      /\ found'[a] = found[a] \cup nums /\ \A b \in Actors : b # a => found'[b] = found[b]
  BY <1>1, <1>2 DEF TypeOK
<1>. QED  BY <1>1, <1>2, <1>4, <1>5, <1>6 DEF Moved, TypeOK

\* What a mailbox is after it failed: done, with nothing left.
LEMMA MailboxFailsFacts ==
  ASSUME TypeOK, NEW a \in Actors, NEW m \in Mailboxes, MailboxFails(a, m)
  PROVE  /\ Moved(a, m) /\ pc[a][m] \in {"queued", "open"}
         /\ pc'[a][m] = "done" /\ todo'[a][m] = {}
<1>1. pc' = [pc EXCEPT ![a][m] = "done"] /\ todo' = [todo EXCEPT ![a][m] = {}] /\ cur' = cur
      /\ pc[a][m] \in {"queued", "open"}
  BY DEF MailboxFails
<1>2. "done" \in Stages
  BY StageNames
<1>3. /\ pc' \in [Actors -> [Mailboxes -> Stages]]
      /\ \A b \in Actors, n \in Mailboxes : pc'[b][n] = IF b = a /\ n = m THEN "done" ELSE pc[b][n]
  BY <1>1, <1>2, Cell DEF TypeOK
<1>4. /\ todo' \in [Actors -> [Mailboxes -> SUBSET Mails]]
      /\ \A b \in Actors, n \in Mailboxes : todo'[b][n] = IF b = a /\ n = m THEN {} ELSE todo[b][n]
  BY <1>1, Cell DEF TypeOK
<1>. QED  BY <1>1, <1>3, <1>4 DEF Moved, TypeOK

\* What a mailbox is after one mail could not be fetched.
LEMMA FetchFailsFacts ==
  ASSUME TypeOK, NEW a \in Actors, NEW m \in Mailboxes, NEW e \in Mails, FetchFails(a, m, e)
  PROVE  /\ Moved(a, m) /\ pc[a][m] = "open"
         /\ pc'[a][m] \in {"open", "done"} /\ (pc'[a][m] = "done" => todo'[a][m] = {})
<1> DEFINE rest == Rest(a, m, e)
<1>1. pc' = [pc EXCEPT ![a][m] = BackTo(rest)] /\ todo' = [todo EXCEPT ![a][m] = rest] /\ cur' = cur
      /\ pc[a][m] = "open"
  BY DEF FetchFails
<1>2. rest \in SUBSET Mails /\ BackTo(rest) \in Stages
  <2>1. rest \subseteq Mails
    BY DEF Rest, TypeOK
  <2>. QED  BY <2>1, BackToFacts, StageNames
<1> HIDE DEF rest
<1>3. /\ pc' \in [Actors -> [Mailboxes -> Stages]]
      /\ \A b \in Actors, n \in Mailboxes : pc'[b][n] = IF b = a /\ n = m THEN BackTo(rest) ELSE pc[b][n]
  BY <1>1, <1>2, Cell DEF TypeOK
<1>4. /\ todo' \in [Actors -> [Mailboxes -> SUBSET Mails]]
      /\ \A b \in Actors, n \in Mailboxes : todo'[b][n] = IF b = a /\ n = m THEN rest ELSE todo[b][n]
  BY <1>1, <1>2, Cell DEF TypeOK
<1>. QED  BY <1>1, <1>3, <1>4, BackToFacts DEF Moved, TypeOK

\* A mail taken is marked; a billing mail the scan had not met goes on the page,
\* and is reported if the store does not know it.
LEMMA TakeFacts ==
  ASSUME TypeOK, NEW a \in Actors, NEW m \in Mailboxes, NEW e \in Mails, NEW recent \in BOOLEAN,
         Take(a, m, e, recent)
  PROVE  /\ Moved(a, m) /\ pc[a][m] = "open"
         /\ todo'[a][m] = todo[a][m] \ {e}
         /\ \/ /\ pc'[a][m] = "send" /\ cur'[a][m] = e
               /\ e \notin seen[a] /\ e \in Matching /\ ~recent /\ ~DryRun(a)
            \/ /\ pc'[a][m] \in {"open", "done"} /\ (pc'[a][m] = "done" => todo'[a][m] = {})
               /\ e \in seen[a] \/ e \notin Matching \/ recent \/ DryRun(a)
         /\ seen' = [seen EXCEPT ![a] = @ \cup {e}]
         /\ alerts' = [alerts EXCEPT ![a] =
              IF e \notin seen[a] /\ e \in Matching THEN @ \cup {<<m, e>>} ELSE @]
         /\ seen' \in [Actors -> SUBSET Mails] /\ alerts' \in [Actors -> SUBSET Pairs]
<1> DEFINE hit == mark(a, m, e) /\ e \in Matching
           report == hit /\ ~DryRun(a) /\ ~recent
           rest == Rest(a, m, e)
           st == IF report THEN "send" ELSE BackTo(rest)
           c == IF report THEN e ELSE None
<1>1. /\ pc[a][m] = "open"
      /\ seen' = [seen EXCEPT ![a] = @ \cup {e}]
      /\ alerts' = [alerts EXCEPT ![a] = IF hit THEN @ \cup {<<m, e>>} ELSE @]
      /\ todo' = [todo EXCEPT ![a][m] = rest]
      /\ cur' = [cur EXCEPT ![a][m] = c]
      /\ pc' = [pc EXCEPT ![a][m] = st]
  BY DEF Take
<1>2. rest \in SUBSET Mails /\ st \in Stages /\ c \in Mails \cup {None} /\ rest = todo[a][m] \ {e}
  BY BackToFacts, StageNames DEF Rest, TypeOK
<1>3. \/ st = "send" /\ c = e /\ report
      \/ st \in {"open", "done"} /\ (st = "done" => rest = {}) /\ ~report
  BY BackToFacts
<1>4. report <=> e \notin seen[a] /\ e \in Matching /\ ~DryRun(a) /\ ~recent
  BY DEF mark
<1>5. hit <=> e \notin seen[a] /\ e \in Matching
  BY DEF mark
<1> HIDE DEF hit, report, rest, st, c
<1>6. /\ pc' \in [Actors -> [Mailboxes -> Stages]]
      /\ \A b \in Actors, n \in Mailboxes : pc'[b][n] = IF b = a /\ n = m THEN st ELSE pc[b][n]
  BY <1>1, <1>2, Cell DEF TypeOK
<1>7. /\ todo' \in [Actors -> [Mailboxes -> SUBSET Mails]]
      /\ \A b \in Actors, n \in Mailboxes : todo'[b][n] = IF b = a /\ n = m THEN rest ELSE todo[b][n]
  BY <1>1, <1>2, Cell DEF TypeOK
<1>8. /\ cur' \in [Actors -> [Mailboxes -> Mails \cup {None}]]
      /\ \A b \in Actors, n \in Mailboxes : cur'[b][n] = IF b = a /\ n = m THEN c ELSE cur[b][n]
  BY <1>1, <1>2, Cell DEF TypeOK
<1>9. seen' \in [Actors -> SUBSET Mails] /\ alerts' \in [Actors -> SUBSET Pairs]
  BY <1>1, PairFacts DEF TypeOK
<1>10. Moved(a, m)
  BY <1>6, <1>7, <1>8 DEF Moved
<1>11. pc'[a][m] = st /\ todo'[a][m] = rest /\ cur'[a][m] = c
  BY <1>6, <1>7, <1>8
<1>12. alerts' = [alerts EXCEPT ![a] =
              IF e \notin seen[a] /\ e \in Matching THEN @ \cup {<<m, e>>} ELSE @]
  BY <1>1, <1>5
<1>. QED  BY <1>1, <1>2, <1>3, <1>4, <1>9, <1>10, <1>11, <1>12

\* What a mailbox is when it goes on to its next mail.
LEMMA NextMailFacts ==
  ASSUME TypeOK, NEW a \in Actors, NEW m \in Mailboxes, NextMail(a, m), todo' = todo
  PROVE  /\ Moved(a, m)
         /\ pc'[a][m] \in {"open", "done"} /\ (pc'[a][m] = "done" => todo'[a][m] = {})
<1>1. BackTo(todo[a][m]) \in Stages /\ None \in Mails \cup {None}
  BY BackToFacts, StageNames
<1>2. /\ pc' \in [Actors -> [Mailboxes -> Stages]]
      /\ \A b \in Actors, n \in Mailboxes : pc'[b][n] = IF b = a /\ n = m THEN BackTo(todo[a][m]) ELSE pc[b][n]
  BY <1>1, Cell DEF NextMail, TypeOK
<1>3. /\ cur' \in [Actors -> [Mailboxes -> Mails \cup {None}]]
      /\ \A b \in Actors, n \in Mailboxes : cur'[b][n] = IF b = a /\ n = m THEN None ELSE cur[b][n]
  BY <1>1, Cell DEF NextMail, TypeOK
<1>. QED  BY <1>2, <1>3, BackToFacts DEF Moved, TypeOK

\* The outcome of a delivery.
LEMMA OutcomeFacts ==
  ASSUME TypeOK, NEW a \in Actors, NEW m \in Mailboxes, NEW st \in {"sent", "unsent"},
         pc' = [pc EXCEPT ![a][m] = st], UNCHANGED <<todo, cur>>
  PROVE  Moved(a, m) /\ pc'[a][m] = st
<1>1. st \in Stages
  BY StageNames
<1>2. /\ pc' \in [Actors -> [Mailboxes -> Stages]]
      /\ \A b \in Actors, n \in Mailboxes : pc'[b][n] = IF b = a /\ n = m THEN st ELSE pc[b][n]
  BY <1>1, Cell DEF TypeOK
<1>. QED  BY <1>2 DEF Moved, TypeOK

-------------------------------------------------------------------------------
(* Types                                                                    *)

\* The invariant holds when the scanner starts.
LEMMA InvInit == Init => Inv
<1> SUFFICES ASSUME Init  PROVE Inv
  OBVIOUS
<1> USE Basics
<1>1. TypeOK
  <2>1. pc \in [Actors -> [Mailboxes -> Stages]]
    BY StageNames DEF Init
  <2>2. 0 \in 0 .. MaxTime /\ 0 \in 0 .. MaxFaults
    OBVIOUS
  <2>. QED  BY <2>1, <2>2 DEF Init, TypeOK
<1>2. SeenInv /\ OneEntryPerMail
  BY DEF Init, SeenInv, OneEntryPerMail
<1>3. RepeatInv
  BY StageNames, PairFacts DEF Init, RepeatInv, Reporting
<1>4. CleanInv
  BY StageNames DEF Init, CleanInv, CleanFor
<1>5. StageInv /\ NoRepeatWithinWindow
  BY StageNames DEF Init, StageInv, NoRepeatWithinWindow, Never
<1>. QED  BY <1>1, <1>2, <1>3, <1>4, <1>5 DEF Inv

\* A fault leaves the types of the counter and of the marks of clean scans.
LEMMA FaultType ==
  ASSUME TypeOK, NEW a \in Actors, Fault(a)
  PROVE  faults' \in 0 .. MaxFaults /\ clean' \in [Actors -> BOOLEAN]
BY Basics DEF Fault, TypeOK

\* The pair a worker is reporting.
LEMMA CurPair ==
  ASSUME StageInv, NEW a \in Actors, NEW m \in Mailboxes, pc[a][m] \in InFlight
  PROVE  <<m, cur[a][m]>> \in Pairs /\ cur[a][m] \in Mails
BY PairFacts DEF StageInv

\* A delivered mail leaves the type of the delivery times and the other times.
LEMMA DeliveredType ==
  ASSUME TypeOK, NEW k \in Pairs, delivered' = [delivered EXCEPT ![k] = now]
  PROVE  /\ delivered' \in [Pairs -> Nat \cup {Never}]
         /\ delivered'[k] = now /\ now \in Nat
         /\ \A j \in Pairs : j # k => delivered'[j] = delivered[j]
BY Basics DEF TypeOK

\* An accepted mail stays accepted.
LEMMA DeliveredStays ==
  ASSUME TypeOK, NEW k \in Pairs,
         delivered' = delivered \/ delivered' = [delivered EXCEPT ![k] = now]
  PROVE  \A j \in Pairs : delivered[j] # Never => delivered'[j] # Never
<1>1. CASE delivered' = delivered
  BY <1>1
<1>2. CASE delivered' = [delivered EXCEPT ![k] = now]
  <2>1. now \in Nat /\ delivered'[k] = now /\ \A j \in Pairs : j # k => delivered'[j] = delivered[j]
    BY <1>2, DeliveredType
  <2>2. delivered'[k] # Never
    BY <2>1 DEF Never
  <2>. QED  BY <2>1, <2>2
<1>. QED  BY <1>1, <1>2

\* Every step keeps the types.
LEMMA TypeStep ==
  ASSUME TypeOK, StageInv, [Next]_vars
  PROVE  TypeOK'
<1> USE Basics
<1>1. ASSUME NEW a \in Actors, Scan(a)
      PROVE  TypeOK'
  <2>1. pc' \in [Actors -> [Mailboxes -> Stages]]
    BY <1>1, StageNames DEF Scan, TypeOK
  <2>. QED  BY <1>1, <2>1 DEF Scan, TypeOK
<1>2. ASSUME NEW a \in Actors, SetEmailScan(a)
      PROVE  TypeOK'
  <2>1. pc' \in [Actors -> [Mailboxes -> Stages]]
    BY <1>2, StageNames DEF SetEmailScan, TypeOK
  <2>2. seen' \in [Actors -> SUBSET Mails] /\ found' \in [Actors -> SUBSET Mails]
        /\ alerts' \in [Actors -> SUBSET Pairs] /\ clean' \in [Actors -> BOOLEAN]
    BY <1>2 DEF SetEmailScan, TypeOK
  <2>. QED  BY <1>2, <2>1, <2>2 DEF SetEmailScan, TypeOK
<1>3. ASSUME NEW a \in Actors, NEW m \in Mailboxes, ScanInbox(a, m)
      PROVE  TypeOK'
  BY <1>3, ScanInboxFacts DEF ScanInbox, Moved, TypeOK
<1>4. ASSUME NEW a \in Actors, NEW m \in Mailboxes, MailboxFails(a, m)
      PROVE  TypeOK'
  <2>1. Moved(a, m) /\ faults' \in 0 .. MaxFaults /\ clean' \in [Actors -> BOOLEAN]
    BY <1>4, MailboxFailsFacts, FaultType DEF MailboxFails
  <2>. QED  BY <1>4, <2>1 DEF MailboxFails, Moved, TypeOK
<1>5. ASSUME NEW a \in Actors, NEW m \in Mailboxes, NEW e \in Mails, FetchFails(a, m, e)
      PROVE  TypeOK'
  <2>1. Moved(a, m) /\ faults' \in 0 .. MaxFaults /\ clean' \in [Actors -> BOOLEAN]
    BY <1>5, FetchFailsFacts, FaultType DEF FetchFails
  <2>. QED  BY <1>5, <2>1 DEF FetchFails, Moved, TypeOK
<1>6. ASSUME NEW a \in Actors, NEW m \in Mailboxes, NEW e \in Mails, Inspect(a, m, e)
      PROVE  TypeOK'
  <2>1. Take(a, m, e, HasRecentEmailAlert(m, e, a)) /\ UNCHANGED <<faults, clean>>
        /\ tainted' \subseteq Pairs
    BY <1>6, PairFacts DEF Inspect, TypeOK
  <2>2. HasRecentEmailAlert(m, e, a) \in BOOLEAN
    BY DEF HasRecentEmailAlert
  <2>3. Moved(a, m) /\ seen' \in [Actors -> SUBSET Mails] /\ alerts' \in [Actors -> SUBSET Pairs]
    BY <2>1, <2>2, TakeFacts
  <2>. QED  BY <2>1, <2>3 DEF Take, Moved, TypeOK
<1>7. ASSUME NEW a \in Actors, NEW m \in Mailboxes, NEW e \in Mails, InspectBlind(a, m, e)
      PROVE  TypeOK'
  <2>0. <<m, e>> \in Pairs
    BY PairFacts
  <2>1. Take(a, m, e, FALSE) /\ tainted' \subseteq Pairs
    BY <1>7, <2>0 DEF InspectBlind, TypeOK
  <2>2. Moved(a, m) /\ seen' \in [Actors -> SUBSET Mails] /\ alerts' \in [Actors -> SUBSET Pairs]
    BY <2>1, TakeFacts
  <2>3. faults' \in 0 .. MaxFaults /\ clean' \in [Actors -> BOOLEAN]
    BY <1>7, FaultType DEF InspectBlind
  <2>. QED  BY <2>1, <2>2, <2>3 DEF Take, Moved, TypeOK
<1>8. ASSUME NEW a \in Actors, NEW m \in Mailboxes, Send(a, m)
      PROVE  TypeOK'
  <2>1. <<m, cur[a][m]>> \in Pairs
    BY <1>8, CurPair DEF Send, InFlight
  <2>2. Moved(a, m)
    BY <1>8, NextMailFacts, OutcomeFacts DEF Send
  <2>3. delivered' \in [Pairs -> Nat \cup {Never}]
    BY <1>8, <2>1, DeliveredType DEF Send, TypeOK
  <2>. QED  BY <1>8, <2>2, <2>3 DEF Send, Moved, TypeOK
<1>9. ASSUME NEW a \in Actors, NEW m \in Mailboxes, SendFails(a, m)
      PROVE  TypeOK'
  <2>1. <<m, cur[a][m]>> \in Pairs
    BY <1>9, CurPair DEF SendFails, InFlight
  <2>2. Moved(a, m)
    BY <1>9, OutcomeFacts DEF SendFails
  <2>3. delivered' \in [Pairs -> Nat \cup {Never}] /\ tainted' \subseteq Pairs
    BY <1>9, <2>1, DeliveredType DEF SendFails, TypeOK
  <2>4. faults' \in 0 .. MaxFaults /\ clean' \in [Actors -> BOOLEAN]
    BY <1>9, FaultType DEF SendFails
  <2>. QED  BY <1>9, <2>2, <2>3, <2>4 DEF SendFails, Moved, TypeOK
<1>10. ASSUME NEW a \in Actors, NEW m \in Mailboxes, MuteUnread(a, m)
       PROVE  TypeOK'
  <2>1. <<m, cur[a][m]>> \in Pairs
    BY <1>10, CurPair DEF MuteUnread, InFlight
  <2>2. Moved(a, m)
    BY <1>10, OutcomeFacts DEF MuteUnread
  <2>3. delivered' \in [Pairs -> Nat \cup {Never}]
    BY <1>10, <2>1, DeliveredType DEF MuteUnread
  <2>4. faults' \in 0 .. MaxFaults /\ clean' \in [Actors -> BOOLEAN]
    BY <1>10, FaultType DEF MuteUnread
  <2>. QED  BY <1>10, <2>2, <2>3, <2>4 DEF MuteUnread, Moved, TypeOK
<1>11. ASSUME NEW a \in Actors, NEW m \in Mailboxes, Record(a, m)
       PROVE  TypeOK'
  <2>1. cur[a][m] \in Mails
    BY <1>11, CurPair DEF Record, InFlight
  <2>2. Moved(a, m)
    BY <1>11, NextMailFacts DEF Record
  <2>3. rows' \in [Pairs -> Nat \cup {Never}]
    BY <1>11, <2>1, SaveFacts DEF Record
  <2>. QED  BY <1>11, <2>2, <2>3 DEF Record, Moved, TypeOK
<1>12. ASSUME NEW a \in Actors, NEW m \in Mailboxes, RecordFails(a, m)
       PROVE  TypeOK'
  <2>1. <<m, cur[a][m]>> \in Pairs
    BY <1>12, CurPair DEF RecordFails, InFlight
  <2>2. Moved(a, m)
    BY <1>12, NextMailFacts DEF RecordFails
  <2>3. faults' \in 0 .. MaxFaults /\ clean' \in [Actors -> BOOLEAN] /\ tainted' \subseteq Pairs
    BY <1>12, <2>1, FaultType DEF RecordFails, TypeOK
  <2>. QED  BY <1>12, <2>2, <2>3 DEF RecordFails, Moved, TypeOK
<1>13. CASE AddEmailSuppression \/ DeleteEmailSuppression
  BY <1>13 DEF AddEmailSuppression, DeleteEmailSuppression, TypeOK
<1>14. CASE Arrive
  BY <1>14 DEF Arrive, TypeOK
<1>15. CASE Tick
  BY <1>15 DEF Tick, TypeOK
<1>16. CASE Restart
  <2>1. pc' \in [Actors -> [Mailboxes -> Stages]] /\ todo' \in [Actors -> [Mailboxes -> SUBSET Mails]]
        /\ cur' \in [Actors -> [Mailboxes -> Mails \cup {None}]]
    BY <1>16, StageNames DEF Restart
  <2>2. seen' \in [Actors -> SUBSET Mails] /\ found' \in [Actors -> SUBSET Mails]
        /\ alerts' \in [Actors -> SUBSET Pairs] /\ clean' \in [Actors -> BOOLEAN]
    BY <1>16 DEF Restart
  <2>3. rows' \in [Pairs -> Nat \cup {Never}] /\ tainted' \subseteq Pairs
    BY <1>16 DEF Restart, TypeOK
  <2>4. faults' \in 0 .. MaxFaults
    BY <1>16 DEF Restart, TypeOK
  <2>. QED  BY <1>16, <2>1, <2>2, <2>3, <2>4 DEF Restart, TypeOK
<1>17. CASE UNCHANGED vars
  BY <1>17 DEF vars, TypeOK
<1>. QED  BY <1>1, <1>2, <1>3, <1>4, <1>5, <1>6, <1>7, <1>8, <1>9, <1>10, <1>11, <1>12, <1>13,
             <1>14, <1>15, <1>16, <1>17 DEF Next

-------------------------------------------------------------------------------
(* Marks and entries                                                        *)

\* Taking a mail marks it as seen and lists it at most once.
LEMMA SeenTake ==
  ASSUME TypeOK, SeenInv, OneEntryPerMail, NEW a \in Actors, NEW m \in Mailboxes, NEW e \in Mails,
         NEW recent \in BOOLEAN, Take(a, m, e, recent)
  PROVE  SeenInv' /\ OneEntryPerMail'
<1> DEFINE add == IF e \notin seen[a] /\ e \in Matching THEN {<<m, e>>} ELSE {}
<1>1. /\ \A b \in Actors : seen'[b] = IF b = a THEN seen[a] \cup {e} ELSE seen[b]
      /\ \A b \in Actors : alerts'[b] = IF b = a THEN alerts[a] \cup add ELSE alerts[b]
  <2>1. seen' = [seen EXCEPT ![a] = @ \cup {e}]
    BY TakeFacts
  <2>2. alerts' = [alerts EXCEPT ![a] = alerts[a] \cup add]
    <3>1. CASE e \notin seen[a] /\ e \in Matching
      BY <3>1, TakeFacts
    <3>2. CASE ~(e \notin seen[a] /\ e \in Matching)
      <4>1. alerts' = [alerts EXCEPT ![a] = alerts[a]]
        BY <3>2, TakeFacts
      <4>. QED  BY <3>2, <4>1
    <3>. QED  BY <3>1, <3>2
  <2> HIDE DEF add
  <2>. QED  BY <2>1, <2>2 DEF TypeOK
<1>2. \A k \in add : k = <<m, e>> /\ k[2] = e /\ e \notin seen[a]
  BY PairFacts
<1>3. (e \notin seen[a] /\ e \in Matching) => <<m, e>> \in add
  OBVIOUS
<1> HIDE DEF add
<1>4. SeenInv'
  <2> SUFFICES ASSUME NEW b \in Actors
               PROVE  /\ \A k \in alerts'[b] : k[2] \in seen'[b]
                      /\ \A f \in seen'[b] \cap Matching : \E n \in Mailboxes : <<n, f>> \in alerts'[b]
    BY DEF SeenInv
  <2>1. CASE b # a
    BY <1>1, <2>1 DEF SeenInv
  <2>2. CASE b = a
    BY <1>1, <1>2, <1>3, <2>2 DEF SeenInv
  <2>. QED  BY <2>1, <2>2
<1>5. OneEntryPerMail'
  BY <1>1, <1>2 DEF SeenInv, OneEntryPerMail
<1>. QED  BY <1>4, <1>5

\* Every step keeps what the round's list holds, and each mail on it once.
LEMMA SeenStep ==
  ASSUME TypeOK, SeenInv, OneEntryPerMail, [Next]_vars
  PROVE  SeenInv' /\ OneEntryPerMail'
<1>1. ASSUME NEW a \in Actors, SetEmailScan(a)
      PROVE  SeenInv' /\ OneEntryPerMail'
  <2>1. \A b \in Actors : /\ seen'[b] = IF b = a THEN {} ELSE seen[b]
                          /\ alerts'[b] = IF b = a THEN {} ELSE alerts[b]
    BY <1>1 DEF SetEmailScan, TypeOK
  <2>. QED  BY <2>1 DEF SeenInv, OneEntryPerMail
<1>2. ASSUME NEW a \in Actors, NEW m \in Mailboxes, NEW e \in Mails, Inspect(a, m, e)
      PROVE  SeenInv' /\ OneEntryPerMail'
  <2>1. HasRecentEmailAlert(m, e, a) \in BOOLEAN
    BY DEF HasRecentEmailAlert
  <2>. QED  BY <1>2, <2>1, SeenTake DEF Inspect
<1>3. ASSUME NEW a \in Actors, NEW m \in Mailboxes, NEW e \in Mails, InspectBlind(a, m, e)
      PROVE  SeenInv' /\ OneEntryPerMail'
  BY <1>3, SeenTake DEF InspectBlind
<1>4. CASE Restart
  BY <1>4 DEF Restart, SeenInv, OneEntryPerMail
<1>5. CASE UNCHANGED <<seen, alerts>>
  BY <1>5 DEF SeenInv, OneEntryPerMail
<1>6. ASSUME NEW a \in Actors, NEW m \in Mailboxes,
             \/ ScanInbox(a, m) \/ MailboxFails(a, m)
             \/ \E e \in Mails : FetchFails(a, m, e)
             \/ Send(a, m) \/ SendFails(a, m) \/ MuteUnread(a, m) \/ Record(a, m) \/ RecordFails(a, m)
      PROVE  UNCHANGED <<seen, alerts>>
  BY <1>6 DEF ScanInbox, MailboxFails, FetchFails, Send, SendFails, MuteUnread, Record, RecordFails
<1>7. CASE \/ AddEmailSuppression \/ DeleteEmailSuppression \/ Arrive \/ Tick \/ UNCHANGED vars
           \/ \E a \in Actors : Scan(a)
  <2>1. UNCHANGED <<seen, alerts>>
    BY <1>7 DEF AddEmailSuppression, DeleteEmailSuppression, Arrive, Tick, Scan, vars
  <2>. QED  BY <2>1, <1>5
<1>. QED  BY <1>1, <1>2, <1>3, <1>4, <1>5, <1>6, <1>7 DEF Next

-------------------------------------------------------------------------------
(* Stages and records                                                       *)

\* A mailbox that moves to a sound stage leaves all stages sound.
LEMMA StageMove ==
  ASSUME TypeOK, StageInv, NEW a \in Actors, NEW m \in Mailboxes, Moved(a, m),
         pc'[a][m] \in InFlight => cur'[a][m] \in Mails,
         pc'[a][m] \in {"idle", "queued", "done"} => todo'[a][m] = {},
         pc'[a][m] = "sent" => delivered'[<<m, cur'[a][m]>>] # Never,
         \A k \in Pairs : delivered'[k] = delivered[k] \/ delivered'[k] = now,
         \A k \in Pairs : rows'[k] # Never => delivered'[k] # Never,
         UNCHANGED <<now, muted, everMuted>>
  PROVE  StageInv'
<1>1. now \in Nat
  BY Basics DEF TypeOK
<1>2. \A k \in Pairs : delivered[k] # Never => delivered'[k] # Never
  BY <1>1 DEF Never
<1>3. \A k \in Pairs : delivered'[k] <= now
  BY <1>1 DEF StageInv
<1>4. ASSUME NEW b \in Actors, NEW n \in Mailboxes
      PROVE  /\ pc'[b][n] \in InFlight => cur'[b][n] \in Mails
             /\ pc'[b][n] \in {"idle", "queued", "done"} => todo'[b][n] = {}
             /\ pc'[b][n] = "sent" => delivered'[<<n, cur'[b][n]>>] # Never
  <2>1. CASE b = a /\ n = m
    BY <2>1
  <2>2. CASE b # a \/ n # m
    <3>1. pc'[b][n] = pc[b][n] /\ todo'[b][n] = todo[b][n] /\ cur'[b][n] = cur[b][n]
      BY <2>2 DEF Moved
    <3>2. pc[b][n] = "sent" => delivered'[<<n, cur[b][n]>>] # Never
      BY <1>2, StageNames, CurPair DEF StageInv
    <3>. QED  BY <3>1, <3>2 DEF StageInv
  <2>. QED  BY <2>1, <2>2
<1>. QED  BY <1>3, <1>4 DEF StageInv

\* Every step leaves every mailbox at a sound stage.
LEMMA StageStep ==
  ASSUME TypeOK, StageInv, [Next]_vars
  PROVE  StageInv'
<1> USE Basics, StageNames
<1>1. ASSUME NEW a \in Actors, Scan(a) \/ SetEmailScan(a)
      PROVE  StageInv'
  <2>1. \A b \in Actors, n \in Mailboxes :
          pc'[b][n] \in {"idle", "queued"} \/ pc'[b][n] = pc[b][n]
    BY <1>1, RowFacts DEF Scan, SetEmailScan
  <2>2. UNCHANGED <<todo, cur, delivered, rows, now, muted, everMuted>>
    BY <1>1 DEF Scan, SetEmailScan
  <2>3. \A b \in Actors, n \in Mailboxes :
          pc'[b][n] = pc[b][n] \/ pc[b][n] \in {"idle", "done"}
    BY <1>1, RowFacts DEF Scan, SetEmailScan
  <2>. QED  BY <2>1, <2>2, <2>3 DEF StageInv
<1>2. ASSUME NEW a \in Actors, NEW m \in Mailboxes,
             ScanInbox(a, m) \/ MailboxFails(a, m) \/ \E e \in Mails : FetchFails(a, m, e)
      PROVE  StageInv'
  <2>1. Moved(a, m) /\ pc'[a][m] \in {"open", "done"} /\ (pc'[a][m] = "done" => todo'[a][m] = {})
    BY <1>2, ScanInboxFacts, MailboxFailsFacts, FetchFailsFacts
  <2>2. UNCHANGED <<delivered, rows, now, muted, everMuted>>
    BY <1>2 DEF ScanInbox, MailboxFails, FetchFails
  <2>. QED  BY <2>1, <2>2, StageMove DEF StageInv
<1>3. ASSUME NEW a \in Actors, NEW m \in Mailboxes, NEW e \in Mails, NEW recent \in BOOLEAN,
             Take(a, m, e, recent)
      PROVE  StageInv'
  <2>1. /\ Moved(a, m)
        /\ pc'[a][m] \in {"send", "open", "done"} /\ (pc'[a][m] = "done" => todo'[a][m] = {})
        /\ pc'[a][m] = "send" => cur'[a][m] \in Mails
    BY <1>3, TakeFacts
  <2>2. UNCHANGED <<delivered, rows, now, muted, everMuted>>
    BY <1>3 DEF Take
  <2>. QED  BY <2>1, <2>2, StageMove DEF StageInv
<1>4. ASSUME NEW a \in Actors, NEW m \in Mailboxes, NEW e \in Mails, Inspect(a, m, e) \/ InspectBlind(a, m, e)
      PROVE  StageInv'
  <2>1. HasRecentEmailAlert(m, e, a) \in BOOLEAN
    BY DEF HasRecentEmailAlert
  <2>. QED  BY <1>3, <1>4, <2>1 DEF Inspect, InspectBlind
<1>5. ASSUME NEW a \in Actors, NEW m \in Mailboxes, Send(a, m) \/ SendFails(a, m) \/ MuteUnread(a, m)
      PROVE  StageInv'
  <2> DEFINE k == <<m, cur[a][m]>>
  <2>1. k \in Pairs /\ cur[a][m] \in Mails
    BY <1>5, CurPair DEF Send, SendFails, MuteUnread
  <2>2. /\ Moved(a, m) /\ (pc'[a][m] = "done" => todo'[a][m] = {})
        /\ pc'[a][m] \in {"open", "done"} \/ (pc'[a][m] \in {"sent", "unsent"} /\ cur' = cur)
    BY <1>5, NextMailFacts, OutcomeFacts DEF Send, SendFails, MuteUnread
  <2>3. delivered' = delivered \/ delivered' = [delivered EXCEPT ![k] = now]
    BY <1>5 DEF Send, SendFails, MuteUnread
  <2>4. \A j \in Pairs : delivered'[j] = delivered[j] \/ delivered'[j] = now
    BY <2>1, <2>3 DEF TypeOK
  <2>5. pc'[a][m] = "sent" => delivered' = [delivered EXCEPT ![k] = now]
    BY <1>5, NextMailFacts, OutcomeFacts DEF Send, SendFails, MuteUnread
  <2>6. pc'[a][m] = "sent" => delivered'[k] # Never
    BY <2>1, <2>5, DeliveredType DEF Never
  <2>7. UNCHANGED <<rows, now, muted, everMuted>>
    BY <1>5 DEF Send, SendFails, MuteUnread
  <2>8. \A j \in Pairs : rows[j] # Never => delivered'[j] # Never
    BY <2>4 DEF StageInv, TypeOK, Never
  <2>. QED  BY <2>1, <2>2, <2>4, <2>6, <2>7, <2>8, StageMove
<1>6. ASSUME NEW a \in Actors, NEW m \in Mailboxes, Record(a, m) \/ RecordFails(a, m)
      PROVE  StageInv'
  <2>1. cur[a][m] \in Mails /\ <<m, cur[a][m]>> \in Pairs
    BY <1>6, CurPair DEF Record, RecordFails
  <2>2. Moved(a, m) /\ pc'[a][m] \in {"open", "done"} /\ (pc'[a][m] = "done" => todo'[a][m] = {})
    BY <1>6, NextMailFacts DEF Record, RecordFails
  <2>3. UNCHANGED <<delivered, now, muted, everMuted>>
    BY <1>6 DEF Record, RecordFails
  <2>4. \A j \in Pairs : rows'[j] # Never => delivered[j] # Never
    <3>1. CASE RecordFails(a, m)
      BY <3>1 DEF RecordFails, StageInv
    <3>2. CASE Record(a, m)
      <4> DEFINE sent == pc[a][m] = "sent"
      <4>1. rows' = SaveEmailAlert(m, cur[a][m], sent) /\ sent \in BOOLEAN
        BY <3>2 DEF Record
      <4>2. sent => delivered[<<m, cur[a][m]>>] # Never
        BY DEF StageInv
      <4> HIDE DEF sent
      <4>3. \A j \in Pairs : \/ rows'[j] = rows[j] \/ rows'[j] = Never
                             \/ sent /\ j = <<m, cur[a][m]>>
        BY <2>1, <4>1, SaveFacts
      <4>. QED  BY <4>2, <4>3 DEF StageInv
    <3>. QED  BY <1>6, <3>1, <3>2
  <2>. QED  BY <2>2, <2>3, <2>4, StageMove DEF StageInv
<1>7. CASE AddEmailSuppression \/ DeleteEmailSuppression
  BY <1>7 DEF AddEmailSuppression, DeleteEmailSuppression, StageInv
<1>8. CASE Arrive \/ UNCHANGED vars
  BY <1>8 DEF Arrive, vars, StageInv
<1>9. CASE Tick
  <2>1. \A k \in Pairs : delivered[k] \in Int /\ (delivered[k] <= now => delivered[k] <= now + 1)
    BY DEF TypeOK, Never
  <2>. QED  BY <1>9, <2>1 DEF Tick, StageInv
<1>10. CASE Restart
  <2>1. \A b \in Actors, n \in Mailboxes : pc'[b][n] = "idle"
    BY <1>10 DEF Restart
  <2>2. \A k \in Pairs : rows'[k] = rows[k] \/ rows'[k] = Never
    BY <1>10 DEF Restart
  <2>. QED  BY <1>10, <2>1, <2>2 DEF Restart, StageInv
<1>. QED  BY <1>1, <1>2, <1>4, <1>5, <1>6, <1>7, <1>8, <1>9, <1>10 DEF Next

-------------------------------------------------------------------------------
(* Repeats                                                                  *)

\* A worker that goes on without having posted anything.
LEMMA RepeatQuiet ==
  ASSUME TypeOK, StageInv, RepeatInv, NoRepeatWithinWindow,
         NEW a \in Actors, NEW m \in Mailboxes, Moved(a, m),
         \/ pc'[a][m] \notin InFlight
         \/ pc[a][m] = "send" /\ pc'[a][m] = "unsent" /\ cur'[a][m] = cur[a][m],
         pc[a][m] = "sent" => <<m, cur[a][m]>> \in tainted',
         tainted \subseteq tainted', UNCHANGED <<rows, delivered, now>>
  PROVE  RepeatInv' /\ NoRepeatWithinWindow'
<1>1. \A b \in Actors, n \in Mailboxes, e \in Mails : Reporting(b, n, e)' => Reporting(b, n, e)
  BY StageNames DEF Reporting, Moved
<1>2. \A b \in Actors, n \in Mailboxes :
        (pc[b][n] = "sent" /\ <<n, cur[b][n]>> \notin tainted') => pc'[b][n] = "sent" /\ cur'[b][n] = cur[b][n]
  BY DEF Moved
<1>3. RepeatInv'
  <2> SUFFICES ASSUME NEW k \in Pairs \ tainted'
               PROVE  /\ \A b, c \in Actors : Reporting(b, k[1], k[2])' /\ Reporting(c, k[1], k[2])' => b = c
                      /\ delivered[k] # Never =>
                           \/ rows[k] >= delivered[k]
                           \/ delivered[k] + Retention < now
                           \/ \E b \in Actors : pc'[b][k[1]] = "sent" /\ cur'[b][k[1]] = k[2]
    BY DEF RepeatInv, Reporting
  <2>1. k \in Pairs \ tainted /\ k[1] \in Mailboxes /\ k[2] \in Mails /\ k = <<k[1], k[2]>>
    BY PairFacts
  <2>. QED  BY <1>1, <1>2, <2>1 DEF RepeatInv
<1>4. NoRepeatWithinWindow'
  <2>1. \A b \in Actors, n \in Mailboxes : pc'[b][n] = "send" => pc[b][n] = "send" /\ cur'[b][n] = cur[b][n]
    BY StageNames DEF Moved
  <2>. QED  BY <2>1 DEF NoRepeatWithinWindow, Window
<1>. QED  BY <1>3, <1>4

\* A worker that starts to report a mail: the pair is tainted, or nobody else
\* reports it and no row of the window names it.
LEMMA RepeatBegin ==
  ASSUME TypeOK, StageInv, RepeatInv, NoRepeatWithinWindow,
         NEW a \in Actors, NEW m \in Mailboxes, NEW e \in Mails, Moved(a, m),
         pc[a][m] = "open", pc'[a][m] = "send", cur'[a][m] = e,
         \/ <<m, e>> \in tainted'
         \/ ~Overlapping(a, m, e) /\ ~HasRecentEmailAlert(m, e, a),
         tainted \subseteq tainted', UNCHANGED <<rows, delivered, now>>
  PROVE  RepeatInv' /\ NoRepeatWithinWindow'
<1> USE Basics
<1>1. \A b \in Actors, n \in Mailboxes, f \in Mails :
        Reporting(b, n, f)' => Reporting(b, n, f) \/ (b = a /\ n = m /\ f = e)
  BY DEF Reporting, Moved
<1>2. <<m, e>> \notin tainted' => \A b \in Actors : Reporting(b, m, e) => b = a
  BY DEF Reporting, Overlapping
<1>3. \A b \in Actors, n \in Mailboxes :
        pc[b][n] = "sent" => pc'[b][n] = "sent" /\ cur'[b][n] = cur[b][n]
  BY DEF Moved
<1>4. RepeatInv'
  <2> SUFFICES ASSUME NEW k \in Pairs \ tainted'
               PROVE  /\ \A b, c \in Actors : Reporting(b, k[1], k[2])' /\ Reporting(c, k[1], k[2])' => b = c
                      /\ delivered[k] # Never =>
                           \/ rows[k] >= delivered[k]
                           \/ delivered[k] + Retention < now
                           \/ \E b \in Actors : pc'[b][k[1]] = "sent" /\ cur'[b][k[1]] = k[2]
    BY DEF RepeatInv, Reporting
  <2>1. k \in Pairs \ tainted /\ k[1] \in Mailboxes /\ k[2] \in Mails /\ k = <<k[1], k[2]>>
    BY PairFacts
  <2>. QED  BY <1>1, <1>2, <1>3, <2>1 DEF RepeatInv
<1>5. <<m, e>> \notin tainted' => delivered[<<m, e>>] = Never \/ delivered[<<m, e>>] + Window(a) < now
  <2> SUFFICES ASSUME <<m, e>> \notin tainted', delivered[<<m, e>>] # Never
               PROVE  delivered[<<m, e>>] + Window(a) < now
    OBVIOUS
  <2>1. <<m, e>> \in Pairs \ tainted /\ <<m, e>>[1] = m /\ <<m, e>>[2] = e
    BY PairFacts
  <2>2. ~ \E b \in Actors : pc[b][m] = "sent" /\ cur[b][m] = e
    BY <1>2, StageNames DEF Reporting
  <2>3. rows[<<m, e>>] >= delivered[<<m, e>>] \/ delivered[<<m, e>>] + Retention < now
    BY <2>1, <2>2 DEF RepeatInv
  <2>4. rows[<<m, e>>] = Never \/ ~(rows[<<m, e>>] >= now - Window(a))
    BY DEF HasRecentEmailAlert
  <2>5. delivered[<<m, e>>] \in Nat /\ rows[<<m, e>>] \in Nat \cup {Never} /\ now \in Nat
        /\ Window(a) \in Nat /\ Window(a) <= Retention
    BY <2>1 DEF TypeOK
  <2>. QED  BY <2>3, <2>4, <2>5 DEF Never
<1>6. NoRepeatWithinWindow'
  <2> SUFFICES ASSUME NEW b \in Actors, NEW n \in Mailboxes,
                      pc'[b][n] = "send", <<n, cur'[b][n]>> \notin tainted'
               PROVE  delivered[<<n, cur'[b][n]>>] = Never \/ delivered[<<n, cur'[b][n]>>] + Window(b) < now
    BY DEF NoRepeatWithinWindow, Window
  <2>1. CASE b = a /\ n = m
    BY <1>5, <2>1
  <2>2. CASE b # a \/ n # m
    BY <2>2 DEF Moved, NoRepeatWithinWindow
  <2>. QED  BY <2>1, <2>2
<1>. QED  BY <1>4, <1>6

\* The webhook accepts: the worker will record it, or the pair is tainted.
LEMMA RepeatAccepted ==
  ASSUME TypeOK, StageInv, RepeatInv, NoRepeatWithinWindow,
         NEW a \in Actors, NEW m \in Mailboxes, Moved(a, m),
         pc[a][m] = "send", pc'[a][m] \in {"sent", "unsent"}, cur'[a][m] = cur[a][m],
         delivered' = [delivered EXCEPT ![<<m, cur[a][m]>>] = now],
         pc'[a][m] = "sent" \/ <<m, cur[a][m]>> \in tainted',
         tainted \subseteq tainted', UNCHANGED <<rows, now>>
  PROVE  RepeatInv' /\ NoRepeatWithinWindow'
<1> DEFINE p == <<m, cur[a][m]>>
<1>1. p \in Pairs /\ cur[a][m] \in Mails /\ p[1] = m /\ p[2] = cur[a][m]
  BY CurPair, StageNames, PairFacts
<1>2. \A j \in Pairs : j # p => delivered'[j] = delivered[j]
  BY <1>1, DeliveredType
<1>3. \A b \in Actors, n \in Mailboxes, f \in Mails : Reporting(b, n, f)' => Reporting(b, n, f)
  BY StageNames DEF Reporting, Moved
<1>4. \A b \in Actors, n \in Mailboxes :
        pc[b][n] = "sent" => pc'[b][n] = "sent" /\ cur'[b][n] = cur[b][n]
  BY DEF Moved
<1>5. p \notin tainted' => \A b \in Actors : Reporting(b, m, cur[a][m]) => b = a
  BY <1>1, StageNames DEF RepeatInv, Reporting
<1>6. RepeatInv'
  <2> SUFFICES ASSUME NEW k \in Pairs \ tainted'
               PROVE  /\ \A b, c \in Actors : Reporting(b, k[1], k[2])' /\ Reporting(c, k[1], k[2])' => b = c
                      /\ delivered'[k] # Never =>
                           \/ rows[k] >= delivered'[k]
                           \/ delivered'[k] + Retention < now
                           \/ \E b \in Actors : pc'[b][k[1]] = "sent" /\ cur'[b][k[1]] = k[2]
    BY DEF RepeatInv, Reporting
  <2>1. k \in Pairs \ tainted /\ k[1] \in Mailboxes /\ k[2] \in Mails /\ k = <<k[1], k[2]>>
    BY PairFacts
  <2>2. \A b, c \in Actors : Reporting(b, k[1], k[2])' /\ Reporting(c, k[1], k[2])' => b = c
    BY <1>3, <2>1 DEF RepeatInv
  <2>3. CASE k = p
    BY <1>1, <2>2, <2>3
  <2>4. CASE k # p
    <3>1. delivered'[k] = delivered[k]
      BY <1>2, <2>4
    <3>. QED  BY <1>4, <2>1, <2>2, <3>1 DEF RepeatInv
  <2>. QED  BY <2>3, <2>4
<1>7. NoRepeatWithinWindow'
  <2> SUFFICES ASSUME NEW b \in Actors, NEW n \in Mailboxes,
                      pc'[b][n] = "send", <<n, cur'[b][n]>> \notin tainted'
               PROVE  delivered'[<<n, cur'[b][n]>>] = Never \/ delivered'[<<n, cur'[b][n]>>] + Window(b) < now
    BY DEF NoRepeatWithinWindow, Window
  <2>1. b # a \/ n # m
    OBVIOUS
  <2>2. pc[b][n] = "send" /\ cur'[b][n] = cur[b][n]
    BY <2>1 DEF Moved
  <2>3. <<n, cur[b][n]>> \in Pairs
    BY <2>2, CurPair, StageNames
  <2>4. <<n, cur[b][n]>> # p
    <3> SUFFICES ASSUME <<n, cur[b][n]>> = p  PROVE FALSE
      OBVIOUS
    <3>1. n = m /\ cur[b][n] = cur[a][m] /\ p \notin tainted'
      BY <2>2
    <3>2. Reporting(b, m, cur[a][m])
      BY <2>2, <3>1, StageNames DEF Reporting
    <3>. QED  BY <1>5, <2>1, <3>1, <3>2
  <2>. QED  BY <1>2, <2>2, <2>3, <2>4 DEF NoRepeatWithinWindow
<1>. QED  BY <1>6, <1>7

\* An accepted mail is recorded.  The Volatile store may drop rows as it saves,
\* but only rows older than any window.
LEMMA RepeatRecorded ==
  ASSUME TypeOK, StageInv, RepeatInv, NoRepeatWithinWindow,
         NEW a \in Actors, NEW m \in Mailboxes, Record(a, m), pc[a][m] = "sent"
  PROVE  RepeatInv' /\ NoRepeatWithinWindow'
<1> USE Basics
<1> DEFINE p == <<m, cur[a][m]>>
<1>1. p \in Pairs /\ cur[a][m] \in Mails /\ p[1] = m /\ p[2] = cur[a][m]
  BY CurPair, StageNames, PairFacts
<1>2. Moved(a, m) /\ pc'[a][m] \in {"open", "done"} /\ UNCHANGED <<delivered, now, tainted>>
  BY NextMailFacts DEF Record
<1>3. rows' = SaveEmailAlert(m, cur[a][m], TRUE)
  BY DEF Record
<1>4. /\ rows'[p] = now
      /\ \A k \in Pairs : k # p => rows'[k] = rows[k] \/ (rows'[k] = Never /\ now - rows[k] > Retention)
  BY <1>1, <1>3, SaveFacts
<1>5. \A b \in Actors, n \in Mailboxes, f \in Mails : Reporting(b, n, f)' => Reporting(b, n, f)
  BY <1>2, StageNames DEF Reporting, Moved
<1>6. \A b \in Actors, n \in Mailboxes :
        pc[b][n] = "sent" /\ <<n, cur[b][n]>> # p => pc'[b][n] = "sent" /\ cur'[b][n] = cur[b][n]
  BY <1>2 DEF Moved
<1>7. RepeatInv'
  <2> SUFFICES ASSUME NEW k \in Pairs \ tainted
               PROVE  /\ \A b, c \in Actors : Reporting(b, k[1], k[2])' /\ Reporting(c, k[1], k[2])' => b = c
                      /\ delivered[k] # Never =>
                           \/ rows'[k] >= delivered[k]
                           \/ delivered[k] + Retention < now
                           \/ \E b \in Actors : pc'[b][k[1]] = "sent" /\ cur'[b][k[1]] = k[2]
    BY <1>2 DEF RepeatInv, Reporting
  <2>1. k[1] \in Mailboxes /\ k[2] \in Mails /\ k = <<k[1], k[2]>>
    BY PairFacts
  <2>2. \A b, c \in Actors : Reporting(b, k[1], k[2])' /\ Reporting(c, k[1], k[2])' => b = c
    BY <1>5, <2>1 DEF RepeatInv
  <2>3. delivered[k] \in Nat \cup {Never} /\ rows[k] \in Nat \cup {Never} /\ now \in Nat /\ delivered[k] <= now
    BY DEF TypeOK, StageInv
  <2>4. CASE k = p
    BY <1>4, <2>2, <2>3, <2>4
  <2>5. CASE k # p
    <3>1. CASE rows'[k] = rows[k]
      BY <1>6, <2>1, <2>2, <2>5, <3>1 DEF RepeatInv
    <3>2. CASE now - rows[k] > Retention
      <4>1. rows[k] >= delivered[k] => delivered[k] = Never \/ delivered[k] + Retention < now
        BY <2>3, <3>2 DEF Never
      <4>. QED  BY <1>6, <2>1, <2>2, <2>5, <4>1 DEF RepeatInv
    <3>. QED  BY <1>4, <2>5, <3>1, <3>2
  <2>. QED  BY <2>4, <2>5
<1>8. NoRepeatWithinWindow'
  <2>1. \A b \in Actors, n \in Mailboxes : pc'[b][n] = "send" => pc[b][n] = "send" /\ cur'[b][n] = cur[b][n]
    BY <1>2 DEF Moved
  <2>. QED  BY <1>2, <2>1 DEF NoRepeatWithinWindow, Window
<1>. QED  BY <1>7, <1>8

\* Every step keeps the records and the spacing.
LEMMA RepeatStep ==
  ASSUME TypeOK, StageInv, RepeatInv, NoRepeatWithinWindow, [Next]_vars
  PROVE  RepeatInv' /\ NoRepeatWithinWindow'
<1> USE Basics, StageNames
<1>1. ASSUME NEW a \in Actors, Scan(a) \/ SetEmailScan(a)
      PROVE  RepeatInv' /\ NoRepeatWithinWindow'
  <2>1. \A b \in Actors, n \in Mailboxes :
          \/ pc'[b][n] = pc[b][n]
          \/ pc'[b][n] \in {"idle", "queued"} /\ pc[b][n] \in {"idle", "done"}
    BY <1>1, RowFacts DEF Scan, SetEmailScan
  <2>2. UNCHANGED <<rows, delivered, now, cur, tainted>>
    BY <1>1 DEF Scan, SetEmailScan
  <2>3. RepeatInv'
    <3>1. \A b \in Actors, n \in Mailboxes, e \in Mails : Reporting(b, n, e)' => Reporting(b, n, e)
      BY <2>1, <2>2 DEF Reporting
    <3>2. \A b \in Actors, n \in Mailboxes : pc[b][n] = "sent" => pc'[b][n] = "sent"
      BY <2>1
    <3>. QED  BY <2>2, <3>1, <3>2, PairFacts DEF RepeatInv
  <2>4. NoRepeatWithinWindow'
    BY <2>1, <2>2 DEF NoRepeatWithinWindow, Window
  <2>. QED  BY <2>3, <2>4
<1>2. ASSUME NEW a \in Actors, NEW m \in Mailboxes,
             ScanInbox(a, m) \/ MailboxFails(a, m) \/ \E e \in Mails : FetchFails(a, m, e)
      PROVE  RepeatInv' /\ NoRepeatWithinWindow'
  <2>1. Moved(a, m) /\ pc'[a][m] \in {"open", "done"} /\ pc[a][m] \in {"queued", "open"}
    BY <1>2, ScanInboxFacts, MailboxFailsFacts, FetchFailsFacts
  <2>2. UNCHANGED <<rows, delivered, now, tainted>>
    BY <1>2 DEF ScanInbox, MailboxFails, FetchFails
  <2>. QED  BY <2>1, <2>2, RepeatQuiet
<1>3. ASSUME NEW a \in Actors, NEW m \in Mailboxes, NEW e \in Mails, Inspect(a, m, e) \/ InspectBlind(a, m, e)
      PROVE  RepeatInv' /\ NoRepeatWithinWindow'
  <2>1. PICK recent \in BOOLEAN :
          /\ Take(a, m, e, recent)
          /\ recent = HasRecentEmailAlert(m, e, a) \/ <<m, e>> \in tainted'
    BY <1>3 DEF Inspect, InspectBlind, HasRecentEmailAlert
  <2>2. /\ Moved(a, m) /\ pc[a][m] = "open"
        /\ \/ pc'[a][m] = "send" /\ cur'[a][m] = e /\ ~recent
           \/ pc'[a][m] \in {"open", "done"}
    BY <2>1, TakeFacts
  <2>3. UNCHANGED <<rows, delivered, now>> /\ tainted \subseteq tainted'
    BY <1>3, <2>1 DEF Take, Inspect, InspectBlind
  <2>4. pc'[a][m] = "send" => <<m, e>> \in tainted' \/ ~Overlapping(a, m, e)
    BY <1>3 DEF Inspect, InspectBlind
  <2>5. CASE pc'[a][m] = "send"
    BY <2>1, <2>2, <2>3, <2>4, <2>5, RepeatBegin
  <2>6. CASE pc'[a][m] # "send"
    BY <2>2, <2>3, <2>6, RepeatQuiet
  <2>. QED  BY <2>5, <2>6
<1>4. ASSUME NEW a \in Actors, NEW m \in Mailboxes, Send(a, m)
      PROVE  RepeatInv' /\ NoRepeatWithinWindow'
  <2>1. pc[a][m] = "send" /\ UNCHANGED <<rows, now, tainted, todo>>
    BY <1>4 DEF Send
  <2>2. CASE NextMail(a, m) /\ UNCHANGED delivered
    BY <2>1, <2>2, NextMailFacts, RepeatQuiet
  <2>3. CASE pc' = [pc EXCEPT ![a][m] = "unsent"] /\ UNCHANGED <<cur, delivered>>
    BY <2>1, <2>3, OutcomeFacts, RepeatQuiet
  <2>4. CASE /\ pc' = [pc EXCEPT ![a][m] = "sent"] /\ UNCHANGED cur
             /\ delivered' = [delivered EXCEPT ![<<m, cur[a][m]>>] = now]
    BY <2>1, <2>4, OutcomeFacts, RepeatAccepted
  <2>. QED  BY <1>4, <2>2, <2>3, <2>4 DEF Send
<1>5. ASSUME NEW a \in Actors, NEW m \in Mailboxes, SendFails(a, m)
      PROVE  RepeatInv' /\ NoRepeatWithinWindow'
  <2>1. /\ pc[a][m] = "send" /\ UNCHANGED <<rows, now, todo, cur>>
        /\ Moved(a, m) /\ pc'[a][m] = "unsent"
    BY <1>5, OutcomeFacts DEF SendFails
  <2>2. CASE UNCHANGED <<delivered, tainted>>
    BY <2>1, <2>2, RepeatQuiet
  <2>3. CASE /\ delivered' = [delivered EXCEPT ![<<m, cur[a][m]>>] = now]
             /\ tainted' = tainted \cup {<<m, cur[a][m]>>}
    BY <2>1, <2>3, RepeatAccepted
  <2>. QED  BY <1>5, <2>2, <2>3 DEF SendFails
<1>6. ASSUME NEW a \in Actors, NEW m \in Mailboxes, MuteUnread(a, m)
      PROVE  RepeatInv' /\ NoRepeatWithinWindow'
  BY <1>6, OutcomeFacts, RepeatAccepted DEF MuteUnread
<1>7. ASSUME NEW a \in Actors, NEW m \in Mailboxes, Record(a, m)
      PROVE  RepeatInv' /\ NoRepeatWithinWindow'
  <2>1. CASE pc[a][m] = "sent"
    BY <1>7, <2>1, RepeatRecorded
  <2>2. CASE pc[a][m] # "sent"
    <3>1. UNCHANGED <<rows, delivered, now, tainted, todo>>
      BY <1>7, <2>2 DEF Record, SaveEmailAlert
    <3>. QED  BY <1>7, <2>2, <3>1, NextMailFacts, RepeatQuiet DEF Record
  <2>. QED  BY <2>1, <2>2
<1>8. ASSUME NEW a \in Actors, NEW m \in Mailboxes, RecordFails(a, m)
      PROVE  RepeatInv' /\ NoRepeatWithinWindow'
  <2>1. /\ UNCHANGED <<rows, delivered, now, todo>> /\ tainted \subseteq tainted'
        /\ pc[a][m] = "sent" => <<m, cur[a][m]>> \in tainted'
    BY <1>8 DEF RecordFails
  <2>2. Moved(a, m) /\ pc'[a][m] \in {"open", "done"}
    BY <1>8, NextMailFacts DEF RecordFails
  <2>. QED  BY <2>1, <2>2, RepeatQuiet
<1>9. CASE AddEmailSuppression \/ DeleteEmailSuppression \/ Arrive \/ UNCHANGED vars
  <2>1. UNCHANGED <<rows, delivered, now, tainted, pc, cur>>
    BY <1>9 DEF AddEmailSuppression, DeleteEmailSuppression, Arrive, vars
  <2>. QED  BY <2>1 DEF RepeatInv, NoRepeatWithinWindow, Reporting, Window
<1>10. CASE Tick
  <2>1. now' = now + 1 /\ now \in Nat /\ UNCHANGED <<rows, delivered, tainted, pc, cur>>
    BY <1>10 DEF Tick, TypeOK
  <2>2. \A k \in Pairs, r \in Nat : delivered[k] + r < now => delivered[k] + r < now'
    BY <2>1 DEF TypeOK, Never
  <2>3. RepeatInv'
    BY <2>1, <2>2 DEF RepeatInv, Reporting
  <2>4. NoRepeatWithinWindow'
    BY <2>1, <2>2, CurPair DEF NoRepeatWithinWindow, Window
  <2>. QED  BY <2>3, <2>4
<1>11. CASE Restart
  <2>1. \A b \in Actors, n \in Mailboxes : pc'[b][n] = "idle"
    BY <1>11 DEF Restart
  <2>2. NoRepeatWithinWindow'
    BY <2>1 DEF NoRepeatWithinWindow
  <2>3. RepeatInv'
    <3> SUFFICES ASSUME NEW k \in Pairs \ tainted'
                 PROVE  /\ \A b, c \in Actors : Reporting(b, k[1], k[2])' /\ Reporting(c, k[1], k[2])' => b = c
                        /\ delivered'[k] # Never => rows'[k] >= delivered'[k] \/ delivered'[k] + Retention < now'
      BY DEF RepeatInv
    <3>1. k[1] \in Mailboxes /\ k[2] \in Mails
      BY PairFacts
    <3>2. \A b \in Actors : ~Reporting(b, k[1], k[2])'
      BY <2>1, <3>1 DEF Reporting
    <3>3. Persistent /\ k \notin tainted /\ UNCHANGED <<rows, delivered, now>>
          /\ ~ \E b \in Actors : pc[b][k[1]] = "sent" /\ cur[b][k[1]] = k[2]
      BY <1>11 DEF Restart
    <3>. QED  BY <3>2, <3>3 DEF RepeatInv
  <2>. QED  BY <2>2, <2>3
<1>. QED  BY <1>1, <1>2, <1>3, <1>4, <1>5, <1>6, <1>7, <1>8, <1>9, <1>10, <1>11 DEF Next

-------------------------------------------------------------------------------
(* What a scan leaves behind                                                *)

\* A step of actor a's scan in mailbox m is no concern of the other actor's scan.
LEMMA CleanOthers ==
  ASSUME CleanInv, NEW a \in Actors, NEW m \in Mailboxes, Moved(a, m),
         \A b \in Actors \ {a} :
           /\ found'[b] = found[b] /\ seen'[b] = seen[b] /\ alerts'[b] = alerts[b]
           /\ clean'[b] = clean[b],
         \A k \in Pairs : delivered[k] # Never => delivered'[k] # Never,
         everMuted' = everMuted, webhook' = webhook,
         CleanFor(a)'
  PROVE  CleanInv'
<1> SUFFICES ASSUME NEW b \in Actors \ {a}  PROVE CleanFor(b)'
  BY DEF CleanInv
<1>1. \A n \in Mailboxes : pc'[b][n] = pc[b][n] /\ todo'[b][n] = todo[b][n] /\ cur'[b][n] = cur[b][n]
  BY DEF Moved
<1>2. CleanFor(b)
  BY DEF CleanInv
<1>. QED  BY <1>1, <1>2, PairFacts DEF CleanFor, Reporting, DryRun

\* A failure ends the promise for the scan it happens in.
LEMMA CleanFault ==
  ASSUME TypeOK, NEW a \in Actors, Fault(a)
  PROVE  CleanFor(a)' /\ \A b \in Actors \ {a} : clean'[b] = clean[b]
BY DEF Fault, CleanFor, TypeOK

\* A worker that keeps what its scan has met: of the entries, only the one it was
\* reporting may have changed its state.
LEMMA CleanMove ==
  ASSUME NEW a \in Actors, NEW m \in Mailboxes, Moved(a, m), CleanFor(a),
         \A e \in found'[a] : e \in seen'[a] \/ e \in todo'[a][m]
                              \/ \E n \in Mailboxes \ {m} : e \in todo[a][n],
         pc'[a][m] = "unsent" /\ clean[a] => <<m, cur'[a][m]>> \in everMuted,
         \A n \in Mailboxes, e \in Mails : <<n, e>> \in alerts'[a] /\ <<n, e>> \notin alerts[a] =>
           \/ DryRun(a) \/ Reporting(a, n, e)' \/ delivered[<<n, e>>] # Never,
         \A e \in Mails : clean[a] /\ Reporting(a, m, e) =>
           ~webhook \/ Reporting(a, m, e)' \/ delivered'[<<m, e>>] # Never \/ <<m, e>> \in everMuted,
         \A k \in Pairs : delivered[k] # Never => delivered'[k] # Never,
         clean'[a] = clean[a], everMuted' = everMuted, webhook' = webhook
  PROVE  CleanFor(a)'
<1> SUFFICES ASSUME clean[a]
             PROVE  /\ \A e \in found'[a] : e \in seen'[a] \/ \E n \in Mailboxes : e \in todo'[a][n]
                    /\ \A n \in Mailboxes : pc'[a][n] = "unsent" => <<n, cur'[a][n]>> \in everMuted
                    /\ \A n \in Mailboxes, e \in Mails : <<n, e>> \in alerts'[a] =>
                         \/ DryRun(a) \/ ~webhook
                         \/ Reporting(a, n, e)'
                         \/ delivered'[<<n, e>>] # Never
                         \/ <<n, e>> \in everMuted
  BY DEF CleanFor, DryRun
<1>1. \A e \in found'[a] : e \in seen'[a] \/ \E n \in Mailboxes : e \in todo'[a][n]
  BY DEF Moved
<1>2. \A n \in Mailboxes : pc'[a][n] = "unsent" => <<n, cur'[a][n]>> \in everMuted
  BY DEF Moved, CleanFor
<1>3. ASSUME NEW n \in Mailboxes, NEW e \in Mails, <<n, e>> \in alerts'[a]
      PROVE  \/ DryRun(a) \/ ~webhook
             \/ Reporting(a, n, e)'
             \/ delivered'[<<n, e>>] # Never
             \/ <<n, e>> \in everMuted
  <2>1. CASE <<n, e>> \notin alerts[a]
    BY <1>3, <2>1, PairFacts
  <2>2. CASE <<n, e>> \in alerts[a]
    <3>1. \/ DryRun(a) \/ ~webhook
          \/ Reporting(a, n, e)
          \/ delivered'[<<n, e>>] # Never
          \/ <<n, e>> \in everMuted
      BY <2>2, PairFacts DEF CleanFor
    <3>2. CASE n = m
      BY <3>1, <3>2
    <3>3. CASE n # m
      BY <3>1, <3>3 DEF Reporting, Moved
    <3>. QED  BY <3>2, <3>3
  <2>. QED  BY <2>1, <2>2
<1>. QED  BY <1>1, <1>2, <1>3

\* Every step keeps the promise.
LEMMA CleanStep ==
  ASSUME TypeOK, StageInv, CleanInv, [Next]_vars
  PROVE  CleanInv'
<1> USE Basics, StageNames
<1>1. ASSUME NEW a \in Actors, Scan(a)
      PROVE  CleanInv'
  <2>1. \A b \in Actors, n \in Mailboxes :
          pc'[b][n] = pc[b][n] \/ (pc'[b][n] = "queued" /\ pc[b][n] = "idle")
    BY <1>1, RowFacts DEF Scan
  <2>2. UNCHANGED <<todo, cur, seen, found, alerts, clean, delivered, everMuted, webhook>>
    BY <1>1 DEF Scan
  <2>. QED  BY <2>1, <2>2 DEF CleanInv, CleanFor, Reporting, DryRun
<1>2. ASSUME NEW a \in Actors, SetEmailScan(a)
      PROVE  CleanInv'
  <2> SUFFICES ASSUME NEW b \in Actors  PROVE CleanFor(b)'
    BY DEF CleanInv
  <2>1. \A n \in Mailboxes : pc'[b][n] = IF b = a THEN "idle" ELSE pc[b][n]
    <3>1. pc' = [pc EXCEPT ![a] = [m \in Mailboxes |-> "idle"]]
      BY <1>2 DEF SetEmailScan
    <3>2. pc \in [Actors -> [Mailboxes -> Stages]]
      BY DEF TypeOK
    <3>3. pc'[b] = IF b = a THEN [m \in Mailboxes |-> "idle"] ELSE pc[b]
      BY <3>1, <3>2, Zenon
    <3>. QED  BY <3>3
  <2>2. UNCHANGED <<todo, cur, delivered, everMuted, webhook>>
    BY <1>2 DEF SetEmailScan
  <2>3. CASE b = a
    <3>1. found'[a] = {} /\ alerts'[a] = {}
      BY <1>2 DEF SetEmailScan, TypeOK
    <3>. QED  BY <2>1, <2>3, <3>1 DEF CleanFor
  <2>4. CASE b # a
    <3>1. seen'[b] = seen[b] /\ found'[b] = found[b] /\ alerts'[b] = alerts[b] /\ clean'[b] = clean[b]
      BY <1>2, <2>4 DEF SetEmailScan, TypeOK
    <3>. QED  BY <2>1, <2>2, <2>4, <3>1 DEF CleanInv, CleanFor, Reporting, DryRun
  <2>. QED  BY <2>3, <2>4
<1>3. ASSUME NEW a \in Actors, NEW m \in Mailboxes, ScanInbox(a, m)
      PROVE  CleanInv'
  <2>1. UNCHANGED <<seen, alerts, clean, delivered, everMuted, webhook>>
    BY <1>3 DEF ScanInbox
  <2>2. /\ Moved(a, m) /\ pc[a][m] = "queued" /\ pc'[a][m] \in {"open", "done"}
        /\ found'[a] = found[a] \cup todo'[a][m]
        /\ \A b \in Actors : b # a => found'[b] = found[b]
    BY <1>3, ScanInboxFacts
  <2>3. CleanFor(a)
    BY DEF CleanInv
  <2>4. CASE ~clean[a]
    <3>1. CleanFor(a)'
      BY <2>1, <2>4 DEF CleanFor
    <3>. QED  BY <2>1, <2>2, <3>1, CleanOthers
  <2>5. CASE clean[a]
    <3>1. todo[a][m] = {}
      BY <2>2 DEF StageInv
    <3>2. \A e \in found'[a] : e \in seen'[a] \/ e \in todo'[a][m]
                               \/ \E n \in Mailboxes \ {m} : e \in todo[a][n]
      BY <2>1, <2>2, <2>3, <2>5, <3>1 DEF CleanFor
    <3>3. \A e \in Mails : ~Reporting(a, m, e)
      BY <2>2 DEF Reporting
    <3>4. CleanFor(a)'
      BY <2>1, <2>2, <2>3, <3>2, <3>3, CleanMove
    <3>. QED  BY <2>1, <2>2, <3>4, CleanOthers
  <2>. QED  BY <2>4, <2>5
<1>4. ASSUME NEW a \in Actors, NEW m \in Mailboxes,
             MailboxFails(a, m) \/ \E e \in Mails : FetchFails(a, m, e)
      PROVE  CleanInv'
  <2>1. UNCHANGED <<seen, alerts, found, delivered, everMuted, webhook>> /\ Fault(a)
    BY <1>4 DEF MailboxFails, FetchFails
  <2>2. Moved(a, m)
    BY <1>4, MailboxFailsFacts, FetchFailsFacts
  <2>. QED  BY <2>1, <2>2, CleanFault, CleanOthers
<1>5. ASSUME NEW a \in Actors, NEW m \in Mailboxes, NEW e \in Mails, InspectBlind(a, m, e)
      PROVE  CleanInv'
  <2>1. Take(a, m, e, FALSE) /\ Fault(a)
    BY <1>5 DEF InspectBlind
  <2>2. UNCHANGED <<found, delivered, everMuted, webhook>>
    BY <2>1 DEF Take
  <2>3. Moved(a, m) /\ \A b \in Actors \ {a} : seen'[b] = seen[b] /\ alerts'[b] = alerts[b]
    <3>1. Moved(a, m)
      BY <2>1, TakeFacts
    <3>2. \A b \in Actors \ {a} : seen'[b] = seen[b] /\ alerts'[b] = alerts[b]
      BY <2>1 DEF Take, TypeOK
    <3>. QED  BY <3>1, <3>2
  <2>. QED  BY <2>1, <2>2, <2>3, CleanFault, CleanOthers
<1>6. ASSUME NEW a \in Actors, NEW m \in Mailboxes, NEW e \in Mails, Inspect(a, m, e)
      PROVE  CleanInv'
  <2> DEFINE recent == HasRecentEmailAlert(m, e, a)
  <2>1. Take(a, m, e, recent) /\ recent \in BOOLEAN /\ UNCHANGED clean
    BY <1>6 DEF Inspect, HasRecentEmailAlert
  <2>2. UNCHANGED <<found, delivered, everMuted, webhook>>
    BY <2>1 DEF Take
  <2>3. recent => delivered[<<m, e>>] # Never
    BY PairFacts DEF HasRecentEmailAlert, StageInv
  <2> HIDE DEF recent
  <2>4. /\ Moved(a, m) /\ pc[a][m] = "open" /\ todo'[a][m] = todo[a][m] \ {e}
        /\ \/ /\ pc'[a][m] = "send" /\ cur'[a][m] = e
              /\ e \notin seen[a] /\ e \in Matching /\ ~recent /\ ~DryRun(a)
           \/ /\ pc'[a][m] \in {"open", "done"}
              /\ e \in seen[a] \/ e \notin Matching \/ recent \/ DryRun(a)
    BY <2>1, TakeFacts
  <2>5. /\ seen' = [seen EXCEPT ![a] = @ \cup {e}]
        /\ \A b \in Actors \ {a} : seen'[b] = seen[b] /\ alerts'[b] = alerts[b]
        /\ \A k \in alerts'[a] : k \in alerts[a] \/ (k = <<m, e>> /\ e \notin seen[a] /\ e \in Matching)
    BY <2>1, TakeFacts DEF TypeOK
  <2>6. CleanFor(a)
    BY DEF CleanInv
  <2>7. CASE ~clean[a]
    <3>1. CleanFor(a)'
      BY <2>1, <2>7 DEF CleanFor
    <3>. QED  BY <2>1, <2>2, <2>4, <2>5, <3>1, CleanOthers
  <2>8. CASE clean[a]
    <3>1. \A f \in found'[a] : f \in seen'[a] \/ f \in todo'[a][m]
                               \/ \E n \in Mailboxes \ {m} : f \in todo[a][n]
      BY <2>2, <2>4, <2>5, <2>6, <2>8 DEF CleanFor, TypeOK
    <3>2. \A f \in Mails : ~Reporting(a, m, f)
      BY <2>4 DEF Reporting
    <3>3. \A n \in Mailboxes, f \in Mails : <<n, f>> \in alerts'[a] /\ <<n, f>> \notin alerts[a] =>
            \/ DryRun(a) \/ Reporting(a, n, f)' \/ delivered[<<n, f>>] # Never
      <4> SUFFICES ASSUME NEW n \in Mailboxes, NEW f \in Mails,
                          <<n, f>> \in alerts'[a], <<n, f>> \notin alerts[a]
                   PROVE  DryRun(a) \/ Reporting(a, n, f)' \/ delivered[<<n, f>>] # Never
        OBVIOUS
      <4>1. n = m /\ f = e /\ e \notin seen[a] /\ e \in Matching
        BY <2>5, PairFacts
      <4>. QED  BY <2>3, <2>4, <4>1 DEF Reporting
    <3>4. pc'[a][m] # "unsent"
      BY <2>4
    <3>5. CleanFor(a)'
      BY <2>1, <2>2, <2>4, <2>6, <3>1, <3>2, <3>3, <3>4, CleanMove
    <3>. QED  BY <2>1, <2>2, <2>4, <2>5, <3>5, CleanOthers
  <2>. QED  BY <2>7, <2>8
<1>7. ASSUME NEW a \in Actors, NEW m \in Mailboxes, Send(a, m)
      PROVE  CleanInv'
  <2> DEFINE k == <<m, cur[a][m]>>
  <2>1. UNCHANGED <<seen, alerts, found, clean, everMuted, webhook, todo>> /\ pc[a][m] = "send"
    BY <1>7 DEF Send
  <2>2. k \in Pairs
    BY <2>1, CurPair
  <2>3. /\ Moved(a, m)
        /\ \/ ~webhook /\ pc'[a][m] \in {"open", "done"} /\ delivered' = delivered
           \/ pc'[a][m] = "unsent" /\ k \in everMuted /\ cur' = cur /\ delivered' = delivered
           \/ pc'[a][m] = "sent" /\ cur' = cur /\ delivered' = [delivered EXCEPT ![k] = now]
    BY <1>7, <2>1, NextMailFacts, OutcomeFacts DEF Send, StageInv
  <2>4. \A j \in Pairs : delivered[j] # Never => delivered'[j] # Never
    BY <2>2, <2>3, DeliveredStays
  <2>5. \A e \in Mails : Reporting(a, m, e) =>
          ~webhook \/ Reporting(a, m, e)' \/ delivered'[<<m, e>>] # Never \/ <<m, e>> \in everMuted
    BY <2>3 DEF Reporting
  <2>6. \A e \in found'[a] : clean[a] => e \in seen'[a] \/ e \in todo'[a][m]
                              \/ \E n \in Mailboxes \ {m} : e \in todo[a][n]
    BY <2>1 DEF CleanInv, CleanFor
  <2>7. pc'[a][m] = "unsent" => <<m, cur'[a][m]>> \in everMuted
    BY <2>3
  <2>8. CleanFor(a)'
    <3>1. CASE ~clean[a]
      BY <2>1, <3>1 DEF CleanFor
    <3>2. CASE clean[a]
      BY <2>1, <2>3, <2>4, <2>5, <2>6, <2>7, <3>2, CleanMove DEF CleanInv
    <3>. QED  BY <3>1, <3>2
  <2>. QED  BY <2>1, <2>3, <2>4, <2>8, CleanOthers
<1>8. ASSUME NEW a \in Actors, NEW m \in Mailboxes, SendFails(a, m) \/ MuteUnread(a, m)
      PROVE  CleanInv'
  <2>1. UNCHANGED <<seen, alerts, found, everMuted, webhook>> /\ Fault(a) /\ pc[a][m] = "send"
    BY <1>8 DEF SendFails, MuteUnread
  <2>2. Moved(a, m)
    BY <1>8, OutcomeFacts DEF SendFails, MuteUnread
  <2>3. <<m, cur[a][m]>> \in Pairs
    BY <2>1, CurPair
  <2>4. \A j \in Pairs : delivered[j] # Never => delivered'[j] # Never
    <3>1. delivered' = delivered \/ delivered' = [delivered EXCEPT ![<<m, cur[a][m]>>] = now]
      BY <1>8 DEF SendFails, MuteUnread
    <3>. QED  BY <2>3, <3>1, DeliveredStays
  <2>. QED  BY <2>1, <2>2, <2>4, CleanFault, CleanOthers
<1>9. ASSUME NEW a \in Actors, NEW m \in Mailboxes, Record(a, m)
      PROVE  CleanInv'
  <2>1. UNCHANGED <<seen, alerts, found, clean, delivered, everMuted, webhook, todo>>
        /\ pc[a][m] \in {"sent", "unsent"}
    BY <1>9 DEF Record
  <2>2. Moved(a, m) /\ pc'[a][m] \in {"open", "done"}
    BY <1>9, NextMailFacts DEF Record
  <2>3. \A e \in Mails : clean[a] /\ Reporting(a, m, e) =>
          delivered'[<<m, e>>] # Never \/ <<m, e>> \in everMuted
    BY <2>1 DEF Reporting, StageInv, CleanInv, CleanFor
  <2>4. \A e \in found'[a] : clean[a] => e \in seen'[a] \/ e \in todo'[a][m]
                              \/ \E n \in Mailboxes \ {m} : e \in todo[a][n]
    BY <2>1 DEF CleanInv, CleanFor
  <2>5. CleanFor(a)'
    <3>1. CASE ~clean[a]
      BY <2>1, <3>1 DEF CleanFor
    <3>2. CASE clean[a]
      BY <2>1, <2>2, <2>3, <2>4, <3>2, CleanMove DEF CleanInv
    <3>. QED  BY <3>1, <3>2
  <2>. QED  BY <2>1, <2>2, <2>5, CleanOthers
<1>10. ASSUME NEW a \in Actors, NEW m \in Mailboxes, RecordFails(a, m)
       PROVE  CleanInv'
  <2>1. UNCHANGED <<seen, alerts, found, delivered, everMuted, webhook>> /\ Fault(a)
    BY <1>10 DEF RecordFails
  <2>2. Moved(a, m)
    BY <1>10, NextMailFacts DEF RecordFails
  <2>. QED  BY <2>1, <2>2, CleanFault, CleanOthers
<1>11. CASE AddEmailSuppression
  <2>1. UNCHANGED <<pc, cur, todo, seen, alerts, found, clean, delivered, webhook>> /\ everMuted \subseteq everMuted'
    BY <1>11 DEF AddEmailSuppression
  <2>. QED  BY <2>1 DEF CleanInv, CleanFor, Reporting, DryRun
<1>12. CASE DeleteEmailSuppression \/ Arrive \/ Tick \/ UNCHANGED vars
  <2>1. UNCHANGED <<pc, cur, todo, seen, alerts, found, clean, delivered, webhook, everMuted>>
    BY <1>12 DEF DeleteEmailSuppression, Arrive, Tick, vars
  <2>. QED  BY <2>1 DEF CleanInv, CleanFor, Reporting, DryRun
<1>13. CASE Restart
  <2>1. \A b \in Actors : found'[b] = {} /\ alerts'[b] = {} /\ \A n \in Mailboxes : pc'[b][n] = "idle"
    BY <1>13 DEF Restart
  <2>. QED  BY <2>1 DEF CleanInv, CleanFor
<1>. QED  BY <1>1, <1>2, <1>3, <1>4, <1>5, <1>6, <1>7, <1>8, <1>9, <1>10, <1>11, <1>12, <1>13 DEF Next

-------------------------------------------------------------------------------
(* Theorems                                                                 *)

\* The inductive invariant of the scans: which mails each mailbox of a round has
\* claimed, fetched, stored and reported, and which entries defend the de-duplication
\* window, for any mailboxes, mails, overlapping scans, failures and restarts
\* (ScanMailboxes, scanMailbox and seenSet).
THEOREM Invariance == Spec => []Inv
<1>1. Inv /\ [Next]_vars => Inv'
  BY TypeStep, SeenStep, StageStep, RepeatStep, CleanStep DEF Inv
<1>. QED  BY InvInit, <1>1, PTL DEF Spec

\* Every variable stays in its type, whichever scans and failures overlap.
THEOREM TypeCorrect == Spec => []TypeOK
<1>1. Inv => TypeOK
  BY DEF Inv
<1>. QED  BY <1>1, Invariance, PTL

\* A mail copied to several mailboxes has one entry on the page, whichever workers
\* met it at the same time (seenSet.mark).
THEOREM OneEntry == Spec => []OneEntryPerMail
<1>1. Inv => OneEntryPerMail
  BY DEF Inv
<1>. QED  BY <1>1, Invariance, PTL

\* A mail is not posted again for the same mailbox within the window of the scan,
\* unless its de-duplication has been defeated (HasRecentEmailAlert, SaveEmailAlert).
THEOREM NoRepeat == Spec => []NoRepeatWithinWindow
<1>1. Inv => NoRepeatWithinWindow
  BY DEF Inv
<1>. QED  BY <1>1, Invariance, PTL

\* A scan that ends without a failure has every billing mail it found on the page,
\* and each of them accepted by the webhook, or muted (ScanMailboxes).
THEOREM CleanScans == Spec => CleanScanReports
<1>1. ASSUME Inv, NEW a \in Actors, SetEmailScan(a), clean[a], NEW e \in found[a] \cap Matching
      PROVE  /\ \E m \in Mailboxes : <<m, e>> \in alerts[a]
             /\ DryRun(a) \/ ~webhook
                \/ \E m \in Mailboxes : delivered[<<m, e>>] # Never \/ <<m, e>> \in everMuted
  <2>1. \A m \in Mailboxes : pc[a][m] = "done" /\ todo[a][m] = {}
    BY <1>1 DEF SetEmailScan, Inv, StageInv
  <2>2. e \in seen[a] \cap Matching
    BY <1>1, <2>1 DEF Inv, CleanInv, CleanFor
  <2>3. PICK m \in Mailboxes : <<m, e>> \in alerts[a]
    BY <1>1, <2>2 DEF Inv, SeenInv
  <2>4. e \in Mails /\ ~Reporting(a, m, e)
    BY <2>1, Basics, StageNames DEF Reporting
  <2>. QED  BY <1>1, <2>3, <2>4 DEF Inv, CleanInv, CleanFor
<1>2. Inv /\ [Next]_vars =>
        [\A a \in Actors :
           (SetEmailScan(a) /\ clean[a]) =>
             \A e \in found[a] \cap Matching :
               /\ \E m \in Mailboxes : <<m, e>> \in alerts[a]
               /\ DryRun(a) \/ ~webhook \/ \E m \in Mailboxes : delivered[<<m, e>>] # Never \/ <<m, e>> \in everMuted]_vars
  BY <1>1
<1>. QED  BY <1>2, Invariance, PTL DEF Spec, CleanScanReports

===============================================================================

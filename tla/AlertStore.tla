------------------------------ MODULE AlertStore ------------------------------
(***************************************************************************)
(* The part of the store the alert cooldowns read and write: the table     *)
(* alert_history of the SQL store, or the map `sent' of the Volatile store *)
(* that stands in when the database is off (src/internal/store).           *)
(*                                                                         *)
(* A row is one recorded delivery attempt.  Its key is what the callers    *)
(* pass as (AlertID, AlertType).  Rows of one key, status and clock tick   *)
(* coincide: the tick is the model's resolution of the timestamp column.   *)
(***************************************************************************)
EXTENDS Integers, FiniteSets

CONSTANTS
  Persistent,   \* TRUE: SQL store.  FALSE: Volatile store
  RowLimit,     \* rows LastSentAlert reads of one key (50 in the code)
  Day,          \* ticks in a day
  Retention     \* ticks a row is kept: HISTORY_RETENTION_DAYS or volatileRetention

ASSUME StoreAssumption ==
  /\ Persistent \in BOOLEAN
  /\ RowLimit \in Nat \ {0}
  /\ Day \in Nat \ {0}
  /\ Retention \in Nat

Statuses == {"sent", "failed"}

Row(key, status, at) == [key |-> key, status |-> status, at |-> at]

\* Mutant: the query lists the oldest rows first.
RecentAlertsOldestFirst(rows, key, window, now) ==
  {r \in rows :
     /\ r.key = key
     /\ r.at >= now - window
     /\ Cardinality({n \in rows : n.key = key /\ n.at < r.at}) < RowLimit}

\* The rows of `key' an SQL query over the last `window' ticks returns when it
\* is ordered by timestamp and cut at RowLimit rows.
RecentAlerts(rows, key, window, now) ==
  {r \in rows :
     /\ r.key = key
     /\ r.at >= now - window
     /\ Cardinality({n \in rows : n.key = key /\ n.at > r.at}) < RowLimit}

\* When an alert of this key was recorded as sent, as far as LastSentAlert sees
\* it.  The code returns the newest of these times or nil; the callers only ask
\* whether it is less than a cooldown ago, so the set says as much.  The SQL
\* store looks back a whole number of days, at least `within'.
LastSentAlert(rows, key, within, now) ==
  IF within <= 0 THEN {}
  ELSE LET window == IF Persistent THEN (within \div Day + 1) * Day ELSE within
       IN  {r.at : r \in {x \in RecentAlerts(rows, key, window, now) : x.status = "sent"}}

\* Is there a sent row in the trailing window?  Unlike LastSentAlert this
\* counts over every row, and a row exactly `within' old still counts.
HasRecentAlert(rows, key, within, now) ==
  /\ within > 0
  /\ \E r \in rows : r.key = key /\ r.status = "sent" /\ r.at >= now - within

\* Mutant: a failed send is recorded as a sent one.
SaveAlertAnyStatus(rows, key, status, now) ==
  IF Persistent THEN rows \cup {Row(key, "sent", now)}
  ELSE {r \in rows : r.key # key /\ now - r.at <= Retention} \cup {Row(key, "sent", now)}

\* Mutant: without a database nothing is remembered.
SaveAlertNull(rows, key, status, now) ==
  IF Persistent THEN rows \cup {Row(key, status, now)} ELSE rows

\* The SQL store appends whatever it is given.  The Volatile store keeps one
\* entry per key, ignores failed sends and prunes what is past its retention.
SaveAlert(rows, key, status, now) ==
  IF Persistent THEN rows \cup {Row(key, status, now)}
  ELSE IF status # "sent" THEN rows
  ELSE {r \in rows : r.key # key /\ now - r.at <= Retention} \cup {Row(key, status, now)}

\* The alert_history share of the daily history_retention sweep.
PruneHistoryBefore(rows, cutoff) == {r \in rows : r.at >= cutoff}

===============================================================================

-------------------------------- MODULE Tables --------------------------------
(***************************************************************************)
(* The SQL statements of the store, for each of its three engines          *)
(* (src/internal/store/sqlc).  Each engine has its own set of statements:  *)
(* SQLite and PostgreSQL write ON CONFLICT, MySQL ON DUPLICATE KEY, and    *)
(* MySQL compares text under a case-insensitive collation.                 *)
(*                                                                         *)
(* A configuration table is a set of rows: the UNIQUE key (a sequence of    *)
(* columns) and the other columns.  A history table is a set of rows with  *)
(* a timestamp.                                                            *)
(***************************************************************************)
EXTENDS Integers, FiniteSets, Sequences

CONSTANT
  Folded   \* what MySQL's collation compares: [texts -> texts]

Engines == {"sqlite", "postgres", "mysql"}

ProjectColumns == {"owner_project", "provider", "api_key", "threshold", "type",
                   "currency", "monthly_budget", "enabled", "updated_at"}
SubscriptionColumns == {"owner_project", "cycle_type", "renewal_day", "alert_days_before",
                        "amount", "enabled", "last_renewed_date", "updated_at"}
MailboxColumns == {"host", "port", "username", "password", "use_ssl", "enabled", "updated_at"}
PlatformColumns ==
  {"display_name", "url", "auth_mode", "auth_param", "default_type", "currency",
   "balance_path", "balance_scale", "success_path", "success_values", "error_path",
   "subtract_path", "extract_mode", "window_types", "window_reset_hours",
   "extra_params", "sign_region", "sign_service", "updated_at"}
UsageColumns == {"cost", "currency", "input_tokens", "output_tokens", "requests", "updated_at"}
DeviceColumns == {"p256dh", "auth", "created_at"}

\* The columns only an UPDATE of their own writes.
SettingColumns == [subscription_config |-> {"snoozed_until", "timezone", "webhook_url"}]

\* The one column of app_settings, the same on every engine.
SettingColumn == {"setting_value"}

\* Only the configuration tables remember when a row was first written.
Created == {"custom_provider_config", "email_config", "project_config", "subscription_config"}

\* What each engine's upsert writes over the row it finds.
SqliteConfigUpsert ==
  [custom_provider_config |-> PlatformColumns, email_config |-> MailboxColumns,
   project_config |-> ProjectColumns]
SqliteStateUpsert ==
  [push_subscriptions |-> DeviceColumns, subscription_config |-> SubscriptionColumns,
   usage_events |-> UsageColumns]
PostgresConfigUpsert ==
  [custom_provider_config |-> PlatformColumns, email_config |-> MailboxColumns,
   project_config |-> ProjectColumns]
PostgresStateUpsert ==
  [push_subscriptions |-> DeviceColumns, subscription_config |-> SubscriptionColumns,
   usage_events |-> UsageColumns]
MysqlConfigUpsert ==
  [custom_provider_config |-> PlatformColumns, email_config |-> MailboxColumns,
   project_config |-> ProjectColumns]

\* Mutant: MySQL's statement leaves the renewal mark of the row it finds.
MysqlStateUpsertForgets ==
  [push_subscriptions |-> DeviceColumns,
   subscription_config |-> SubscriptionColumns \ {"last_renewed_date"},
   usage_events |-> UsageColumns]

MysqlStateUpsert ==
  [push_subscriptions |-> DeviceColumns, subscription_config |-> SubscriptionColumns,
   usage_events |-> UsageColumns]

Written(engine, table) ==
  LET config == CASE engine = "sqlite" -> SqliteConfigUpsert
                  [] engine = "postgres" -> PostgresConfigUpsert
                  [] OTHER -> MysqlConfigUpsert
      state == CASE engine = "sqlite" -> SqliteStateUpsert
                 [] engine = "postgres" -> PostgresStateUpsert
                 [] OTHER -> MysqlStateUpsert
  IN  IF table = "app_settings" THEN SettingColumn
      ELSE IF table \in DOMAIN config THEN config[table] ELSE state[table]

\* utf8mb4_unicode_ci of the MySQL schema; the other engines compare bytes.
Same(engine, k, l) ==
  IF engine = "mysql" THEN [i \in DOMAIN k |-> Folded[k[i]]] = [i \in DOMAIN l |-> Folded[l[i]]]
  ELSE k = l

Match(engine, rows, key) == {r \in rows : Same(engine, r.key, key)}

\* A row as the INSERT writes it: `tag' in every column it names.
Inserted(engine, table, key, tag) ==
  LET settings == IF table \in DOMAIN SettingColumns THEN SettingColumns[table] ELSE {}
      created == IF table \in Created THEN {"created_at"} ELSE {}
  IN  [key |-> key,
       cols |-> [c \in Written(engine, table) \cup settings \cup created |->
                   IF c \in settings THEN 0 ELSE tag]]

\* INSERT ... ON CONFLICT (key) DO UPDATE.  The row keeps its key as first
\* written, its created_at and the columns the statement does not set.
Upsert(engine, table, rows, key, tag) ==
  IF Match(engine, rows, key) = {}
  THEN rows \cup {Inserted(engine, table, key, tag)}
  ELSE {IF Same(engine, r.key, key)
        THEN [r EXCEPT !.cols = [c \in DOMAIN @ |-> IF c \in Written(engine, table) THEN tag ELSE @[c]]]
        ELSE r : r \in rows}

\* INSERT ... ON CONFLICT DO NOTHING, INSERT IGNORE.
AddEmailSuppression(engine, rows, pair) ==
  IF Match(engine, rows, pair) = {} THEN rows \cup {[key |-> pair, cols |-> <<>>]} ELSE rows

\* DELETE FROM ... WHERE name = ?, for each of the tables with a key.
DeleteRow(engine, rows, key) == rows \ Match(engine, rows, key)

\* The single-column UPDATEs: snooze, password, API key, time zone, webhook.
SetColumn(engine, rows, key, column, tag) ==
  {IF Same(engine, r.key, key) THEN [r EXCEPT !.cols[column] = tag] ELSE r : r \in rows}

(***************************************************************************)
(* History.  Rows are appended and carry a timestamp.                      *)
(***************************************************************************)
HistoryRow(source, n, key, kind, at) ==
  [source |-> source, n |-> n, key |-> key, kind |-> kind, at |-> at]

InsertHistory(rows, source, key, kind, at) ==
  rows \cup {HistoryRow(source, 1 + Cardinality({r \in rows : r.source = source}), key, kind, at)}

\* ORDER BY timestamp DESC LIMIT n: the answers an engine may give, which
\* differ in the rows it picks among those with the last timestamp.
Newest(rows, limit) ==
  {S \in SUBSET rows :
     /\ Cardinality(S) = IF Cardinality(rows) < limit THEN Cardinality(rows) ELSE limit
     /\ \A s \in S, r \in rows \ S : r.at <= s.at}

Rows(rows, source, since, key, kind) ==
  {r \in rows : /\ r.source = source
                /\ r.at >= since
                /\ key = "" \/ r.key = key
                /\ kind = "" \/ r.kind = kind}

ListAlertHistory(rows, since, project, type, limit) ==
  Newest(Rows(rows, "alert", since, project, type), limit)
ListBalanceHistory(rows, since, project, provider, limit) ==
  Newest(Rows(rows, "balance", since, project, provider), limit)
ListEmailAlertHistory(rows, since, mailbox, limit) ==
  Newest(Rows(rows, "email", since, mailbox, ""), limit)

CountAlerts(rows, since) == Cardinality(Rows(rows, "alert", since, "", ""))
CountAlertsByType(rows, since) ==
  LET seen == Rows(rows, "alert", since, "", "")
  IN  [t \in {r.kind : r \in seen} |-> Cardinality({r \in seen : r.kind = t})]
===============================================================================

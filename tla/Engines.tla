-------------------------------- MODULE Engines --------------------------------
(***************************************************************************)
(* The same statements sent to one database of each engine.  The three     *)
(* sets of statements are written separately; whichever engine a           *)
(* deployment chose, the program must read back the same configuration.    *)
(***************************************************************************)
EXTENDS Tables

CONSTANTS
  Spellings,     \* the texts a key column may hold
  TableNames,    \* the tables the statements of a behaviour are about
  MaxStatements

VARIABLES
  focus,      \* the table the statements of this behaviour are about
  content,    \* [Engines -> set of rows]
  named,      \* history: the keys the statements named
  statements  \* how many were sent

tblVars == <<focus, content, named, statements>>

\* The keys of a table: one name, a pair of addresses, or the identity of a cell.
Keys(table) ==
  CASE table = "email_suppressions" -> {<<a, b>> : a, b \in Spellings}
    [] table = "usage_events" -> {<<s, p, d, m>> : s, p, d, m \in Spellings}
    [] OTHER -> {<<a>> : a \in Spellings}

TblInit ==
  /\ focus \in TableNames
  /\ content = [e \in Engines |-> {}]
  /\ named = {}
  /\ statements = 0

\* One statement, sent to each of the three databases.
Send(key, Statement(_, _)) ==
  /\ statements < MaxStatements
  /\ statements' = statements + 1
  /\ content' = [e \in Engines |-> Statement(e, content[e])]
  /\ named' = named \cup {key}
  /\ UNCHANGED focus

\* Values differ from statement to statement, so a column shows who wrote it.
Tag == statements + 1

UpsertStatement == \E k \in Keys(focus) :
  /\ focus # "email_suppressions"
  /\ LET S(e, rows) == Upsert(e, focus, rows, k, Tag) IN Send(k, S)

IgnoreStatement == \E k \in Keys(focus) :
  /\ focus = "email_suppressions"
  /\ LET S(e, rows) == AddEmailSuppression(e, rows, k) IN Send(k, S)

DeleteStatement == \E k \in Keys(focus) :
  /\ focus \notin {"app_settings", "usage_events"}
  /\ LET S(e, rows) == DeleteRow(e, rows, k) IN Send(k, S)

UpdateStatement == \E k \in Keys(focus) :
  /\ focus \in {"subscription_config", "email_config", "project_config"}
  /\ \E c \in (CASE focus = "subscription_config" -> SettingColumns[focus]
                 [] focus = "email_config" -> {"password"}
                 [] OTHER -> {"api_key"}) :
       LET S(e, rows) == SetColumn(e, rows, k, c, Tag) IN Send(k, S)

TblNext == UpsertStatement \/ IgnoreStatement \/ DeleteStatement \/ UpdateStatement

TblSpec == TblInit /\ [][TblNext]_tblVars

\* No two rows of a table answer to one key, whichever engine compares it:
\* every statement that names a key finds at most one row.
OneRowPerKey ==
  \A e \in Engines : \A r \in content[e] : Cardinality(Match(e, content[e], r.key)) = 1

\* After any statements whose keys no collation confuses,
\* the three databases read the same, whatever columns the statements touch.
SameRows ==
  LET confused == \E k, l \in named : k # l /\ Same("mysql", k, l)
  IN  /\ content["sqlite"] = content["postgres"]
      /\ confused \/ content["mysql"] = content["sqlite"]

\* The engines agree: the same statements leave the same rows on all three, and
\* on none of them two rows that answer to one key.
EnginesAgree == OneRowPerKey /\ SameRows
===============================================================================

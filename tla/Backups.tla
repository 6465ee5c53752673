------------------------------- MODULE Backups --------------------------------
(***************************************************************************)
(* The daily copy of the SQLite database (src/internal/store/sql.go,       *)
(* Backup): VACUUM INTO a new file, check that the file is a readable      *)
(* database, then remove the oldest files.  The process may crash at any   *)
(* step, which leaves the file as it is, and a copy that fails may leave   *)
(* part of a file.  Files are named after the second they are begun in and *)
(* their names sort like the times.                                        *)
(***************************************************************************)
EXTENDS Integers, FiniteSets, FiniteSetsExt

CONSTANTS
  BackupKeep,        \* DB_BACKUP_KEEP
  MaxBackupTime, MaxBackupFaults

ASSUME BackupAssumption ==
  /\ BackupKeep \in Int
  /\ MaxBackupTime \in Nat \ {0}
  /\ MaxBackupFaults \in Nat

VARIABLES
  copyTime,
  files,        \* [at, whole]: what is in the backup directory
  copying,      \* the backup in progress: [pc, at]
  copyFaults,
  claimed       \* history: the time of the last backup that was reported as written, or 0

backupVars == <<copyTime, files, copying, copyFaults, claimed>>

NoCopy == [pc |-> "idle", at |-> 0]
CopyFault == copyFaults < MaxBackupFaults /\ copyFaults' = copyFaults + 1

BackupInit ==
  /\ copyTime = 1
  /\ files = {} /\ claimed = 0
  /\ copying = NoCopy
  /\ copyFaults = 0

Keeps == IF BackupKeep < 1 THEN 1 ELSE BackupKeep

\* The name is taken when the backup begins.
BeginBackup ==
  /\ copying.pc = "idle"
  /\ copying' = [pc |-> "copy", at |-> copyTime]
  /\ UNCHANGED <<copyTime, files, copyFaults, claimed>>

\* VACUUM INTO refuses a file that exists; one that fails may leave a part.
VacuumInto ==
  LET taken == \E f \in files : f.at = copying.at
  IN  /\ copying.pc = "copy"
      /\ \/ /\ ~taken
            /\ files' = files \cup {[at |-> copying.at, whole |-> TRUE]}
            /\ copying' = [copying EXCEPT !.pc = "verify"]
            /\ UNCHANGED copyFaults
         \/ /\ taken
            /\ copying' = NoCopy
            /\ UNCHANGED <<files, copyFaults>>
         \/ /\ ~taken /\ CopyFault
            /\ files' \in {files, files \cup {[at |-> copying.at, whole |-> FALSE]}}
            /\ copying' = NoCopy
      /\ UNCHANGED <<copyTime, claimed>>

\* A copy that is reported as written may have been damaged all the same.
Damage ==
  /\ copying.pc = "verify" /\ CopyFault
  /\ files' = {f \in files : f.at # copying.at} \cup {[at |-> copying.at, whole |-> FALSE]}
  /\ UNCHANGED <<copyTime, copying, claimed>>

Oldest(S, n) ==
  {f \in S : Cardinality({g \in S : g.at < f.at}) < n}

\* pruneBackups: the oldest files by name, whatever is in them.
pruneBackups(S) == S \ Oldest(S, Cardinality(S) - Keeps)

\* Mutant: the old files make room before the new one is checked.
verifyBackupPruned ==
  LET target == {f \in files : f.at = copying.at}
  IN  /\ copying.pc = "verify"
      /\ IF \A f \in target : f.whole
         THEN files' = pruneBackups(files) /\ copying' = [copying EXCEPT !.pc = "prune"]
         ELSE files' = pruneBackups(files) \ target /\ copying' = NoCopy
      /\ UNCHANGED <<copyTime, copyFaults, claimed>>

\* A copy that does not answer quick_check is removed.
verifyBackup ==
  LET target == {f \in files : f.at = copying.at}
  IN  /\ copying.pc = "verify"
      /\ IF \A f \in target : f.whole
         THEN copying' = [copying EXCEPT !.pc = "prune"] /\ UNCHANGED files
         ELSE files' = files \ target /\ copying' = NoCopy
      /\ UNCHANGED <<copyTime, copyFaults, claimed>>

Prune ==
  /\ copying.pc = "prune"
  /\ files' = pruneBackups(files)
  /\ claimed' = copying.at
  /\ copying' = NoCopy
  /\ UNCHANGED <<copyTime, copyFaults>>

\* The process dies, in the middle of a copy too.
CrashBackup ==
  /\ copying.pc # "idle" /\ CopyFault
  /\ files' \in IF copying.pc = "copy" /\ ~\E f \in files : f.at = copying.at
                THEN {files, files \cup {[at |-> copying.at, whole |-> FALSE]}} ELSE {files}
  /\ copying' = NoCopy
  /\ UNCHANGED <<copyTime, claimed>>

CopyTick ==
  /\ copyTime < MaxBackupTime
  /\ copyTime' = copyTime + 1
  /\ UNCHANGED <<files, copying, copyFaults, claimed>>

BackupNext == BeginBackup \/ VacuumInto \/ Damage \/ verifyBackup \/ Prune \/ CrashBackup \/ CopyTick

BackupSpec == BackupInit /\ [][BackupNext]_backupVars

\* A backup that was reported as written is there, whole, until a newer one is:
\* no crash, failed copy or damaged one after it takes the last good copy away.
LastBackupStays == claimed # 0 => \E f \in files : f.whole /\ f.at >= claimed
===============================================================================

----------------------------- MODULE StoreProofs -----------------------------
(***************************************************************************)
(* Proofs about what the store keeps: the daily copies (Backups), whatever *)
(* the number of files that are kept, of backups and of faults; the        *)
(* encrypted columns (Secrets), for every set of secrets and keys; the     *)
(* rows of the three engines (Engines), for every table, key and collation;*)
(* and what an agent is told of the past (History), for every limit, range *)
(* and tool.                                                               *)
(***************************************************************************)
EXTENDS Backups, Secrets, Engines, History, FiniteSetTheorems, SequenceTheorems,
        WellFoundedInduction, TLAPS

-------------------------------------------------------------------------------
(* Backups: the invariant                                                   *)

BackupFiles == [at : Nat \ {0}, whole : BOOLEAN]

BackupTypeOK ==
  /\ copyTime \in Nat \ {0}
  /\ files \subseteq BackupFiles /\ IsFiniteSet(files)
  /\ copying \in [pc : {"idle", "copy", "verify", "prune"}, at : Nat]
  /\ copyFaults \in Nat
  /\ claimed \in Nat

Target == {f \in files : f.at = copying.at}

\* The names are those of seconds gone by, one file to a name.
NamesInv ==
  /\ \A f \in files : f.at <= copyTime
  /\ \A f, g \in files : f.at = g.at => f = g
  /\ copying.pc # "idle" =>
       /\ copying.at \in 1..copyTime /\ claimed <= copying.at
       /\ \A f \in files : f.at <= copying.at
  /\ claimed <= copyTime

\* The copy that is checked has a file; once checked it is whole.
CopyInv ==
  copying.pc \in {"verify", "prune"} =>
    /\ Target # {}
    /\ copying.pc = "prune" => \A f \in Target : f.whole

\* The last good copy is not the one that is still being checked.
LastInv ==
  claimed # 0 =>
    \E f \in files : f.whole /\ f.at >= claimed
                     /\ (copying.pc \in {"verify", "prune"} => f.at # copying.at)

BackupInv == BackupTypeOK /\ NamesInv /\ CopyInv /\ LastInv

-------------------------------------------------------------------------------
\* Pruning never takes the newest file, however few are to be kept.
LEMMA NewestIsKept ==
  ASSUME NEW S \in SUBSET BackupFiles, IsFiniteSet(S), NEW f \in S,
         \A g \in S : g.at <= f.at /\ (g.at = f.at => g = f)
  PROVE  f \in pruneBackups(S)
<1> DEFINE older == {g \in S : g.at < f.at}
           keep == Keeps
<1>1. older = S \ {f}
  BY DEF BackupFiles
<1>2. IsFiniteSet(S \ {f}) /\ Cardinality(S \ {f}) = Cardinality(S) - 1
  BY FS_RemoveElement
<1>3. Cardinality(S) \in Nat
  BY FS_CardinalityType
<1>4. keep \in Int /\ keep >= 1
  BY BackupAssumption DEF Keeps
<1>5. Cardinality(older) = Cardinality(S) - 1
  BY <1>1, <1>2
<1> HIDE DEF keep, older
<1>6. ~(Cardinality(older) < Cardinality(S) - keep)
  BY <1>3, <1>4, <1>5
<1>. QED  BY <1>6 DEF pruneBackups, Oldest, older, keep

\* The invariant holds before the first backup.
LEMMA BackupInvInit == BackupInit => BackupInv
BY FS_EmptySet DEF BackupInit, BackupInv, BackupTypeOK, NamesInv, CopyInv, LastInv, NoCopy, Target, BackupFiles

\* A file that is whole or partial is added under the name of a backup that has none.
LEMMA AddFile ==
  ASSUME BackupInv, copying.pc = "copy", ~ \E f \in files : f.at = copying.at, NEW w \in BOOLEAN,
         files' = files \cup {[at |-> copying.at, whole |-> w]}, copyTime' = copyTime
  PROVE  /\ files' \subseteq BackupFiles /\ IsFiniteSet(files')
         /\ \A f \in files' : f.at <= copying.at
         /\ \A f, g \in files' : f.at = g.at => f = g
         /\ [at |-> copying.at, whole |-> w] \in files' /\ \A f \in files' : f.at = copying.at => f.whole = w
<1>1. [at |-> copying.at, whole |-> w] \in BackupFiles
  BY DEF BackupInv, BackupTypeOK, NamesInv, BackupFiles
<1>2. IsFiniteSet(files')
  BY FS_AddElement DEF BackupInv, BackupTypeOK
<1>. QED  BY <1>1, <1>2 DEF BackupInv, BackupTypeOK, NamesInv

\* A copy that ends early leaves the files as they were or a part of its own.
LEMMA AbandonedCopy ==
  ASSUME BackupInv, copying' = NoCopy, UNCHANGED <<copyTime, claimed>>,
         \/ files' = files
         \/ /\ copying.pc = "copy" /\ ~ \E f \in files : f.at = copying.at
            /\ files' = files \cup {[at |-> copying.at, whole |-> FALSE]}
  PROVE  files' \subseteq BackupFiles /\ IsFiniteSet(files') /\ NamesInv'
<1>1. CASE files' = files
  BY <1>1 DEF NoCopy, BackupInv, NamesInv, BackupTypeOK
<1>2. CASE /\ copying.pc = "copy" /\ ~ \E f \in files : f.at = copying.at
           /\ files' = files \cup {[at |-> copying.at, whole |-> FALSE]}
  <2>1. /\ files' \subseteq BackupFiles /\ IsFiniteSet(files')
        /\ \A f \in files' : f.at <= copying.at
        /\ \A f, g \in files' : f.at = g.at => f = g
    BY <1>2, AddFile
  <2>2. \A f \in files' : f.at <= copyTime
    BY <1>2, <2>1 DEF BackupInv, NamesInv, BackupTypeOK, BackupFiles
  <2>. QED  BY <2>1, <2>2 DEF NoCopy, BackupInv, NamesInv
<1>. QED  BY <1>1, <1>2

\* Fewer files.
LEMMA LessFiles ==
  ASSUME BackupInv, NEW S \in SUBSET files
  PROVE  /\ S \subseteq BackupFiles /\ IsFiniteSet(S)
         /\ \A f \in S : f.at <= copyTime
         /\ \A f, g \in S : f.at = g.at => f = g
BY FS_Subset DEF BackupInv, BackupTypeOK, NamesInv

\* Every step of a backup, a fault, a crash and time keep the invariant.
LEMMA BackupStep ==
  ASSUME BackupInv, [BackupNext]_backupVars
  PROVE  BackupInv'
<1> USE DEF BackupInv
<1>1. CASE BeginBackup
  BY <1>1 DEF BeginBackup, BackupTypeOK, NamesInv, CopyInv, LastInv
<1>2. CASE VacuumInto
  <2>1. copying.pc = "copy" /\ copyTime' = copyTime /\ claimed' = claimed
    BY <1>2 DEF VacuumInto
  <2>2. CASE /\ ~ \E f \in files : f.at = copying.at
             /\ files' = files \cup {[at |-> copying.at, whole |-> TRUE]}
             /\ copying' = [copying EXCEPT !.pc = "verify"]
             /\ UNCHANGED copyFaults
    <3>1. copying'.pc = "verify" /\ copying'.at = copying.at /\ copying' \in [pc : {"idle", "copy", "verify", "prune"}, at : Nat]
      BY <2>2 DEF BackupTypeOK
    <3>2. /\ files' \subseteq BackupFiles /\ IsFiniteSet(files')
          /\ \A f \in files' : f.at <= copying.at
          /\ \A f, g \in files' : f.at = g.at => f = g
          /\ [at |-> copying.at, whole |-> TRUE] \in files'
      BY <2>1, <2>2, AddFile
    <3>3. BackupTypeOK'
      BY <2>1, <2>2, <3>1, <3>2 DEF BackupTypeOK
    <3>4. \A f \in files' : f.at <= copyTime
      BY <2>1, <3>2 DEF NamesInv, BackupTypeOK, BackupFiles
    <3>5. NamesInv'
      BY <2>1, <3>1, <3>2, <3>4 DEF NamesInv
    <3>6. CopyInv'
      BY <2>1, <3>1, <3>2 DEF CopyInv, Target
    <3>7. LastInv'
      BY <2>1, <2>2, <3>1 DEF LastInv
    <3>. QED  BY <3>3, <3>5, <3>6, <3>7
  <2>3. CASE copying' = NoCopy /\ UNCHANGED <<files, copyFaults>>
    BY <2>1, <2>3 DEF NoCopy, BackupTypeOK, NamesInv, CopyInv, LastInv
  <2>4. CASE /\ ~ \E f \in files : f.at = copying.at
             /\ CopyFault
             /\ files' \in {files, files \cup {[at |-> copying.at, whole |-> FALSE]}}
             /\ copying' = NoCopy
    <3>1. files' \subseteq BackupFiles /\ IsFiniteSet(files') /\ NamesInv'
      BY <2>1, <2>4, AbandonedCopy
    <3>2. LastInv'
      BY <2>1, <2>4 DEF LastInv, NoCopy
    <3>. QED  BY <2>1, <2>4, <3>1, <3>2 DEF NoCopy, CopyFault, BackupTypeOK, CopyInv
  <2>. QED  BY <1>2, <2>1, <2>2, <2>3, <2>4 DEF VacuumInto
<1>3. CASE Damage
  <2> DEFINE kept == {f \in files : f.at # copying.at}
             broken == [at |-> copying.at, whole |-> FALSE]
  <2>1. copying.pc = "verify" /\ files' = kept \cup {broken} /\ CopyFault
        /\ UNCHANGED <<copyTime, copying, claimed>>
    BY <1>3 DEF Damage
  <2>2. kept \subseteq BackupFiles /\ IsFiniteSet(kept)
    BY LessFiles
  <2>3. broken \in BackupFiles /\ broken.at = copying.at
    BY <2>1 DEF BackupFiles, NamesInv, BackupTypeOK
  <2> HIDE DEF broken
  <2>4. BackupTypeOK'
    BY <2>1, <2>2, <2>3, FS_AddElement DEF BackupTypeOK, CopyFault
  <2>5. NamesInv'
    BY <2>1, <2>3 DEF NamesInv, BackupTypeOK
  <2>6. CopyInv' /\ LastInv'
    BY <2>1, <2>3 DEF CopyInv, LastInv, Target
  <2>. QED  BY <2>4, <2>5, <2>6
<1>4. CASE verifyBackup
  <2>1. copying.pc = "verify" /\ UNCHANGED <<copyTime, copyFaults, claimed>>
    BY <1>4 DEF verifyBackup
  <2>2. CASE (\A f \in Target : f.whole) /\ copying' = [copying EXCEPT !.pc = "prune"] /\ UNCHANGED files
    BY <2>1, <2>2 DEF BackupTypeOK, NamesInv, CopyInv, LastInv, Target
  <2>3. CASE files' = files \ Target /\ copying' = NoCopy
    <3>1. files' \subseteq BackupFiles /\ IsFiniteSet(files')
      BY <2>3, LessFiles
    <3>. QED  BY <2>1, <2>3, <3>1 DEF NoCopy, BackupTypeOK, NamesInv, CopyInv, LastInv, Target
  <2>. QED  BY <1>4, <2>2, <2>3 DEF verifyBackup, Target
<1>5. CASE Prune
  <2>1. copying.pc = "prune" /\ files' = pruneBackups(files) /\ claimed' = copying.at
        /\ copying' = NoCopy /\ UNCHANGED <<copyTime, copyFaults>>
    BY <1>5 DEF Prune
  <2>2. files' \subseteq files
    BY <2>1 DEF pruneBackups
  <2>3. files' \subseteq BackupFiles /\ IsFiniteSet(files')
    BY <2>2, LessFiles
  <2>4. PICK f \in Target : f.whole
    BY <2>1 DEF CopyInv
  <2>5. f \in files /\ f.at = copying.at
    BY DEF Target
  <2>6. \A g \in files : g.at <= f.at /\ (g.at = f.at => g = f)
    BY <2>1, <2>5 DEF NamesInv
  <2>7. f \in files'
    BY <2>1, <2>5, <2>6, NewestIsKept DEF BackupTypeOK
  <2>8. copying.at \in 1..copyTime
    BY <2>1 DEF NamesInv
  <2>9. BackupTypeOK' /\ NamesInv' /\ CopyInv'
    BY <2>1, <2>2, <2>3, <2>8 DEF NoCopy, BackupTypeOK, NamesInv, CopyInv
  <2>10. LastInv'
    BY <2>1, <2>4, <2>5, <2>7, <2>8 DEF LastInv, NoCopy
  <2>. QED  BY <2>9, <2>10
<1>6. CASE CrashBackup
  <2>1. CopyFault /\ copying' = NoCopy /\ UNCHANGED <<copyTime, claimed>>
        /\ \/ files' = files
           \/ /\ copying.pc = "copy" /\ ~ \E f \in files : f.at = copying.at
              /\ files' = files \cup {[at |-> copying.at, whole |-> FALSE]}
    BY <1>6 DEF CrashBackup
  <2>2. files' \subseteq BackupFiles /\ IsFiniteSet(files') /\ NamesInv'
    BY <2>1, AbandonedCopy
  <2>3. LastInv'
    BY <2>1 DEF LastInv, NoCopy
  <2>. QED  BY <2>1, <2>2, <2>3 DEF NoCopy, CopyFault, BackupTypeOK, CopyInv
<1>7. CASE CopyTick
  <2>1. copyTime' = copyTime + 1 /\ UNCHANGED <<files, copying, copyFaults, claimed>>
    BY <1>7 DEF CopyTick
  <2>2. BackupTypeOK' /\ CopyInv' /\ LastInv'
    BY <2>1 DEF BackupTypeOK, CopyInv, LastInv, Target
  <2>3. NamesInv'
    BY <2>1 DEF NamesInv, BackupTypeOK, BackupFiles
  <2>. QED  BY <2>2, <2>3
<1>8. CASE UNCHANGED backupVars
  BY <1>8 DEF backupVars, BackupTypeOK, NamesInv, CopyInv, LastInv, Target
<1>. QED  BY <1>1, <1>2, <1>3, <1>4, <1>5, <1>6, <1>7, <1>8 DEF BackupNext

-------------------------------------------------------------------------------
(* Backups: the theorems                                                    *)

\* Every reachable state satisfies the invariant: names are unique and in the past,
\* and a good copy older than the one under way exists once one was reported.
THEOREM BackupInvariance == BackupSpec => []BackupInv
BY BackupInvInit, BackupStep, PTL DEF BackupSpec

\* A backup that was reported as written is there, whole, until a newer one is,
\* whichever copy fails, is damaged or crashes after it (Backup, pruneBackups).
THEOREM LastBackupKept == BackupSpec => []LastBackupStays
<1>1. BackupInv => LastBackupStays
  BY DEF BackupInv, LastInv, LastBackupStays
<1>. QED  BY <1>1, BackupInvariance, PTL

-------------------------------------------------------------------------------
(* Secrets: the invariant                                                   *)

Values == [key : CryptKeys \cup {NoKey}, text : Texts \cup {"asterisks"}]

ListerStates ==
  {AtEase}
  \cup [pc : {"rewrite", "listed"}, read : Values, goal : {"load", "save"}]
  \cup [pc : {"save"}, read : Values]

SecretTypeOK ==
  /\ kind \in SecretKinds
  /\ secret \in Values
  /\ configKey \in CryptKeys \cup {NoKey}
  /\ lister \in [Listers -> ListerStates]
  /\ shown \subseteq [mask : Values \cup {"***"}]
  /\ {lost, sealed} \subseteq BOOLEAN

\* Only a process with a key rewrites what it listed.
RewriteInv == \A l \in Listers : lister[l].pc = "rewrite" => enabled

SecretInv == SecretTypeOK /\ RewriteInv /\ SecretsKept

-------------------------------------------------------------------------------
(* Secrets: facts about the operators                                       *)

\* Encrypting keeps the text and whatever is encrypted already.
LEMMA EncryptFacts ==
  ASSUME configKey \in CryptKeys \cup {NoKey}, NEW v \in Values
  PROVE  /\ encrypt(v) \in Values /\ encrypt(v).text = v.text
         /\ isEncrypted(v) => encrypt(v) = v
         /\ enabled => isEncrypted(encrypt(v))
         /\ ~enabled => encrypt(v) = v
BY DEF encrypt, isEncrypted, enabled, Cipher, Values

\* Decrypting keeps the text; without a key it changes nothing.
LEMMA DecryptFacts ==
  ASSUME NEW v \in Values
  PROVE  /\ decrypt(v) \in Values /\ decrypt(v).text = v.text
         /\ ~enabled => decrypt(v) = v
BY DEF decrypt, enabled, Plain, Values

\* What a page sends is a new secret, nothing or a mask, and only one of them.
LEMMA SentFacts ==
  ASSUME SecretTypeOK, NEW sent \in Sendable
  PROVE  \/ \E t \in Texts : sent = [text |-> t] /\ DOMAIN sent = {"text"}
         \/ DOMAIN sent = {"empty"}
         \/ DOMAIN sent = {"mask"}
BY DEF Sendable, SecretTypeOK

\* A patch leaves the value alone or replaces it.
LEMMA PatchedFacts ==
  ASSUME SecretTypeOK, NEW sent \in Sendable, NEW old \in Values
  PROVE  /\ Patched(old, sent) \in Values
         /\ "text" \in DOMAIN sent => sent.text \in Texts /\ Patched(old, sent) = Plain(sent.text)
         /\ "text" \notin DOMAIN sent =>
              Patched(old, sent) = old \/ ("mask" \in DOMAIN sent /\ sent # Mask(kind, old))
<1>1. CASE \E t \in Texts : sent = [text |-> t] /\ DOMAIN sent = {"text"}
  <2>1. PICK t \in Texts : sent = [text |-> t] /\ DOMAIN sent = {"text"}
    BY <1>1
  <2>2. DOMAIN Mask(kind, old) = {"mask"}
    BY DEF Mask
  <2>3. sent # Mask(kind, old)
    BY <2>1, <2>2
  <2>4. Patched(old, sent) = Plain(t)
    BY <2>1, <2>3 DEF Patched
  <2>. QED  BY <2>1, <2>4 DEF Plain, Values
<1>2. CASE DOMAIN sent = {"empty"}
  BY <1>2 DEF Patched
<1>3. CASE DOMAIN sent = {"mask"}
  BY <1>3 DEF Patched, Plain, Values
<1>. QED  BY <1>1, <1>2, <1>3, SentFacts

\* The invariant holds of a secret that nobody has touched.
LEMMA SecretInvInit == SecretInit => SecretInv
<1> SUFFICES ASSUME SecretInit  PROVE SecretInv
  OBVIOUS
<1>1. secret \in Values /\ secret.text = meant
  BY DEF SecretInit, Values
<1>2. lister \in [Listers -> ListerStates] /\ \A l \in Listers : lister[l].pc = "idle"
  BY DEF SecretInit, ListerStates, AtEase
<1>3. SecretTypeOK
  BY <1>1, <1>2 DEF SecretInit, SecretTypeOK
<1>4. SecretsKept
  BY <1>1 DEF SecretInit, SecretsKept, SecretSurvives, SealedStays
<1>. QED  BY <1>2, <1>3, <1>4 DEF SecretInv, RewriteInv

\* Reads that encrypt, edits and changes of the key keep the invariant.
LEMMA SecretStep ==
  ASSUME SecretInv, [SecretNext]_SecretVars
  PROVE  SecretInv'
<1> USE DEF SecretInv
<1>1. ASSUME NEW l \in Listers, NEW goal \in {"load", "save"}, List(l, goal)
      PROVE  SecretInv'
  <2> DEFINE st == [pc |-> IF shouldEncryptOnRead(secret) THEN "rewrite" ELSE "listed", read |-> secret, goal |-> goal]
  <2>1. lister' = [lister EXCEPT ![l] = st] /\ UNCHANGED <<kind, secret, configKey, shown, meant, lost, sealed>>
    BY <1>1 DEF List, Turn
  <2>2. st \in ListerStates /\ (st.pc = "rewrite" => enabled)
    <3>1. secret \in Values /\ goal \in {"load", "save"} /\ st.pc \in {"rewrite", "listed"}
      BY DEF SecretTypeOK
    <3>2. st \in [pc : {"rewrite", "listed"}, read : Values, goal : {"load", "save"}]
      BY <3>1
    <3>3. st.pc = "rewrite" => enabled
      BY DEF shouldEncryptOnRead
    <3>. QED  BY <3>2, <3>3 DEF ListerStates
  <2> HIDE DEF st
  <2>3. SecretTypeOK'
    BY <2>1, <2>2 DEF SecretTypeOK
  <2>4. RewriteInv'
    BY <2>1, <2>2 DEF RewriteInv, SecretTypeOK, enabled
  <2>. QED  BY <2>1, <2>3, <2>4 DEF SecretsKept, SecretSurvives, SealedStays, isEncrypted
<1>2. ASSUME NEW l \in Listers, Rewrite(l)
      PROVE  SecretInv'
  <2> DEFINE w == lister[l]
  <2>1. /\ w.pc = "rewrite" /\ secret' = encrypt(w.read)
        /\ lost' = (lost \/ secret.text # w.read.text)
        /\ lister' = [lister EXCEPT ![l] = [w EXCEPT !.pc = "listed"]]
        /\ UNCHANGED <<kind, configKey, shown, meant, sealed>>
    BY <1>2 DEF Rewrite, Turn
  <2>2. w \in [pc : {"rewrite", "listed"}, read : Values, goal : {"load", "save"}]
    BY <2>1 DEF SecretTypeOK, ListerStates, AtEase
  <2>3. [w EXCEPT !.pc = "listed"] \in ListerStates /\ [w EXCEPT !.pc = "listed"].pc = "listed"
    BY <2>2 DEF ListerStates
  <2>4. secret' \in Values /\ secret'.text = w.read.text /\ isEncrypted(secret')
    BY <2>1, <2>2, EncryptFacts DEF SecretTypeOK, RewriteInv
  <2>5. SecretTypeOK'
    BY <2>1, <2>3, <2>4 DEF SecretTypeOK
  <2>6. RewriteInv'
    BY <2>1, <2>3 DEF RewriteInv, SecretTypeOK, enabled
  <2>. QED  BY <2>1, <2>4, <2>5, <2>6 DEF SecretsKept, SecretSurvives, SealedStays, isEncrypted
<1>3. ASSUME NEW l \in Listers, Listed(l)
      PROVE  SecretInv'
  <2> DEFINE w == lister[l]
  <2>1. /\ w.pc = "listed" /\ sealed' = (sealed \/ isEncrypted(secret))
        /\ UNCHANGED <<kind, secret, configKey, meant, lost>>
        /\ \/ shown' = shown \cup {Mask(kind, decrypt(w.read))} /\ lister' = [lister EXCEPT ![l] = AtEase]
           \/ shown' = shown /\ lister' = [lister EXCEPT ![l] = [pc |-> "save", read |-> decrypt(w.read)]]
    BY <1>3 DEF Listed, Turn
  <2>2. w \in [pc : {"rewrite", "listed"}, read : Values, goal : {"load", "save"}]
    BY <2>1 DEF SecretTypeOK, ListerStates, AtEase
  <2>3. decrypt(w.read) \in Values
    BY <2>2, DecryptFacts
  <2>4. AtEase \in ListerStates /\ [pc |-> "save", read |-> decrypt(w.read)] \in ListerStates
    BY <2>3 DEF ListerStates
  <2>5. Mask(kind, decrypt(w.read)) \in [mask : Values \cup {"***"}]
    BY <2>3 DEF Mask
  <2>6. lister' \in [Listers -> ListerStates] /\ \A k \in Listers : lister'[k].pc = "rewrite" => lister[k].pc = "rewrite"
    BY <2>1, <2>4 DEF SecretTypeOK, AtEase
  <2>7. SecretTypeOK'
    BY <2>1, <2>5, <2>6 DEF SecretTypeOK, isEncrypted
  <2>8. RewriteInv'
    BY <2>1, <2>6 DEF RewriteInv, enabled
  <2>. QED  BY <2>1, <2>7, <2>8 DEF SecretsKept, SecretSurvives, SealedStays, isEncrypted
<1>4. ASSUME NEW l \in Listers, NEW sent \in Sendable, SaveSecret(l, sent)
      PROVE  SecretInv'
  <2> DEFINE w == lister[l]
             new == Patched(w.read, sent)
  <2>1. /\ w.pc = "save" /\ secret' = encrypt(new)
        /\ meant' = IF "text" \in DOMAIN sent THEN sent.text ELSE meant
        /\ lost' = IF "text" \in DOMAIN sent THEN FALSE
                   ELSE lost \/ w.read.text # secret.text \/ ("mask" \in DOMAIN sent /\ sent # Mask(kind, w.read))
        /\ sealed' = (enabled \/ (sealed /\ w.read = decrypt(secret) /\ new = w.read))
        /\ lister' = [lister EXCEPT ![l] = AtEase]
        /\ UNCHANGED <<kind, configKey, shown>>
    BY <1>4 DEF SaveSecret, Turn
  <2>2. w \in [pc : {"save"}, read : Values]
    BY <2>1 DEF SecretTypeOK, ListerStates, AtEase
  <2>3. /\ new \in Values
        /\ "text" \in DOMAIN sent => new = Plain(sent.text)
        /\ "text" \notin DOMAIN sent => new = w.read \/ ("mask" \in DOMAIN sent /\ sent # Mask(kind, w.read))
    BY <2>2, PatchedFacts
  <2> HIDE DEF new
  <2>4. /\ secret' \in Values /\ secret'.text = new.text
        /\ enabled => isEncrypted(secret')
        /\ ~enabled => secret' = new
    BY <2>1, <2>3, EncryptFacts DEF SecretTypeOK, isEncrypted
  <2>5. lister' \in [Listers -> ListerStates] /\ \A k \in Listers : lister'[k].pc = "rewrite" => lister[k].pc = "rewrite"
    BY <2>1 DEF SecretTypeOK, AtEase, ListerStates
  <2>6. {lost', sealed'} \subseteq BOOLEAN
    BY <2>1 DEF SecretTypeOK, enabled
  <2>7. SecretTypeOK'
    BY <2>1, <2>4, <2>5, <2>6 DEF SecretTypeOK
  <2>8. RewriteInv'
    BY <2>1, <2>5 DEF RewriteInv, enabled
  <2>9. SecretSurvives'
    <3>1. CASE "text" \in DOMAIN sent
      BY <2>1, <2>3, <2>4, <3>1 DEF SecretSurvives, Plain
    <3>2. CASE "text" \notin DOMAIN sent
      BY <2>1, <2>3, <2>4, <3>2 DEF SecretsKept, SecretSurvives
    <3>. QED  BY <3>1, <3>2
  <2>10. SealedStays'
    <3>1. CASE enabled
      BY <2>4, <3>1 DEF SealedStays, isEncrypted
    <3>2. CASE ~enabled
      <4>1. decrypt(secret) = secret
        BY <3>2, DecryptFacts DEF SecretTypeOK
      <4>. QED  BY <2>1, <2>4, <3>2, <4>1 DEF SecretsKept, SealedStays, isEncrypted
    <3>. QED  BY <3>1, <3>2
  <2>. QED  BY <2>7, <2>8, <2>9, <2>10 DEF SecretsKept
<1>5. ASSUME NEW k \in CryptKeys \cup {NoKey}, ChangeKey(k)
      PROVE  SecretInv'
  <2>1. SecretTypeOK' /\ RewriteInv'
    BY <1>5 DEF ChangeKey, SecretTypeOK, RewriteInv, ListerStates, AtEase
  <2>. QED  BY <1>5, <2>1 DEF ChangeKey, SecretsKept, SecretSurvives, SealedStays, isEncrypted
<1>6. CASE UNCHANGED SecretVars
  BY <1>6 DEF SecretVars, SecretTypeOK, RewriteInv, enabled, SecretsKept, SecretSurvives, SealedStays, isEncrypted
<1>. QED  BY <1>1, <1>2, <1>3, <1>4, <1>5, <1>6 DEF SecretNext

-------------------------------------------------------------------------------
(* Secrets: the theorems                                                    *)

\* The secret that was saved last is stored and, once sealed, sealed, through any
\* number of reads that encrypt, concurrent saves, masks and changes of the key.
THEOREM SecretsStay == SecretSpec => []SecretsKept
<1>1. SecretSpec => []SecretInv
  BY SecretInvInit, SecretStep, PTL DEF SecretSpec
<1>2. SecretInv => SecretsKept
  BY DEF SecretInv
<1>. QED  BY <1>1, <1>2, PTL

-------------------------------------------------------------------------------
(* Engines: the invariant                                                   *)

\* A row has a key and columns.
RowShapes == \A e \in Engines : \A r \in content[e] : DOMAIN r = {"key", "cols"}

\* Rows that answer to one key are one row.
KeysApart == \A e \in Engines : \A r, s \in content[e] : Same(e, r.key, s.key) => r = s

\* Rows carry keys that statements named.
RowsNamed == \A e \in Engines : \A r \in content[e] : r.key \in named

EnginesInv == DOMAIN content = Engines /\ RowShapes /\ KeysApart /\ RowsNamed /\ SameRows

-------------------------------------------------------------------------------
(* Engines: facts about the statements                                      *)

\* An engine compares keys by an equivalence.
LEMMA SameIsEquivalence ==
  ASSUME NEW e, NEW k, NEW l, NEW m
  PROVE  /\ Same(e, k, k)
         /\ Same(e, k, l) => Same(e, l, k)
         /\ Same(e, k, l) /\ Same(e, l, m) => Same(e, k, m)
BY DEF Same

\* The upserts of the engines, written separately, set the same columns.
LEMMA SameColumns ==
  ASSUME NEW t, NEW d \in Engines, NEW e \in Engines
  PROVE  Written(d, t) = Written(e, t)
BY DEF Written, Engines, SqliteConfigUpsert, SqliteStateUpsert, PostgresConfigUpsert,
       PostgresStateUpsert, MysqlConfigUpsert, MysqlStateUpsert

\* A statement either adds one row of a key nothing answers to or changes rows in
\* place or drops them.
Tidy(e, old, new, k) ==
  \/ new \subseteq old
  \/ /\ \A r \in old : ~Same(e, r.key, k)
     /\ \E r : DOMAIN r = {"key", "cols"} /\ r.key = k /\ new = old \cup {r}
  \/ \E f : new = {f[r] : r \in old}
            /\ \A r \in old : DOMAIN f[r] = {"key", "cols"} /\ f[r].key = r.key

\* A tidy statement leaves one row to a key, and only named keys.
LEMMA TidyKeeps ==
  ASSUME NEW e, NEW old, NEW new, NEW k, Tidy(e, old, new, k), NEW names,
         \A r \in old : DOMAIN r = {"key", "cols"} /\ r.key \in names,
         \A r, s \in old : Same(e, r.key, s.key) => r = s
  PROVE  /\ \A r \in new : DOMAIN r = {"key", "cols"} /\ r.key \in names \cup {k}
         /\ \A r, s \in new : Same(e, r.key, s.key) => r = s
<1>1. CASE new \subseteq old
  BY <1>1
<1>2. CASE /\ \A r \in old : ~Same(e, r.key, k)
           /\ \E r : DOMAIN r = {"key", "cols"} /\ r.key = k /\ new = old \cup {r}
  BY <1>2, SameIsEquivalence
<1>3. CASE \E f : new = {f[r] : r \in old}
                  /\ \A r \in old : DOMAIN f[r] = {"key", "cols"} /\ f[r].key = r.key
  BY <1>3
<1>. QED  BY <1>1, <1>2, <1>3 DEF Tidy

\* INSERT with ON CONFLICT or ON DUPLICATE KEY is tidy.
LEMMA UpsertTidy ==
  ASSUME NEW e, NEW t, NEW rows, NEW k, NEW tag, \A r \in rows : DOMAIN r = {"key", "cols"}
  PROVE  Tidy(e, rows, Upsert(e, t, rows, k, tag), k)
<1> DEFINE new == Upsert(e, t, rows, k, tag)
<1>1. CASE Match(e, rows, k) = {}
  <2>1. new = rows \cup {Inserted(e, t, k, tag)}
    BY <1>1 DEF Upsert
  <2>2. DOMAIN Inserted(e, t, k, tag) = {"key", "cols"} /\ Inserted(e, t, k, tag).key = k
    BY DEF Inserted
  <2>3. \A r \in rows : ~Same(e, r.key, k)
    BY <1>1 DEF Match
  <2>. QED  BY <2>1, <2>2, <2>3 DEF Tidy
<1>2. CASE Match(e, rows, k) # {}
  <2> DEFINE f == [r \in rows |->
                     IF Same(e, r.key, k)
                     THEN [r EXCEPT !.cols = [c \in DOMAIN @ |-> IF c \in Written(e, t) THEN tag ELSE @[c]]]
                     ELSE r]
  <2>1. new = {f[r] : r \in rows}
    BY <1>2 DEF Upsert
  <2>2. ASSUME NEW r \in rows  PROVE DOMAIN f[r] = {"key", "cols"} /\ f[r].key = r.key
    OBVIOUS
  <2> HIDE DEF f
  <2>. QED  BY <2>1, <2>2 DEF Tidy
<1>. QED  BY <1>1, <1>2

\* UPDATE of one column is tidy.
LEMMA ColumnTidy ==
  ASSUME NEW e, NEW rows, NEW k, NEW c, NEW tag, \A r \in rows : DOMAIN r = {"key", "cols"}
  PROVE  Tidy(e, rows, SetColumn(e, rows, k, c, tag), k)
<1> DEFINE f == [r \in rows |-> IF Same(e, r.key, k) THEN [r EXCEPT !.cols[c] = tag] ELSE r]
<1>1. SetColumn(e, rows, k, c, tag) = {f[r] : r \in rows}
  BY DEF SetColumn
<1>2. ASSUME NEW r \in rows  PROVE DOMAIN f[r] = {"key", "cols"} /\ f[r].key = r.key
  OBVIOUS
<1> HIDE DEF f
<1>. QED  BY <1>1, <1>2 DEF Tidy

\* INSERT that ignores a conflict is tidy, and so is DELETE.
LEMMA OtherTidy ==
  ASSUME NEW e, NEW rows, NEW k
  PROVE  Tidy(e, rows, AddEmailSuppression(e, rows, k), k) /\ Tidy(e, rows, DeleteRow(e, rows, k), k)
<1>1. CASE Match(e, rows, k) = {}
  <2>1. AddEmailSuppression(e, rows, k) = rows \cup {[key |-> k, cols |-> <<>>]}
    BY <1>1 DEF AddEmailSuppression
  <2>2. \A r \in rows : ~Same(e, r.key, k)
    BY <1>1 DEF Match
  <2>. QED  BY <2>1, <2>2 DEF Tidy, DeleteRow
<1>2. CASE Match(e, rows, k) # {}
  BY <1>2 DEF AddEmailSuppression, DeleteRow, Tidy
<1>. QED  BY <1>1, <1>2


\* Engines that tell the keys of the rows from the key of a statement in the same
\* way do the same with the rows.
LEMMA StatementsAgree ==
  ASSUME NEW d \in Engines, NEW e \in Engines, NEW t, NEW rows, NEW k, NEW c, NEW tag,
         \A r \in rows : Same(d, r.key, k) <=> Same(e, r.key, k)
  PROVE  /\ Upsert(d, t, rows, k, tag) = Upsert(e, t, rows, k, tag)
         /\ SetColumn(d, rows, k, c, tag) = SetColumn(e, rows, k, c, tag)
<1>1. Match(d, rows, k) = Match(e, rows, k)
  BY DEF Match
<1>2. Written(d, t) = Written(e, t)
  BY SameColumns
<1>3. Inserted(d, t, k, tag) = Inserted(e, t, k, tag)
  BY <1>2 DEF Inserted
<1> DEFINE Set(x, r) == [r EXCEPT !.cols = [n \in DOMAIN @ |-> IF n \in Written(x, t) THEN tag ELSE @[n]]]
<1>4. \A r : Set(d, r) = Set(e, r)
  BY <1>2
<1>5. Upsert(d, t, rows, k, tag) = Upsert(e, t, rows, k, tag)
  <2>1. \A x : Upsert(x, t, rows, k, tag) =
                 IF Match(x, rows, k) = {} THEN rows \cup {Inserted(x, t, k, tag)}
                 ELSE {IF Same(x, r.key, k) THEN Set(x, r) ELSE r : r \in rows}
    BY DEF Upsert
  <2> HIDE DEF Set
  <2>2. {IF Same(d, r.key, k) THEN Set(d, r) ELSE r : r \in rows}
          = {IF Same(e, r.key, k) THEN Set(e, r) ELSE r : r \in rows}
    BY <1>4
  <2>. QED  BY <1>1, <1>3, <2>1, <2>2
<1>6. SetColumn(d, rows, k, c, tag) = SetColumn(e, rows, k, c, tag)
  BY DEF SetColumn
<1>. QED  BY <1>5, <1>6

\* Engines that confuse the same keys agree on insertions and deletions.
LEMMA KeyStatementsAgree ==
  ASSUME NEW d \in Engines, NEW e \in Engines, NEW rows, NEW k,
         \A r \in rows : Same(d, r.key, k) <=> Same(e, r.key, k)
  PROVE  /\ AddEmailSuppression(d, rows, k) = AddEmailSuppression(e, rows, k)
         /\ DeleteRow(d, rows, k) = DeleteRow(e, rows, k)
BY DEF AddEmailSuppression, DeleteRow, Match

\* Steps that send one statement, whatever it is.
LEMMA StatementStep ==
  ASSUME EnginesInv, NEW k, DOMAIN content' = Engines, named' = named \cup {k},
         \A e \in Engines : Tidy(e, content[e], content'[e], k),
         \A d, e \in Engines :
           /\ content[d] = content[e]
           /\ \A r \in content[e] : Same(d, r.key, k) <=> Same(e, r.key, k)
           => content'[d] = content'[e]
  PROVE  EnginesInv'
<1>1. \A e \in Engines :
        /\ \A r \in content'[e] : DOMAIN r = {"key", "cols"} /\ r.key \in named'
        /\ \A r, s \in content'[e] : Same(e, r.key, s.key) => r = s
  <2> SUFFICES ASSUME NEW e \in Engines
               PROVE  /\ \A r \in content'[e] : DOMAIN r = {"key", "cols"} /\ r.key \in named'
                      /\ \A r, s \in content'[e] : Same(e, r.key, s.key) => r = s
    OBVIOUS
  <2>1. /\ \A r \in content[e] : DOMAIN r = {"key", "cols"} /\ r.key \in named
        /\ \A r, s \in content[e] : Same(e, r.key, s.key) => r = s
    BY DEF EnginesInv, RowShapes, KeysApart, RowsNamed
  <2>2. Tidy(e, content[e], content'[e], k)
    OBVIOUS
  <2>. QED  BY <2>1, <2>2, TidyKeeps
<1>2. {"sqlite", "postgres", "mysql"} = Engines
  BY DEF Engines
<1>3. content'["sqlite"] = content'["postgres"]
  <2>1. content["sqlite"] = content["postgres"]
    BY DEF EnginesInv, SameRows
  <2>2. \A l, m : Same("sqlite", l, m) <=> Same("postgres", l, m)
    BY DEF Same
  <2>. QED  BY <1>2, <2>1, <2>2
<1>4. ASSUME \A l, m \in named' : Same("mysql", l, m) => l = m
      PROVE  content'["mysql"] = content'["sqlite"]
  <2>1. content["mysql"] = content["sqlite"]
    BY <1>4 DEF EnginesInv, SameRows
  <2>2. \A l, m \in named' : Same("mysql", l, m) <=> Same("sqlite", l, m)
    BY <1>4 DEF Same
  <2>3. \A r \in content["sqlite"] : r.key \in named'
    BY <1>2 DEF EnginesInv, RowsNamed
  <2>. QED  BY <1>2, <2>1, <2>2, <2>3
<1>5. SameRows'
  BY <1>3, <1>4 DEF SameRows
<1>. QED  BY <1>1, <1>5 DEF EnginesInv, RowShapes, KeysApart, RowsNamed

\* Every statement keeps the invariant of the three databases.
LEMMA EnginesStep ==
  ASSUME EnginesInv, [TblNext]_tblVars
  PROVE  EnginesInv'
<1>1. \A e \in Engines : \A r \in content[e] : DOMAIN r = {"key", "cols"}
  BY DEF EnginesInv, RowShapes
<1>2. CASE UpsertStatement
  <2>1. PICK k : /\ content' = [e \in Engines |-> Upsert(e, focus, content[e], k, Tag)]
                 /\ named' = named \cup {k}
    BY <1>2 DEF UpsertStatement, Send
  <2>2. \A e \in Engines : Tidy(e, content[e], content'[e], k)
    BY <1>1, <2>1, UpsertTidy
  <2>. QED  BY <2>1, <2>2, StatementsAgree, StatementStep
<1>3. CASE IgnoreStatement
  <2>1. PICK k : /\ content' = [e \in Engines |-> AddEmailSuppression(e, content[e], k)]
                 /\ named' = named \cup {k}
    BY <1>3 DEF IgnoreStatement, Send
  <2>2. \A e \in Engines : Tidy(e, content[e], content'[e], k)
    BY <2>1, OtherTidy
  <2>3. ASSUME NEW d \in Engines, NEW e \in Engines, content[d] = content[e],
               \A r \in content[e] : Same(d, r.key, k) <=> Same(e, r.key, k)
        PROVE  content'[d] = content'[e]
    BY <2>1, <2>3, KeyStatementsAgree
  <2>4. DOMAIN content' = Engines /\ named' = named \cup {k}
    BY <2>1
  <2>. QED  BY <2>2, <2>3, <2>4, StatementStep
<1>4. CASE DeleteStatement
  <2>1. PICK k : /\ content' = [e \in Engines |-> DeleteRow(e, content[e], k)]
                 /\ named' = named \cup {k}
    BY <1>4 DEF DeleteStatement, Send
  <2>2. \A e \in Engines : Tidy(e, content[e], content'[e], k)
    BY <2>1, OtherTidy
  <2>. QED  BY <2>1, <2>2, KeyStatementsAgree, StatementStep
<1>5. CASE UpdateStatement
  <2>1. PICK k, c : /\ content' = [e \in Engines |-> SetColumn(e, content[e], k, c, Tag)]
                    /\ named' = named \cup {k}
    BY <1>5 DEF UpdateStatement, Send
  <2>2. \A e \in Engines : Tidy(e, content[e], content'[e], k)
    BY <1>1, <2>1, ColumnTidy
  <2>. QED  BY <2>1, <2>2, StatementsAgree, StatementStep
<1>6. CASE UNCHANGED tblVars
  BY <1>6 DEF tblVars, EnginesInv, RowShapes, KeysApart, RowsNamed, SameRows
<1>. QED  BY <1>2, <1>3, <1>4, <1>5, <1>6 DEF TblNext

\* Whatever tables and texts the statements are about and whatever MySQL's
\* collation folds together, no two rows answer to one key and no engine holds a row
\* of a key that was never named.
THEOREM EnginesInvariance == TblSpec => []EnginesInv
<1>1. TblInit => EnginesInv
  BY DEF TblInit, EnginesInv, RowShapes, KeysApart, RowsNamed, SameRows, Engines
<1>. QED  BY <1>1, EnginesStep, PTL DEF TblSpec

\* The statements written three times leave the same rows on SQLite, PostgreSQL and
\* MySQL, unless MySQL's collation confuses two keys that were named, and on none
\* of them two rows of one key.
THEOREM EnginesAlike == TblSpec => []EnginesAgree
<1>1. EnginesInv => EnginesAgree
  <2> SUFFICES ASSUME EnginesInv, NEW e \in Engines, NEW r \in content[e]
               PROVE  Cardinality(Match(e, content[e], r.key)) = 1
    BY DEF EnginesInv, EnginesAgree, OneRowPerKey
  <2>1. Match(e, content[e], r.key) = {r}
    BY SameIsEquivalence DEF EnginesInv, KeysApart, Match
  <2>. QED  BY <2>1, FS_Singleton
<1>. QED  BY <1>1, EnginesInvariance, PTL

-------------------------------------------------------------------------------
(* History: places in a list                                                *)

Sources == {"alert", "email", "balance"}
HistRows == [source : Sources, n : Nat \ {0}, key : {"p"}, kind : {"low", "error"}, at : Nat \ {0}]
Positions == [at : Nat, id : Nat \X Nat]

\* Two rows of one kind have different IDs.
Distinct(S) == \A r, s \in S : r.source = s.source /\ r.n = s.n => r = s

\* A row has a place of its own, which no cursor-less request has.
LEMMA RowPosition ==
  ASSUME NEW r \in HistRows
  PROVE  Position(r) \in Positions /\ Position(r) # NoCursor
BY DEF Position, Positions, HistRows, Sources, Rank, NoCursor

\* rowID tells rows apart: no two rows have one place.
LEMMA PositionsDiffer ==
  ASSUME NEW S \in SUBSET HistRows, Distinct(S), NEW r \in S, NEW s \in S, Position(r) = Position(s)
  PROVE  r = s
<1>1. Position(r).id = Position(s).id
  OBVIOUS
<1>2. Rank(r.source) = Rank(s.source) /\ r.n = s.n
  BY <1>1 DEF Position
<1>3. r.source = s.source
  BY <1>2 DEF HistRows, Sources, Rank
<1> QED  BY <1>2, <1>3 DEF Distinct

\* Newest first is a strict total order.
LEMMA BeforeOrder ==
  ASSUME NEW p \in Positions, NEW q \in Positions, NEW r \in Positions
  PROVE  /\ ~Before(p, p)
         /\ Before(p, q) /\ Before(q, r) => Before(p, r)
         /\ p = q \/ Before(p, q) \/ Before(q, p)
         /\ Before(p, q) => p.at >= q.at
<1>1. /\ p = [at |-> p.at, id |-> p.id] /\ p.at \in Nat /\ p.id = <<p.id[1], p.id[2]>> /\ p.id[1] \in Nat /\ p.id[2] \in Nat
      /\ q = [at |-> q.at, id |-> q.id] /\ q.at \in Nat /\ q.id = <<q.id[1], q.id[2]>> /\ q.id[1] \in Nat /\ q.id[2] \in Nat
      /\ r.at \in Nat /\ r.id[1] \in Nat /\ r.id[2] \in Nat
  BY DEF Positions
<1> QED  BY <1>1 DEF Before, IdAfter

-------------------------------------------------------------------------------
(* History: one page                                                        *)

Place(S, r) == Cardinality({x \in S : Before(Position(x), Position(r))})

\* A row has at most all the other rows before it.
LEMMA PlaceBound ==
  ASSUME NEW S \in SUBSET HistRows, IsFiniteSet(S), NEW r \in S
  PROVE  Place(S, r) \in 0..(Cardinality(S) - 1)
<1> DEFINE ahead == {x \in S : Before(Position(x), Position(r))}
<1>1. r \notin ahead
  BY RowPosition, BeforeOrder
<1>2. IsFiniteSet(ahead) /\ Cardinality(ahead) <= Cardinality(S) /\ Cardinality(S) # Cardinality(ahead)
  BY <1>1, FS_Subset
<1>3. Cardinality(ahead) \in Nat /\ Cardinality(S) \in Nat
  BY <1>2, FS_CardinalityType
<1> QED  BY <1>2, <1>3 DEF Place

\* What comes later has more rows before it.
LEMMA PlaceMonotone ==
  ASSUME NEW S \in SUBSET HistRows, IsFiniteSet(S), NEW r \in S, NEW s \in S,
         Before(Position(r), Position(s))
  PROVE  Place(S, r) < Place(S, s)
<1> DEFINE ofR == {x \in S : Before(Position(x), Position(r))}
           ofS == {x \in S : Before(Position(x), Position(s))}
<1>1. \A x \in S : Position(x) \in Positions
  BY RowPosition
<1>2. ofR \subseteq ofS /\ r \in ofS /\ r \notin ofR
  BY <1>1, BeforeOrder
<1>3. IsFiniteSet(ofS)
  BY FS_Subset
<1>4. IsFiniteSet(ofR) /\ Cardinality(ofR) <= Cardinality(ofS) /\ Cardinality(ofR) # Cardinality(ofS)
  BY <1>2, <1>3, FS_Subset
<1>5. Cardinality(ofR) \in Nat /\ Cardinality(ofS) \in Nat
  BY <1>3, <1>4, FS_CardinalityType
<1> QED  BY <1>4, <1>5 DEF Place

\* The places of the rows are the numbers below their count, each taken once.
LEMMA PlacesFill ==
  ASSUME NEW S \in SUBSET HistRows, IsFiniteSet(S), Distinct(S)
  PROVE  /\ \A r, s \in S : Place(S, r) = Place(S, s) => r = s
         /\ \A k \in 0..(Cardinality(S) - 1) : \E r \in S : Place(S, r) = k
<1> DEFINE T == 0..(Cardinality(S) - 1)
           f == [r \in S |-> Place(S, r)]
<1>1. ASSUME NEW r \in S, NEW s \in S, Place(S, r) = Place(S, s)
      PROVE  r = s
  <2>1. Position(r) \in Positions /\ Position(s) \in Positions
    BY RowPosition
  <2>2. ~Before(Position(r), Position(s)) /\ ~Before(Position(s), Position(r))
    <3>1. Place(S, r) \in Int /\ Place(S, s) \in Int
      BY PlaceBound
    <3> QED  BY <1>1, <3>1, PlaceMonotone
  <2>3. Position(r) = Position(s)
    BY <2>1, <2>2, BeforeOrder
  <2> QED  BY <2>3, PositionsDiffer
<1>2. Cardinality(S) \in Nat
  BY FS_CardinalityType
<1>3. IsFiniteSet(T) /\ Cardinality(T) = Cardinality(S)
  BY <1>2, FS_Interval
<1>4. f \in Injection(S, T)
  <2>1. f \in [S -> T]
    BY PlaceBound
  <2>2. \A r, s \in S : f[r] = f[s] => r = s
    BY <1>1
  <2> QED  BY <2>1, <2>2 DEF Injection, IsInjective
<1>5. f \in Surjection(S, T)
  BY <1>3, <1>4, FS_Injection
<1>6. \A k \in T : \E r \in S : f[r] = k
  BY <1>5 DEF Surjection
<1> QED  BY <1>1, <1>6

\* A page is made of candidates, in order; the candidates it leaves out come
\* after its last row, and there are some only when it is full.
LEMMA PageWorks ==
  ASSUME NEW S \in SUBSET HistRows, IsFiniteSet(S), Distinct(S)
  PROVE  LET size == IF Cardinality(S) < PageLimit THEN Cardinality(S) ELSE PageLimit IN
         /\ Page(S) \in [1..size -> S]
         /\ \A i, j \in 1..size : i < j => Before(Position(Page(S)[i]), Position(Page(S)[j]))
         /\ \A r \in S : \/ \E i \in 1..size : Page(S)[i] = r
                         \/ Cardinality(S) > PageLimit /\ Before(Position(Page(S)[PageLimit]), Position(r))
<1> DEFINE size == IF Cardinality(S) < PageLimit THEN Cardinality(S) ELSE PageLimit
           page == Page(S)
<1>1. page = [i \in 1..size |-> CHOOSE r \in S : Place(S, r) = i - 1]
  BY DEF Page, Place
<1>2. Cardinality(S) \in Nat /\ PageLimit \in Nat /\ PageLimit >= 1
  BY FS_CardinalityType, HistoryAssumption
<1>3. \A i \in 1..size : page[i] \in S /\ Place(S, page[i]) = i - 1
  <2> TAKE i \in 1..size
  <2>1. i - 1 \in 0..(Cardinality(S) - 1)
    BY <1>2
  <2>2. PICK r \in S : Place(S, r) = i - 1
    BY <2>1, PlacesFill
  <2> QED  BY <1>1, <2>2
<1>4. \A r, s \in S : Place(S, r) < Place(S, s) => Before(Position(r), Position(s))
  <2> SUFFICES ASSUME NEW r \in S, NEW s \in S, Place(S, r) < Place(S, s)
               PROVE  Before(Position(r), Position(s))
    OBVIOUS
  <2>1. Place(S, r) \in Int /\ Place(S, s) \in Int
    BY PlaceBound
  <2>2. ~Before(Position(s), Position(r)) /\ Position(r) # Position(s)
    <3>1. r # s
      BY <2>1
    <3> QED  BY <2>1, <3>1, PlaceMonotone, PositionsDiffer
  <2> QED  BY <2>2, RowPosition, BeforeOrder
<1>5. \A i, j \in 1..size : i < j => Before(Position(page[i]), Position(page[j]))
  <2> SUFFICES ASSUME NEW i \in 1..size, NEW j \in 1..size, i < j
               PROVE  Before(Position(page[i]), Position(page[j]))
    OBVIOUS
  <2>1. Place(S, page[i]) < Place(S, page[j])
    BY <1>2, <1>3
  <2> QED  BY <1>3, <1>4, <2>1
<1>6. ASSUME NEW r \in S, ~\E i \in 1..size : page[i] = r
      PROVE  Cardinality(S) > PageLimit /\ Before(Position(page[PageLimit]), Position(r))
  <2>1. Place(S, r) \in 0..(Cardinality(S) - 1)
    BY PlaceBound
  <2>2. ~(Place(S, r) < size)
    <3> SUFFICES ASSUME Place(S, r) < size PROVE FALSE
      OBVIOUS
    <3>1. Place(S, r) + 1 \in 1..size
      BY <1>2, <2>1
    <3>2. Place(S, page[Place(S, r) + 1]) = Place(S, r) /\ page[Place(S, r) + 1] \in S
      BY <1>3, <2>1, <3>1
    <3> QED  BY <1>6, <3>1, <3>2, PlacesFill
  <2>3. size = PageLimit /\ Cardinality(S) > PageLimit
    BY <1>2, <2>1, <2>2
  <2>4. PageLimit \in 1..size
    BY <1>2, <2>3
  <2>5. page[PageLimit] \in S /\ Place(S, page[PageLimit]) = PageLimit - 1
    BY <1>3, <2>4
  <2>6. Place(S, page[PageLimit]) < Place(S, r)
    BY <1>2, <2>1, <2>2, <2>3, <2>5
  <2> QED  BY <1>4, <2>3, <2>5, <2>6
<1>7. page \in [1..size -> S]
  BY <1>1, <1>3
<1> QED  BY <1>5, <1>6, <1>7

-------------------------------------------------------------------------------
(* History: the window of a read                                            *)

\* How far back a read of this range can ever reach.
Reach(range) == (IF range.since = 0 THEN range.days ELSE MaxDays) * HistDay
Aged(range, at, now) == at < now - Reach(range)

\* A read misses what is in its range only if that is too old for every read.
LEMMA WindowReach ==
  ASSUME NEW range \in Ranges, NEW now \in Nat
  PROVE  /\ WindowDays(range, now) * HistDay \in Nat
         /\ \A at \in Nat : InWindow(range, at) =>
              (at < now - WindowDays(range, now) * HistDay <=> Aged(range, at, now))
<1>1. range.since \in Nat /\ range.days \in Nat /\ HistDay \in Nat /\ HistDay > 0 /\ MaxDays \in Nat /\ MaxDays >= 1
  BY HistoryAssumption
<1>2. CASE range.since = 0
  <2>1. WindowDays(range, now) = range.days
    BY <1>2 DEF WindowDays
  <2>2. range.days * HistDay \in Nat
    BY <1>1
  <2> QED  BY <1>2, <2>1, <2>2 DEF Aged, Reach
<1>3. CASE range.since # 0
  <2> DEFINE span == now - range.since + HistDay - 1
             days == span \div HistDay
             back == days + 1
             least == IF back < 1 THEN 1 ELSE back
             W == WindowDays(range, now)
  <2>1. W = IF least > MaxDays THEN MaxDays ELSE least
    BY <1>3 DEF WindowDays
  <2>2. span \in Int /\ days \in Int /\ HistDay * days + HistDay > span
    BY <1>1
  <2> HIDE DEF days
  <2>3. W \in Nat /\ W >= 1 /\ W <= MaxDays /\ (W < MaxDays => W >= days + 1)
    BY <1>1, <2>1, <2>2
  <2> HIDE DEF W
  <2>4. W * HistDay \in Nat /\ MaxDays * HistDay \in Nat /\ W * HistDay <= MaxDays * HistDay /\ W * HistDay >= HistDay
    BY <1>1, <2>3
  <2>5. W < MaxDays => W * HistDay >= HistDay * days + HistDay
    <3> SUFFICES ASSUME W < MaxDays PROVE W * HistDay >= HistDay * days + HistDay
      OBVIOUS
    <3>1. W >= days + 1
      BY <2>3
    <3>2. W * HistDay >= (days + 1) * HistDay
      BY <1>1, <2>2, <2>3, <3>1
    <3>3. (days + 1) * HistDay = HistDay * days + HistDay
      BY <1>1, <2>2
    <3> QED  BY <3>2, <3>3
  <2>6. ASSUME NEW at \in Nat, InWindow(range, at), at < now - W * HistDay
        PROVE  at < now - MaxDays * HistDay
    <3>1. at >= range.since
      BY <1>3, <2>6 DEF InWindow
    <3>2. ~(W < MaxDays)
      <4> SUFFICES ASSUME W < MaxDays PROVE FALSE
        OBVIOUS
      <4>1. HistDay * days \in Int
        BY <1>1, <2>2
      <4>2. W * HistDay > now - range.since + HistDay - 1
        BY <1>1, <2>2, <2>4, <2>5, <4>1
      <4> QED  BY <1>1, <2>4, <2>6, <3>1, <4>2
    <3>3. W = MaxDays
      BY <1>1, <2>3, <3>2
    <3> QED  BY <2>6, <3>3
  <2>7. ASSUME NEW at \in Nat, at < now - MaxDays * HistDay
        PROVE  at < now - W * HistDay
    BY <2>4, <2>7
  <2>8. Reach(range) = MaxDays * HistDay
    BY <1>3 DEF Reach
  <2> QED  BY <2>4, <2>6, <2>7, <2>8 DEF W, Aged
<1> QED  BY <1>2, <1>3

\* A row too old for every read stays so.
LEMMA AgedStays ==
  ASSUME NEW range \in Ranges, NEW at \in Nat, NEW now \in Nat, NEW then \in Nat, now <= then, Aged(range, at, now)
  PROVE  Aged(range, at, then)
<1>1. Reach(range) \in Nat
  BY HistoryAssumption DEF Reach
<1> QED  BY <1>1 DEF Aged

-------------------------------------------------------------------------------
(* History: the invariant                                                   *)

HistTypeOK ==
  /\ hNow \in Nat
  /\ hRows \subseteq HistRows /\ IsFiniteSet(hRows)
  /\ ask \in [tool : Tools, range : Ranges, after : Positions]
  /\ query \in [phase : {"idle", "reading", "more", "done"}, from : Int, read : Nat,
                entries : SUBSET hRows, capped : BOOLEAN]
  /\ pages \in Seq(hRows)
  /\ atStart \subseteq hRows

\* IDs are given out in turn.
RowsInv ==
  /\ Distinct(hRows)
  /\ \A r \in hRows : r.n <= Cardinality({x \in hRows : x.source = r.source})

\* The cursor is the last row of the pages so far.
CursorInv ==
  /\ query.phase = "idle" => ask.after = NoCursor /\ atStart = {}
  /\ query.phase # "done" =>
       /\ ask.after = NoCursor => pages = <<>>
       /\ \A i \in DOMAIN pages :
            ask.after = Position(pages[i]) \/ Before(Position(pages[i]), ask.after)

WindowInv == \A at \in Nat : InWindow(ask.range, at) /\ at < query.from => Aged(ask.range, at, hNow)

\* What the tool lists of a kind, and what of that is no older than a row.
OfType(r) == r.source = "alert" /\ ask.tool.type # "" => r.kind = ask.tool.type
NoOlder(r) == {x \in hRows : x.source = r.source /\ OfType(x) /\ x.at >= r.at}

\* So many rows are beside or after it that a read that cuts it off is capped,
\* now and ever after.
Deep(r) == Cardinality(NoOlder(r)) >= ReadLimit

Wished(r) ==
  /\ \E i \in DOMAIN ask.tool.reads : ask.tool.reads[i] = r.source
  /\ OfType(r)
  /\ InWindow(ask.range, r.at)

OnPage(r) == \E i \in DOMAIN pages : pages[i] = r
Ahead(r) == ask.after = NoCursor \/ Before(ask.after, Position(r))
WasRead(r) == \E i \in 1..query.read : ask.tool.reads[i] = r.source

\* Until the last page no row of the beginning is lost without a cause that lasts.
KeptInv ==
  query.phase # "done" =>
    \A r \in atStart : Wished(r) => OnPage(r) \/ Ahead(r) \/ r.at < query.from \/ Deep(r)

\* A read that misses a row has been capped.
FoundInv ==
  query.phase = "reading" =>
    \A r \in atStart : Wished(r) /\ WasRead(r) =>
      OnPage(r) \/ (Ahead(r) /\ r \in query.entries) \/ r.at < query.from \/ (Deep(r) /\ query.capped)

DoneInv ==
  query.phase = "done" =>
    \A r \in atStart : Wished(r) => OnPage(r) \/ r.at < query.from \/ query.capped

HistInv ==
  /\ HistTypeOK /\ RowsInv /\ CursorInv /\ WindowInv
  /\ OnceEach /\ KeptInv /\ FoundInv /\ DoneInv

-------------------------------------------------------------------------------
\* The rows a read asks for.
LEMMA ReadsAre ==
  ASSUME NEW source \in Sources, NEW from, NEW rows \in Reads(source, ask.tool.type, from)
  PROVE  rows \in Newest({x \in hRows : x.source = source /\ x.at >= from /\ OfType(x)}, ReadLimit)
<1> DEFINE type == IF source = "alert" THEN ask.tool.type ELSE ""
<1>1. rows \in Newest(Rows(hRows, source, from, "", type), ReadLimit)
  BY DEF Reads, ListAlertHistory, ListEmailAlertHistory, ListBalanceHistory, Sources
<1>2. Rows(hRows, source, from, "", type) = {x \in hRows : x.source = source /\ x.at >= from /\ OfType(x)}
  BY DEF Rows, OfType
<1> QED  BY <1>1, <1>2

\* A row a read misses has a read limit of rows beside or after it, and then
\* the read is capped.
LEMMA ReadFinds ==
  ASSUME HistTypeOK, NEW source \in Sources, NEW from \in Int, NEW rows \in Reads(source, ask.tool.type, from),
         NEW r \in hRows, r.source = source, OfType(r), r.at >= from
  PROVE  /\ r \in rows \/ Deep(r)
         /\ Deep(r) => Cardinality(rows) >= ReadLimit
<1> DEFINE R == {x \in hRows : x.source = source /\ x.at >= from /\ OfType(x)}
<1>1. rows \in Newest(R, ReadLimit)
  BY ReadsAre
<1>2. IsFiniteSet(R) /\ Cardinality(R) \in Nat
  BY FS_Subset, FS_CardinalityType DEF HistTypeOK
<1>3. /\ rows \subseteq R /\ \A s \in rows, x \in R \ rows : x.at <= s.at
      /\ Cardinality(rows) = IF Cardinality(R) < ReadLimit THEN Cardinality(R) ELSE ReadLimit
  BY <1>1 DEF Newest
<1>4. NoOlder(r) \subseteq R
  <2> SUFFICES ASSUME NEW x \in NoOlder(r) PROVE x \in R
    OBVIOUS
  <2>1. x \in hRows /\ x.source = source /\ OfType(x) /\ x.at >= r.at
    BY DEF NoOlder
  <2>2. x.at \in Int /\ r.at \in Int
    BY <2>1 DEF HistTypeOK, HistRows
  <2> QED  BY <2>1, <2>2
<1>5. IsFiniteSet(NoOlder(r)) /\ Cardinality(NoOlder(r)) \in Nat /\ Cardinality(NoOlder(r)) <= Cardinality(R)
  BY <1>2, <1>4, FS_Subset, FS_CardinalityType
<1>6. ReadLimit \in Nat
  BY HistoryAssumption
<1>7. Deep(r) => Cardinality(rows) >= ReadLimit
  <2> HIDE DEF R
  <2> QED  BY <1>2, <1>3, <1>5, <1>6 DEF Deep
<1>8. r \in rows \/ Deep(r)
  <2> SUFFICES ASSUME r \notin rows PROVE Deep(r)
    OBVIOUS
  <2>1. r \in R
    OBVIOUS
  <2>2. rows \subseteq NoOlder(r)
    BY <1>3, <2>1 DEF NoOlder
  <2>3. rows # R
    BY <2>1
  <2> HIDE DEF R
  <2>4. Cardinality(rows) # Cardinality(R)
    BY <1>2, <1>3, <2>3, FS_Subset
  <2>5. Cardinality(rows) = ReadLimit
    BY <1>2, <1>3, <1>6, <2>4
  <2>6. Cardinality(rows) <= Cardinality(NoOlder(r))
    BY <1>5, <2>2, FS_Subset
  <2> QED  BY <1>5, <1>6, <2>5, <2>6 DEF Deep
<1> QED  BY <1>7, <1>8

-------------------------------------------------------------------------------
(* History: the steps                                                       *)

\* Nothing has been recorded or asked for.
LEMMA HistInitOK == HistInit => HistInv
<1> SUFFICES ASSUME HistInit PROVE HistInv
  OBVIOUS
<1>1. NoCursor \in Positions /\ ask.after = NoCursor /\ ask.tool \in Tools /\ ask.range \in Ranges
  BY DEF HistInit, Positions, NoCursor
<1>2. HistTypeOK
  BY <1>1, FS_EmptySet DEF HistInit, HistTypeOK, Quiet
<1>3. RowsInv /\ CursorInv /\ OnceEach /\ KeptInv /\ FoundInv /\ DoneInv
  BY <1>1 DEF HistInit, Quiet, RowsInv, Distinct, CursorInv, OnceEach, KeptInv, FoundInv, DoneInv
<1>4. WindowInv
  BY DEF HistInit, Quiet, WindowInv
<1> QED  BY <1>2, <1>3, <1>4 DEF HistInv

\* A new row gets the next ID of its kind.
LEMMA RecordStep ==
  ASSUME HistTypeOK, RowsInv, HistRecord
  PROVE  /\ hRows \subseteq hRows' /\ hRows' \subseteq HistRows /\ IsFiniteSet(hRows')
         /\ RowsInv'
<1> PICK source \in Sources, type \in {"low", "error"}, at \in {hNow - 1, hNow} :
       at >= 1 /\ hRows' = InsertHistory(hRows, source, "p", type, at)
  BY DEF HistRecord, Sources
<1> DEFINE Of(S, s) == {x \in S : x.source = s}
           new == HistoryRow(source, 1 + Cardinality(Of(hRows, source)), "p", type, at)
<1>1. hRows' = hRows \cup {new}
  BY DEF InsertHistory
<1>2. \A s \in Sources : IsFiniteSet(Of(hRows, s)) /\ Cardinality(Of(hRows, s)) \in Nat
  BY FS_Subset, FS_CardinalityType DEF HistTypeOK
<1>3. \A r \in hRows : r.source \in Sources /\ r.n \in Nat /\ r.n <= Cardinality(Of(hRows, r.source))
  BY DEF RowsInv, HistTypeOK, HistRows
<1>4. /\ Of(hRows', source) = Of(hRows, source) \cup {new}
      /\ \A s \in Sources \ {source} : Of(hRows', s) = Of(hRows, s)
      /\ \A r \in Of(hRows, source) : r \in hRows /\ r.source = source
  <2>1. new.source = source
    BY DEF HistoryRow
  <2> HIDE DEF new
  <2>2. Of(hRows', source) = Of(hRows, source) \cup {new}
    BY <1>1, <2>1
  <2>3. ASSUME NEW s \in Sources \ {source} PROVE Of(hRows', s) = Of(hRows, s)
    BY <1>1, <2>1
  <2> QED  BY <2>2, <2>3
<1> HIDE DEF Of
<1>5. /\ new.source = source /\ new.n = 1 + Cardinality(Of(hRows, source)) /\ new \in HistRows
  <2>1. 1 + Cardinality(Of(hRows, source)) \in Nat \ {0}
    BY <1>2
  <2>2. at \in Nat \ {0}
    BY DEF HistTypeOK
  <2> QED  BY <2>1, <2>2 DEF HistoryRow, HistRows
<1> HIDE DEF new
<1>6. new \notin hRows
  BY <1>2, <1>5, <1>3
<1>7. IsFiniteSet(hRows')
  BY <1>1, FS_AddElement DEF HistTypeOK
<1>8. Distinct(hRows')
  <2>1. \A r \in hRows : ~(r.source = new.source /\ r.n = new.n)
    BY <1>2, <1>5, <1>3
  <2> QED  BY <1>1, <2>1 DEF Distinct, RowsInv
<1>9. \A r \in hRows' : r.n <= Cardinality(Of(hRows', r.source))
  <2> TAKE r \in hRows'
  <2>1. CASE r.source = source
    <3>1. new \notin Of(hRows, source)
      BY <1>6, <1>4
    <3>2. Cardinality(Of(hRows', source)) = Cardinality(Of(hRows, source)) + 1
      BY <1>2, <1>4, <3>1, FS_AddElement
    <3> QED  BY <1>1, <1>2, <1>5, <1>3, <2>1, <3>2
  <2>2. CASE r.source # source
    <3>1. Of(hRows', r.source) = Of(hRows, r.source) /\ r \in hRows
      BY <1>1, <1>5, <1>3, <1>4, <2>2
    <3> QED  BY <1>3, <3>1
  <2> QED  BY <2>1, <2>2
<1> QED  BY <1>1, <1>5, <1>7, <1>8, <1>9 DEF RowsInv, HistTypeOK, Of

\* Rows and time that come between two requests take nothing from the client:
\* a row that is deep stays deep, one too old for a read stays too old.
LEMMA MeanwhileStep ==
  ASSUME HistInv, RowsInv', hRows \subseteq hRows', hRows' \subseteq HistRows, IsFiniteSet(hRows'),
         hNow' \in Nat, hNow <= hNow', UNCHANGED <<ask, query, pages, atStart>>
  PROVE  HistInv'
<1> USE DEF HistInv
<1>1. HistTypeOK'
  BY DEF HistTypeOK
<1>2. WindowInv'
  BY AgedStays DEF WindowInv, HistTypeOK
<1>3. \A r \in atStart : Deep(r) => Deep(r)'
  <2> TAKE r \in atStart
  <2>1. NoOlder(r) \subseteq NoOlder(r)'
    BY DEF NoOlder, OfType
  <2>2. IsFiniteSet(NoOlder(r)')
    <3>1. NoOlder(r)' \subseteq hRows'
      BY DEF NoOlder
    <3> QED  BY <3>1, FS_Subset
  <2>3. /\ IsFiniteSet(NoOlder(r)) /\ Cardinality(NoOlder(r)) <= Cardinality(NoOlder(r)')
    BY <2>1, <2>2, FS_Subset
  <2>4. Cardinality(NoOlder(r)) \in Nat /\ Cardinality(NoOlder(r)') \in Nat /\ ReadLimit \in Nat
    BY <2>2, <2>3, FS_CardinalityType, HistoryAssumption
  <2> QED  BY <2>3, <2>4 DEF Deep
<1>4. \A r : /\ Wished(r)' <=> Wished(r)
             /\ OnPage(r)' <=> OnPage(r)
             /\ Ahead(r)' <=> Ahead(r)
             /\ WasRead(r)' <=> WasRead(r)
  BY DEF Wished, OfType, OnPage, Ahead, WasRead
<1>5. CursorInv' /\ OnceEach' /\ DoneInv'
  BY <1>4 DEF CursorInv, OnceEach, DoneInv
<1>6. KeptInv' /\ FoundInv'
  BY <1>3, <1>4 DEF KeptInv, FoundInv
<1> QED  BY <1>1, <1>2, <1>5, <1>6

\* A new query takes its window from the clock; what the last one was too late for
\* stays out of it.
LEMMA AskStep ==
  ASSUME HistInv, AskPage
  PROVE  HistInv'
<1> USE DEF HistInv
<1> DEFINE from == hNow - WindowDays(ask.range, hNow) * HistDay
<1>1. /\ query' = [Quiet EXCEPT !.phase = "reading", !.from = from]
      /\ query.phase \in {"idle", "more"}
      /\ atStart' = IF query.phase = "idle" THEN hRows ELSE atStart
      /\ UNCHANGED <<hNow, hRows, ask, pages>>
  BY DEF AskPage
<1>2. /\ ask.range \in Ranges /\ hNow \in Nat /\ from \in Int
      /\ \A at \in Nat : InWindow(ask.range, at) => (at < from <=> Aged(ask.range, at, hNow))
  BY WindowReach DEF HistTypeOK
<1> HIDE DEF from
<1>3. query'.phase = "reading" /\ query'.from = from /\ query'.read = 0 /\ query'.entries = {} /\ query'.capped = FALSE
  BY <1>1 DEF Quiet
<1>4. HistTypeOK'
  BY <1>1, <1>2 DEF HistTypeOK, Quiet
<1>5. RowsInv' /\ OnceEach' /\ WindowInv'
  BY <1>1, <1>2, <1>3 DEF RowsInv, OnceEach, WindowInv
<1>6. CursorInv'
  BY <1>1, <1>3 DEF CursorInv
<1>7. KeptInv'
  <2>1. \A r \in atStart : Wished(r) /\ r.at < query.from => r.at < from
    <3>1. \A r \in atStart : r.at \in Nat
      BY DEF HistTypeOK, HistRows
    <3> QED  BY <1>2, <3>1 DEF Wished, WindowInv
  <2>2. \A r : /\ Wished(r)' <=> Wished(r)
               /\ OnPage(r)' <=> OnPage(r)
               /\ Ahead(r)' <=> Ahead(r)
               /\ Deep(r)' <=> Deep(r)
    BY <1>1 DEF Wished, OfType, OnPage, Ahead, Deep, NoOlder
  <2>3. CASE query.phase = "idle"
    BY <2>2, <2>3 DEF KeptInv, CursorInv, Ahead
  <2>4. CASE query.phase = "more"
    BY <1>1, <1>3, <2>1, <2>2, <2>4 DEF KeptInv
  <2> QED  BY <1>1, <2>3, <2>4
<1>8. FoundInv' /\ DoneInv'
  BY <1>3 DEF FoundInv, DoneInv, WasRead
<1> QED  BY <1>4, <1>5, <1>6, <1>7, <1>8

\* A read finds what its window holds, or says that it was cut.
LEMMA ReadStep ==
  ASSUME HistInv, ReadSource
  PROVE  HistInv'
<1> USE DEF HistInv
<1> DEFINE source == ask.tool.reads[query.read + 1]
<1>1. /\ query.phase = "reading" /\ query.read < Len(ask.tool.reads)
      /\ UNCHANGED <<hNow, hRows, ask, pages, atStart>>
  BY DEF ReadSource
<1>2. PICK rows \in Reads(source, ask.tool.type, query.from) :
        query' = [query EXCEPT !.read = @ + 1, !.entries = @ \cup rows,
                               !.capped = @ \/ Cardinality(rows) >= ReadLimit]
  BY DEF ReadSource
<1>3. ask.tool.reads \in Seq(Sources) /\ query.read \in Nat /\ query.from \in Int
  BY HistoryAssumption DEF HistTypeOK, Sources
<1>4. source \in Sources
  BY <1>1, <1>3
<1> HIDE DEF source
<1>5. rows \subseteq hRows
  <2>1. rows \in Newest({x \in hRows : x.source = source /\ x.at >= query.from /\ OfType(x)}, ReadLimit)
    BY <1>4, ReadsAre
  <2> QED  BY <2>1 DEF Newest
<1>6. /\ query'.phase = query.phase /\ query'.from = query.from /\ query'.read = query.read + 1
      /\ query'.entries = query.entries \cup rows
      /\ query'.capped = (query.capped \/ Cardinality(rows) >= ReadLimit)
  BY <1>2 DEF HistTypeOK
<1>7. HistTypeOK'
  <2>1. query' \in [phase : {"idle", "reading", "more", "done"}, from : Int, read : Nat,
                    entries : SUBSET hRows, capped : BOOLEAN]
    <3>1. (query.capped \/ Cardinality(rows) >= ReadLimit) \in BOOLEAN
      OBVIOUS
    <3>2. query.entries \cup rows \in SUBSET hRows /\ query.read + 1 \in Nat
      BY <1>3, <1>5 DEF HistTypeOK
    <3> QED  BY <1>2, <3>1, <3>2 DEF HistTypeOK
  <2> QED  BY <1>1, <2>1 DEF HistTypeOK
<1>8. RowsInv' /\ OnceEach' /\ CursorInv' /\ WindowInv'
  BY <1>1, <1>6 DEF RowsInv, OnceEach, CursorInv, WindowInv
<1>9. \A r : /\ Wished(r)' <=> Wished(r)
             /\ OnPage(r)' <=> OnPage(r)
             /\ Ahead(r)' <=> Ahead(r)
             /\ Deep(r)' <=> Deep(r)
  BY <1>1 DEF Wished, OfType, OnPage, Ahead, Deep, NoOlder
<1>10. KeptInv' /\ DoneInv'
  BY <1>1, <1>6, <1>9 DEF KeptInv, DoneInv
<1>11. ASSUME NEW r \in atStart, Wished(r), WasRead(r)'
       PROVE  OnPage(r) \/ (Ahead(r) /\ r \in query'.entries) \/ r.at < query'.from \/ (Deep(r) /\ query'.capped)
  <2>1. WasRead(r) \/ r.source = source
    <3>1. PICK i \in 1..query'.read : ask.tool.reads[i] = r.source
      BY <1>1, <1>11 DEF WasRead
    <3>2. i \in 1..query.read \/ i = query.read + 1
      BY <1>3, <1>6, <3>1
    <3> QED  BY <3>1, <3>2 DEF WasRead, source
  <2>2. CASE WasRead(r)
    BY <1>1, <1>6, <1>11, <2>2 DEF FoundInv
  <2>3. CASE r.source = source
    <3>1. OnPage(r) \/ Ahead(r) \/ r.at < query.from \/ Deep(r)
      BY <1>1, <1>11 DEF KeptInv
    <3>2. CASE r.at >= query.from
      <4>1. r \in hRows /\ OfType(r)
        BY <1>11 DEF Wished, HistTypeOK
      <4>2. (r \in rows \/ Deep(r)) /\ (Deep(r) => Cardinality(rows) >= ReadLimit)
        BY <1>2, <1>3, <1>4, <2>3, <3>2, <4>1, ReadFinds
      <4> QED  BY <1>6, <3>1, <3>2, <4>2
    <3>3. r.at \in Int
      BY DEF HistTypeOK, HistRows
    <3> QED  BY <1>3, <1>6, <3>2, <3>3
  <2> QED  BY <2>1, <2>2, <2>3
<1>12. FoundInv'
  BY <1>1, <1>9, <1>11 DEF FoundInv
<1> QED  BY <1>7, <1>8, <1>10, <1>12

\* A page and its cursor split the candidates without a gap.
LEMMA AnswerStep ==
  ASSUME HistInv, AnswerPage
  PROVE  HistInv'
<1> USE DEF HistInv
<1> DEFINE S == Candidates(query.entries, ask)
           page == Page(S)
           last == Cardinality(S) <= PageLimit
           size == IF Cardinality(S) < PageLimit THEN Cardinality(S) ELSE PageLimit
<1>1. /\ query.phase = "reading" /\ query.read = Len(ask.tool.reads)
      /\ pages' = pages \o page
      /\ query' = [query EXCEPT !.phase = IF last THEN "done" ELSE "more", !.entries = {}]
      /\ ask' = IF last THEN ask ELSE [ask EXCEPT !.after = Position(page[PageLimit])]
      /\ UNCHANGED <<hNow, hRows, atStart>>
  BY DEF AnswerPage
<1>2. S \in SUBSET hRows /\ S \subseteq query.entries /\ IsFiniteSet(S) /\ Cardinality(S) \in Nat
  <2>1. S \subseteq query.entries /\ S \subseteq hRows
    BY DEF Candidates, HistTypeOK
  <2> QED  BY <2>1, FS_Subset, FS_CardinalityType DEF HistTypeOK
<1>3. S \in SUBSET HistRows /\ Distinct(S)
  BY <1>2 DEF HistTypeOK, RowsInv, Distinct
<1>4. \A r \in S : ask.after = NoCursor \/ Before(ask.after, Position(r))
  BY DEF Candidates
<1>5. \A r \in query.entries : InWindow(ask.range, r.at) /\ Ahead(r) => r \in S
  BY DEF Candidates, Ahead
<1> HIDE DEF S
<1>6. /\ page \in [1..size -> S]
      /\ \A i, j \in 1..size : i < j => Before(Position(page[i]), Position(page[j]))
      /\ \A r \in S : (\E i \in 1..size : page[i] = r)
                      \/ (Cardinality(S) > PageLimit /\ Before(Position(page[PageLimit]), Position(r)))
  BY <1>2, <1>3, PageWorks
<1> HIDE DEF page
<1>7. PageLimit \in Nat /\ PageLimit >= 1 /\ size \in Nat /\ (~last => size = PageLimit)
  BY <1>2, HistoryAssumption
<1> HIDE DEF size
<1>8. page \in Seq(hRows) /\ Len(page) = size
  BY <1>2, <1>6, <1>7
<1>9. /\ pages' \in Seq(hRows) /\ DOMAIN pages' = 1..(Len(pages) + size) /\ DOMAIN pages = 1..Len(pages) /\ Len(pages) \in Nat
      /\ \A i \in 1..Len(pages) : pages'[i] = pages[i]
      /\ \A i \in 1..size : pages'[Len(pages) + i] = page[i]
  BY <1>1, <1>7, <1>8 DEF HistTypeOK
<1>10. \A i \in DOMAIN pages' : (i \in 1..Len(pages) /\ pages'[i] = pages[i])
                                \/ (i - Len(pages) \in 1..size /\ pages'[i] = page[i - Len(pages)] /\ i > Len(pages))
  <2> TAKE i \in DOMAIN pages'
  <2>1. i \in 1..Len(pages) \/ (i - Len(pages) \in 1..size /\ i > Len(pages))
    BY <1>7, <1>9
  <2>2. i = Len(pages) + (i - Len(pages))
    BY <1>9
  <2> QED  BY <1>9, <2>1, <2>2
<1>11. /\ query'.phase = IF last THEN "done" ELSE "more"
       /\ query'.from = query.from /\ query'.capped = query.capped
  BY <1>1 DEF HistTypeOK
<1>12. ~last => PageLimit \in 1..size /\ page[PageLimit] \in hRows /\ ask'.after = Position(page[PageLimit])
  BY <1>1, <1>2, <1>6, <1>7 DEF HistTypeOK
<1>13. ask'.tool = ask.tool /\ ask'.range = ask.range
  BY <1>1 DEF HistTypeOK
<1>14. /\ \A r \in hRows : Position(r) \in Positions /\ Position(r) # NoCursor
       /\ ask.after \in Positions
  BY RowPosition DEF HistTypeOK
\* What is on the new page comes after what is on the earlier ones.
<1>15. \A i \in 1..Len(pages), j \in 1..size : Before(Position(pages[i]), Position(page[j]))
  <2> TAKE i \in 1..Len(pages), j \in 1..size
  <2>1. page[j] \in S /\ page[j] \in hRows /\ pages[i] \in hRows
    BY <1>2, <1>6, <1>9 DEF HistTypeOK
  <2>2. ask.after # NoCursor
    BY <1>1, <1>9 DEF CursorInv
  <2>3. ask.after = Position(pages[i]) \/ Before(Position(pages[i]), ask.after)
    BY <1>1, <1>9 DEF CursorInv
  <2>4. Before(ask.after, Position(page[j]))
    BY <1>4, <2>1, <2>2
  <2> QED  BY <1>14, <2>1, <2>3, <2>4, BeforeOrder
<1>16. HistTypeOK'
  <2>1. query' \in [phase : {"idle", "reading", "more", "done"}, from : Int, read : Nat,
                    entries : SUBSET hRows, capped : BOOLEAN]
    BY <1>1 DEF HistTypeOK
  <2>2. ask' \in [tool : Tools, range : Ranges, after : Positions]
    BY <1>1, <1>12, <1>14 DEF HistTypeOK
  <2> QED  BY <1>1, <1>9, <2>1, <2>2 DEF HistTypeOK
<1>17. RowsInv' /\ WindowInv' /\ FoundInv'
  BY <1>1, <1>11, <1>13 DEF RowsInv, WindowInv, FoundInv
<1>18. OnceEach'
  <2> SUFFICES ASSUME NEW i \in DOMAIN pages', NEW j \in DOMAIN pages', i < j
               PROVE  Before(Position(pages'[i]), Position(pages'[j]))
    BY DEF OnceEach
  <2>1. CASE j \in 1..Len(pages)
    <3>1. i \in 1..Len(pages)
      BY <1>9, <2>1
    <3> QED  BY <1>9, <2>1, <3>1 DEF OnceEach
  <2>2. CASE i \in 1..Len(pages) /\ j > Len(pages)
    BY <1>9, <1>10, <1>15, <2>2
  <2>3. CASE i > Len(pages) /\ j > Len(pages)
    <3>1. i - Len(pages) \in 1..size /\ j - Len(pages) \in 1..size /\ i - Len(pages) < j - Len(pages)
      BY <1>7, <1>9, <2>3
    <3> QED  BY <1>6, <1>9, <1>10, <2>3, <3>1
  <2> QED  BY <1>7, <1>9, <2>1, <2>2, <2>3
<1>19. CursorInv'
  <2>1. CASE last
    BY <1>11, <2>1 DEF CursorInv
  <2>2. CASE ~last
    <3>1. ask'.after # NoCursor
      BY <1>12, <1>14, <2>2
    <3>2. ASSUME NEW i \in DOMAIN pages'
          PROVE  ask'.after = Position(pages'[i]) \/ Before(Position(pages'[i]), ask'.after)
      <4>1. CASE i \in 1..Len(pages)
        BY <1>9, <1>12, <1>15, <2>2, <4>1
      <4>2. CASE i > Len(pages)
        <5>1. i - Len(pages) \in 1..size /\ pages'[i] = page[i - Len(pages)]
          BY <1>9, <1>10, <4>2
        <5>2. i - Len(pages) = PageLimit \/ i - Len(pages) < PageLimit
          BY <1>7, <2>2, <5>1
        <5> QED  BY <1>6, <1>12, <2>2, <5>1, <5>2
      <4> QED  BY <1>9, <4>1, <4>2
    <3> QED  BY <1>11, <2>2, <3>1, <3>2 DEF CursorInv
  <2> QED  BY <2>1, <2>2
<1>20. \A r : /\ Wished(r)' <=> Wished(r)
              /\ Deep(r)' <=> Deep(r)
              /\ OnPage(r) => OnPage(r)'
  <2>1. \A r : (Wished(r)' <=> Wished(r)) /\ (Deep(r)' <=> Deep(r))
    BY <1>1, <1>13 DEF Wished, OfType, Deep, NoOlder
  <2>2. ASSUME NEW r, OnPage(r) PROVE OnPage(r)'
    <3>1. PICK i \in 1..Len(pages) : pages[i] = r
      BY <1>9, <2>2 DEF OnPage
    <3>2. i \in DOMAIN pages' /\ pages'[i] = r
      BY <1>7, <1>9, <3>1
    <3> QED  BY <3>2 DEF OnPage
  <2> QED  BY <2>1, <2>2
<1>21. ASSUME NEW r \in atStart, Wished(r)
       PROVE  OnPage(r)' \/ (~last /\ Ahead(r)') \/ r.at < query.from \/ (Deep(r) /\ query.capped)
  <2>1. WasRead(r)
    <3>1. ask.tool.reads \in Seq(Sources)
      BY HistoryAssumption DEF HistTypeOK, Sources
    <3>2. DOMAIN ask.tool.reads = 1..query.read
      BY <1>1, <3>1
    <3> QED  BY <1>21, <3>2 DEF Wished, WasRead
  <2>2. OnPage(r) \/ (Ahead(r) /\ r \in query.entries) \/ r.at < query.from \/ (Deep(r) /\ query.capped)
    BY <1>1, <1>21, <2>1 DEF FoundInv
  <2>3. CASE Ahead(r) /\ r \in query.entries
    <3>1. r \in S
      BY <1>5, <1>21, <2>3 DEF Wished
    <3>2. CASE \E i \in 1..size : page[i] = r
      <4>1. PICK i \in 1..size : page[i] = r
        BY <3>2
      <4>2. Len(pages) + i \in DOMAIN pages' /\ pages'[Len(pages) + i] = r
        BY <1>7, <1>9, <4>1
      <4> QED  BY <4>2 DEF OnPage
    <3>3. CASE Cardinality(S) > PageLimit /\ Before(Position(page[PageLimit]), Position(r))
      <4>1. ~last
        BY <1>2, <1>7, <3>3
      <4> QED  BY <1>12, <3>3, <4>1 DEF Ahead
    <3> QED  BY <1>6, <3>1, <3>2, <3>3
  <2> QED  BY <1>20, <2>2, <2>3
<1>22. KeptInv' /\ DoneInv'
  BY <1>1, <1>11, <1>20, <1>21 DEF KeptInv, DoneInv
<1> QED  BY <1>16, <1>17, <1>18, <1>19, <1>22

\* The invariant of the history tools.
THEOREM HistoryInvariance == HistSpec => []HistInv
<1>1. HistInit => HistInv
  BY HistInitOK
<1>2. HistInv /\ [HistNext]_histVars => HistInv'
  <2> SUFFICES ASSUME HistInv, [HistNext]_histVars PROVE HistInv'
    OBVIOUS
  <2>1. hNow \in Nat /\ hRows \subseteq HistRows /\ IsFiniteSet(hRows) /\ RowsInv
    BY DEF HistInv, HistTypeOK
  <2>2. CASE HistRecord
    <3>1. UNCHANGED <<hNow, ask, query, pages, atStart>>
      BY <2>2 DEF HistRecord
    <3>2. hRows \subseteq hRows' /\ hRows' \subseteq HistRows /\ IsFiniteSet(hRows') /\ RowsInv'
      BY <2>2, RecordStep DEF HistInv
    <3> QED  BY <2>1, <3>1, <3>2, MeanwhileStep
  <2>3. CASE HistTick \/ StatsTotal \/ StatsByType \/ UNCHANGED histVars
    <3>1. UNCHANGED <<hRows, ask, query, pages, atStart>> /\ (hNow' = hNow \/ hNow' = hNow + 1)
      BY <2>3 DEF HistTick, StatsTotal, StatsByType, histVars
    <3>2. RowsInv'
      BY <2>1, <3>1 DEF RowsInv
    <3> QED  BY <2>1, <3>1, <3>2, MeanwhileStep
  <2>4. CASE AskPage
    BY <2>4, AskStep
  <2>5. CASE ReadSource
    BY <2>5, ReadStep
  <2>6. CASE AnswerPage
    BY <2>6, AnswerStep
  <2> QED  BY <2>2, <2>3, <2>4, <2>5, <2>6 DEF HistNext
<1> QED  BY <1>1, <1>2, PTL DEF HistSpec

\* Paging to the end of a history misses nothing silently and repeats nothing,
\* whatever is recorded between the pages, however many reads a tool merges
\* and wherever they are cut.
THEOREM PagingExact == HistSpec => [](PagesComplete /\ OnceEach)
<1>1. HistInv => PagesComplete /\ OnceEach
  <2> SUFFICES ASSUME HistInv, query.phase = "done", ~query.capped, NEW r \in atStart,
                      Wished(r), r.at >= query.from
               PROVE  OnPage(r)
    BY DEF PagesComplete, HistInv, Wished, OfType, OnPage
  <2>1. r.at \in Int /\ query.from \in Int
    BY DEF HistInv, HistTypeOK, HistRows
  <2> QED  BY <2>1 DEF HistInv, DoneInv
<1> QED  BY <1>1, HistoryInvariance, PTL

-------------------------------------------------------------------------------
(* History: the counts of one answer                                        *)

\* The kinds of alert, and the sum AlertStats makes of a count of each.
Kinds == {"low", "error"}
Total(f, S) == MapThenSumSet(LAMBDA t : f[t], S)

\* MapThenSumSet over the two kinds of alert is their sum.
LEMMA SumOfKinds ==
  ASSUME NEW f, NEW S \in SUBSET Kinds, \A t \in S : f[t] \in Nat
  PROVE  Total(f, S) =
           (IF "low" \in S THEN f["low"] ELSE 0) + (IF "error" \in S THEN f["error"] ELSE 0)
<1> DEFINE one(s) == CHOOSE x \in s : TRUE
           Step(g) == [s \in SUBSET S |-> IF s = {} THEN 0 ELSE f[one(s)] + g[s \ {one(s)}]]
           iter == CHOOSE g : g = Step(g)
           sum == [s \in SUBSET S |-> (IF "low" \in s THEN f["low"] ELSE 0) + (IF "error" \in s THEN f["error"] ELSE 0)]
<1>1. Total(f, S) = iter[S]
  BY DEF Total, MapThenSumSet, MapThenFoldSet
<1>2. \A s \in SUBSET S : s # {} => one(s) \in s
  OBVIOUS
<1> HIDE DEF one
<1>3. sum = Step(sum)
  <2>1. ASSUME NEW s \in SUBSET S, s # {}
        PROVE  sum[s] = f[one(s)] + sum[s \ {one(s)}]
    <3>1. one(s) \in s /\ (s = {"low"} \/ s = {"error"} \/ s = {"low", "error"})
      BY <1>2, <2>1 DEF Kinds
    <3>2. ("low" \in s => f["low"] \in Nat) /\ ("error" \in s => f["error"] \in Nat)
      OBVIOUS
    <3>3. CASE one(s) = "low"
      <4>1. "low" \in s /\ "low" \notin s \ {one(s)} /\ ("error" \in s \ {one(s)} <=> "error" \in s)
        BY <3>1, <3>3
      <4> QED  BY <3>2, <3>3, <4>1
    <3>4. CASE one(s) = "error"
      <4>1. "error" \in s /\ "error" \notin s \ {one(s)} /\ ("low" \in s \ {one(s)} <=> "low" \in s)
        BY <3>1, <3>4
      <4> QED  BY <3>2, <3>4, <4>1
    <3> QED  BY <3>1, <3>3, <3>4
  <2>2. sum[{}] = 0
    OBVIOUS
  <2> QED  BY <2>1, <2>2
<1>4. iter = Step(iter)
  BY <1>3
<1> HIDE DEF iter
<1>5. iter[{}] = 0
  BY <1>4
<1>6. ASSUME NEW s \in SUBSET S, s # {}
      PROVE  iter[s] = f[one(s)] + iter[s \ {one(s)}]
  BY <1>4, <1>6
<1>7. \A x \in S : iter[{x}] = f[x]
  <2> TAKE x \in S
  <2>1. one({x}) = x
    BY <1>2
  <2>2. iter[{x}] = f[x] + iter[{x} \ {x}]
    BY <1>6, <2>1
  <2>3. {x} \ {x} = {}
    OBVIOUS
  <2> QED  BY <1>5, <2>2, <2>3
<1>8. iter[S] = sum[S]
  <2>1. CASE S = {}
    BY <1>5, <2>1
  <2>2. ASSUME NEW x \in S, S = {x} PROVE iter[S] = sum[S]
    BY <1>7, <2>2 DEF Kinds
  <2>3. CASE S = Kinds
    <3>1. iter[S] = f[one(S)] + iter[S \ {one(S)}]
      BY <1>6, <2>3 DEF Kinds
    <3>2. CASE one(S) = "low"
      <4>1. S \ {one(S)} = {"error"}
        BY <2>3, <3>2 DEF Kinds
      <4> QED  BY <1>7, <2>3, <3>1, <3>2, <4>1 DEF Kinds
    <3>3. CASE one(S) = "error"
      <4>1. S \ {one(S)} = {"low"}
        BY <2>3, <3>3 DEF Kinds
      <4>2. f["low"] \in Nat /\ f["error"] \in Nat
        BY <2>3 DEF Kinds
      <4>3. iter[S] = f["error"] + f["low"]
        BY <1>7, <2>3, <3>1, <3>3, <4>1 DEF Kinds
      <4>4. sum[S] = f["low"] + f["error"]
        BY <2>3 DEF Kinds
      <4> QED  BY <4>2, <4>3, <4>4
    <3> QED  BY <1>2, <2>3, <3>2, <3>3 DEF Kinds
  <2> QED  BY <2>1, <2>2, <2>3 DEF Kinds
<1> QED  BY <1>1, <1>8

\* What was counted first can only have become more.
StatsInv ==
  /\ stats \in [phase : {"idle", "types", "done"}, from : Int, total : Nat, byType : Nat]
  /\ stats.phase = "types" => stats.total <= CountAlerts(hRows, stats.from)
  /\ StatsOneWindow

\* Counting by kind leaves no row out.
LEMMA CountedByKind ==
  ASSUME HistTypeOK, NEW from \in Int
  PROVE  LET n == CountAlertsByType(hRows, from)
             total == MapThenSumSet(LAMBDA t : n[t], DOMAIN n)
         IN  total \in Nat /\ total >= CountAlerts(hRows, from)
<1> DEFINE seen == Rows(hRows, "alert", from, "", "")
           Of(t) == {r \in seen : r.kind = t}
           n == CountAlertsByType(hRows, from)
           Count(t) == IF t \in DOMAIN n THEN n[t] ELSE 0
<1>1. seen \subseteq hRows /\ IsFiniteSet(seen) /\ \A r \in seen : r.kind \in Kinds
  <2>1. seen \subseteq hRows
    BY DEF Rows
  <2>2. IsFiniteSet(seen)
    BY <2>1, FS_Subset DEF HistTypeOK
  <2> QED  BY <2>1, <2>2 DEF HistTypeOK, HistRows, Kinds
<1> HIDE DEF seen
<1>2. n = [t \in {r.kind : r \in seen} |-> Cardinality(Of(t))]
  BY DEF CountAlertsByType, seen
<1>3. \A t \in Kinds : IsFiniteSet(Of(t)) /\ Cardinality(Of(t)) \in Nat
  BY <1>1, FS_Subset, FS_CardinalityType
<1>4. Of("low") \cup Of("error") = seen
  BY <1>1 DEF Kinds
<1>5. \A t \in Kinds : t \notin DOMAIN n => Of(t) = {}
  BY <1>2
<1> HIDE DEF Of
<1>6. DOMAIN n \in SUBSET Kinds /\ \A t \in DOMAIN n : n[t] = Cardinality(Of(t))
  BY <1>1, <1>2
<1> HIDE DEF n
<1>7. \A t \in Kinds : Count(t) = Cardinality(Of(t))
  BY <1>5, <1>6, FS_EmptySet
<1>8. Total(n, DOMAIN n) = Count("low") + Count("error")
  BY <1>3, <1>6, SumOfKinds
<1>9. Cardinality(seen) <= Cardinality(Of("low")) + Cardinality(Of("error"))
  <2>1. IsFiniteSet(Of("low")) /\ IsFiniteSet(Of("error"))
    BY <1>3 DEF Kinds
  <2>2. Cardinality(seen) = Cardinality(Of("low")) + Cardinality(Of("error")) - Cardinality(Of("low") \cap Of("error"))
    BY <1>4, <2>1, FS_Union
  <2>3. Cardinality(Of("low") \cap Of("error")) \in Nat /\ Cardinality(Of("low")) \in Nat /\ Cardinality(Of("error")) \in Nat
    BY <2>1, FS_Intersection, FS_CardinalityType
  <2> QED  BY <2>2, <2>3
<1>10. Cardinality(Of("low")) \in Nat /\ Cardinality(Of("error")) \in Nat
  BY <1>3 DEF Kinds
<1>11. Count("low") = Cardinality(Of("low")) /\ Count("error") = Cardinality(Of("error"))
  BY <1>7 DEF Kinds
<1> HIDE DEF Count
<1>12. Total(n, DOMAIN n) \in Nat /\ Total(n, DOMAIN n) >= Cardinality(seen)
  <2>1. Cardinality(seen) \in Nat
    BY <1>1, FS_CardinalityType
  <2> QED  BY <1>8, <1>9, <1>10, <1>11, <2>1
<1> QED  BY <1>12 DEF Total, CountAlerts, seen, n

\* While one answer is counted rows are only added, and its window stays.
LEMMA StatsStep ==
  ASSUME HistTypeOK, HistTypeOK', StatsInv, [HistNext]_histVars
  PROVE  StatsInv'
<1>1. HistDay \in Nat
  BY HistoryAssumption
<1>2. hRows \subseteq hRows'
  <2>1. CASE HistRecord
    BY <2>1 DEF HistRecord, InsertHistory
  <2>2. CASE HistTick \/ AskPage \/ ReadSource \/ AnswerPage \/ StatsTotal \/ StatsByType \/ UNCHANGED histVars
    BY <2>2 DEF HistTick, AskPage, ReadSource, AnswerPage, StatsTotal, StatsByType, histVars
  <2> QED  BY <2>1, <2>2 DEF HistNext
<1>3. \A from \in Int : CountAlerts(hRows, from) \in Nat /\ CountAlerts(hRows', from) \in Nat
                        /\ CountAlerts(hRows, from) <= CountAlerts(hRows', from)
  <2> TAKE from \in Int
  <2> DEFINE seen == Rows(hRows, "alert", from, "", "")
             now == Rows(hRows', "alert", from, "", "")
  <2>1. seen \subseteq now /\ now \subseteq hRows'
    BY <1>2 DEF Rows
  <2> HIDE DEF seen, now
  <2>2. IsFiniteSet(now)
    BY <2>1, FS_Subset DEF HistTypeOK
  <2>3. IsFiniteSet(seen) /\ Cardinality(seen) <= Cardinality(now)
    BY <2>1, <2>2, FS_Subset
  <2>4. Cardinality(seen) \in Nat /\ Cardinality(now) \in Nat
    BY <2>2, <2>3, FS_CardinalityType
  <2> QED  BY <2>3, <2>4 DEF CountAlerts, seen, now
<1>4. CASE UNCHANGED stats
  <2>1. stats.from \in Int /\ stats.total \in Nat
    BY DEF StatsInv
  <2> QED  BY <1>3, <1>4, <2>1 DEF StatsInv, StatsOneWindow
<1>5. CASE StatsTotal
  <2> DEFINE from == hNow - HistDay
             count == CountAlerts(hRows, from)
  <2>1. /\ stats' = [stats EXCEPT !.phase = "types", !.from = from, !.total = count]
        /\ UNCHANGED hRows
    BY <1>5 DEF StatsTotal
  <2>2. from \in Int
    BY <1>1 DEF HistTypeOK
  <2>3. count \in Nat /\ CountAlerts(hRows', from) = count
    BY <1>3, <2>1, <2>2
  <2> HIDE DEF count, from
  <2>4. /\ stats' \in [phase : {"idle", "types", "done"}, from : Int, total : Nat, byType : Nat]
        /\ stats'.phase = "types" /\ stats'.from = from /\ stats'.total = count
    BY <2>1, <2>2, <2>3 DEF StatsInv
  <2> QED  BY <2>3, <2>4 DEF StatsInv, StatsOneWindow
<1>6. CASE StatsByType
  <2> DEFINE total == LET n == CountAlertsByType(hRows, stats.from) IN MapThenSumSet(LAMBDA t : n[t], DOMAIN n)
  <2>1. stats.phase = "types" /\ stats' = [stats EXCEPT !.phase = "done", !.byType = total]
    BY <1>6 DEF StatsByType
  <2>2. total \in Nat /\ total >= CountAlerts(hRows, stats.from)
    BY CountedByKind DEF StatsInv
  <2> HIDE DEF total
  <2>3. CountAlerts(hRows, stats.from) \in Nat /\ stats.total \in Nat /\ stats.total <= CountAlerts(hRows, stats.from)
    BY <1>3, <2>1 DEF StatsInv
  <2>4. /\ stats' \in [phase : {"idle", "types", "done"}, from : Int, total : Nat, byType : Nat]
        /\ stats'.phase = "done" /\ stats'.byType = total /\ stats'.total = stats.total
    BY <2>1, <2>2 DEF StatsInv
  <2> QED  BY <2>2, <2>3, <2>4 DEF StatsInv, StatsOneWindow
<1>7. StatsTotal \/ StatsByType \/ UNCHANGED stats
  BY DEF HistNext, HistTick, HistRecord, AskPage, ReadSource, AnswerPage, histVars
<1> QED  BY <1>4, <1>5, <1>6, <1>7

\* What an agent is told of the past is exact, for every limit, range and tool:
\* the pages and the counts together.
THEOREM PastIsExact == HistSpec => []HistoryExact
<1>1. HistInit => StatsInv
  BY DEF HistInit, NoStats, StatsInv, StatsOneWindow
<1>2. HistInv => HistTypeOK
  BY DEF HistInv
<1>3. HistInv /\ HistInv' /\ StatsInv /\ [HistNext]_histVars => StatsInv'
  <2>1. HistInv' => HistTypeOK'
    BY DEF HistInv
  <2> QED  BY <1>2, <2>1, StatsStep
<1>4. PagesComplete /\ OnceEach /\ StatsInv => HistoryExact
  BY DEF StatsInv, HistoryExact
<1> QED  BY <1>1, <1>3, <1>4, HistoryInvariance, PagingExact, PTL DEF HistSpec

==============================================================================

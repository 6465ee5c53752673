------------------------------ MODULE Secrets ------------------------------
(***************************************************************************)
(* The stored API keys of project_config and passwords of email_config:    *)
(* optional encryption (src/internal/store/crypto.go), encryption of       *)
(* legacy plaintext when it is read (src/internal/store/sql.go), and the   *)
(* masked values pages are shown and send back (src/internal/httpapi).     *)
(* One row of either table; the operator may change or drop                *)
(* CONFIG_ENCRYPTION_KEY at a restart.                                     *)
(***************************************************************************)
EXTENDS Integers, FiniteSets, TLC

CONSTANTS
  Texts,           \* secrets
  CryptKeys,       \* values of CONFIG_ENCRYPTION_KEY
  NoKey,           \* none is set
  AutoEncryptOnRead,
  Listers,         \* concurrent loads and page requests
  MaxSecretEdits, MaxKeyChanges

SecretKinds == {"project", "mailbox"}

\* A column value: the text and the key it is encrypted with.
Plain(text) == [key |-> NoKey, text |-> text]
Cipher(key, text) == [key |-> key, text |-> text]

\* What a page shows for a value and sends back.
Mask(kind, value) == [mask |-> IF kind = "mailbox" THEN "***" ELSE value]

AtEase == [pc |-> "idle"]

VARIABLES
  kind,            \* the table the row is in
  secret,          \* the column, as stored
  configKey,       \* the key the process runs with
  lister,          \* [Listers -> where its list or save is]
  shown,           \* the masks pages have on screen
  secretEdits, keyChanges,
  meant,           \* ghost: the text the last save meant
  lost,            \* ghost: a write replaced a value it had not read, or a mask was taken for a secret
  sealed           \* ghost: the row was listed as ciphertext or saved under a key, and no process
                   \* without one saved a new value or one it had read before another write

SecretVars == <<kind, secret, configKey, lister, shown, secretEdits, keyChanges, meant, lost, sealed>>

\* A row from before encryption was configured, or one encrypted by then.
SecretInit ==
  /\ kind \in SecretKinds
  /\ configKey \in CryptKeys \cup {NoKey}
  /\ \E k \in CryptKeys \cup {NoKey}, t \in Texts : secret = [key |-> k, text |-> t] /\ meant = t
  /\ lister = [l \in Listers |-> AtEase]
  /\ shown = {}
  /\ secretEdits = 0 /\ keyChanges = 0
  /\ lost = FALSE /\ sealed = FALSE

isEncrypted(value) == value.key # NoKey

enabled == configKey # NoKey

\* Mutant: ciphertext is encrypted once more.
encryptTwice(value) ==
  IF ~enabled THEN value
  ELSE IF isEncrypted(value) THEN Cipher(configKey, value) ELSE Cipher(configKey, value.text)

\* Ciphertext passes through, so saving a value that could not be read keeps it.
encrypt(value) == IF isEncrypted(value) \/ ~enabled THEN value ELSE Cipher(configKey, value.text)

\* What cannot be decrypted is returned as it is.
decrypt(value) == IF enabled /\ value.key = configKey THEN Plain(value.text) ELSE value

shouldEncryptOnRead(value) == AutoEncryptOnRead /\ enabled /\ ~isEncrypted(value)

Turn(l, state) == lister' = [lister EXCEPT ![l] = state]

\* ListProjects or ListMailboxes: the SELECT.
List(l, goal) ==
  /\ lister[l] = AtEase
  /\ goal # "load" => secretEdits < MaxSecretEdits
  /\ secretEdits' = secretEdits + (IF goal = "load" THEN 0 ELSE 1)
  /\ Turn(l, [pc |-> IF shouldEncryptOnRead(secret) THEN "rewrite" ELSE "listed", read |-> secret, goal |-> goal])
  /\ UNCHANGED <<kind, secret, configKey, shown, keyChanges, meant, lost, sealed>>

\* The UPDATE of a row that was plaintext when it was listed.  It names the row
\* and nothing else: a value saved since then is replaced.
Rewrite(l) ==
  LET w == lister[l]
  IN  /\ w.pc = "rewrite"
      /\ secret' = encrypt(w.read)
      /\ lost' = (lost \/ secret.text # w.read.text)
      /\ Turn(l, [w EXCEPT !.pc = "listed"])
      /\ UNCHANGED <<kind, configKey, shown, secretEdits, keyChanges, meant, sealed>>

\* The list is returned, the value decrypted; a page is shown its mask.
Listed(l) ==
  LET w == lister[l]
  IN  /\ w.pc = "listed"
      /\ sealed' = (sealed \/ isEncrypted(secret))
      /\ IF w.goal = "load"
         THEN shown' = shown \cup {Mask(kind, decrypt(w.read))} /\ Turn(l, AtEase)
         ELSE UNCHANGED shown /\ Turn(l, [pc |-> "save", read |-> decrypt(w.read)])
      /\ UNCHANGED <<kind, secret, configKey, secretEdits, keyChanges, meant, lost>>

\* The value after the patch: an empty field or the mask of the value as it is now
\* leaves it alone.  A mailbox's mask is always the same.
Patched(old, sent) ==
  IF "empty" \in DOMAIN sent \/ sent = Mask(kind, old) THEN old
  ELSE IF "mask" \in DOMAIN sent THEN Plain("asterisks") ELSE Plain(sent.text)

\* A page sends a new secret, nothing, or the mask it was shown.
Sendable == {[text |-> t] : t \in Texts} \cup {[empty |-> TRUE]} \cup shown

SaveSecret(l, sent) ==
  LET w == lister[l]
  IN  /\ w.pc = "save"
      /\ secret' = encrypt(Patched(w.read, sent))
      /\ meant' = IF "text" \in DOMAIN sent THEN sent.text ELSE meant
      /\ lost' = IF "text" \in DOMAIN sent THEN FALSE
                 ELSE lost \/ w.read.text # secret.text \/ ("mask" \in DOMAIN sent /\ sent # Mask(kind, w.read))
      /\ sealed' = (enabled \/ (sealed /\ w.read = decrypt(secret) /\ Patched(w.read, sent) = w.read))
      /\ Turn(l, AtEase)
      /\ UNCHANGED <<kind, configKey, shown, secretEdits, keyChanges>>

\* A restart with another key, or none.  Lists that were under way are gone.
ChangeKey(k) ==
  /\ k # configKey /\ keyChanges < MaxKeyChanges
  /\ configKey' = k
  /\ keyChanges' = keyChanges + 1
  /\ lister' = [l \in Listers |-> AtEase]
  /\ UNCHANGED <<kind, secret, shown, secretEdits, meant, lost, sealed>>

SecretNext ==
  \/ \E l \in Listers :
       \/ \E goal \in {"load", "save"} : List(l, goal)
       \/ Rewrite(l)
       \/ Listed(l)
       \/ \E sent \in Sendable : SaveSecret(l, sent)
  \/ \E k \in CryptKeys \cup {NoKey} : ChangeKey(k)

SecretSpec == SecretInit /\ [][SecretNext]_SecretVars

-----------------------------------------------------------------------------
(* Properties.                                                             *)

\* The secret last saved is the one that is stored, through restarts with other
\* keys, encryption while reading and saves of a value that could not be
\* decrypted: no wrapping twice, no asterisks for a secret.  It is lost only when
\* a write meets a row that changed since it was read or, for an API key, a page
\* sends the mask of a value that is no longer there.
SecretSurvives == ~lost => secret.text = meant

\* A row that was once ciphertext, or was saved under a key, is never plaintext
\* again before a process without a key saves a new value, or writes back one that
\* is no longer the row's.
SealedStays == sealed => isEncrypted(secret)

\* A stored secret keeps its text and its seal over reads that encrypt, saves and
\* changes of the key.
SecretsKept == SecretSurvives /\ SealedStays

=============================================================================

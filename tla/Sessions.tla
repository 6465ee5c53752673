------------------------------ MODULE Sessions ------------------------------
(***************************************************************************)
(* Browser sessions (src/internal/httpapi/session.go and withAPIKey of     *)
(* server.go): a WEB_API_KEY is traded for a cookie, an expiry signed with *)
(* that key.  Keys are added and retired by restarting with another        *)
(* WEB_API_KEY.  The signature of a token is taken to be unforgeable.      *)
(***************************************************************************)
EXTENDS Integers, FiniteSets

CONSTANTS
  WebKeys,         \* keys WEB_API_KEY may list
  SessionPages,    \* browsers
  SessionTTL,      \* ticks a cookie lives
  SessionRenewWithin,
  MaxSessionTime, MaxRotations

ASSUME SessionAssumption ==
  /\ SessionTTL \in Nat
  /\ SessionRenewWithin \in 0..SessionTTL

NoCookie == [key |-> {}, expires |-> 0]

VARIABLES
  clock,
  apiKeys,         \* the keys the process runs with, as a sequence of one or two
  cookies,         \* [SessionPages -> the browser's cookie, or NoCookie]
  rotations,
  presented,       \* ghost: [SessionPages -> keys its user has typed since it last signed in]
  lastUse,         \* ghost: [SessionPages -> when a request of its last was let in]
  answer           \* the last answer: who asked, whether it changes state, and what came back

SessionVars == <<clock, apiKeys, cookies, rotations, presented, lastUse, answer>>

KeyLists == {<<k>> : k \in WebKeys} \cup {<<k, l>> : k \in WebKeys, l \in WebKeys}

Configured(key) == \E i \in DOMAIN apiKeys : apiKeys[i] = key

SessionInit ==
  /\ clock = 0 /\ rotations = 0
  /\ apiKeys \in KeyLists
  /\ cookies = [b \in SessionPages |-> NoCookie]
  /\ presented = [b \in SessionPages |-> {}]
  /\ lastUse = [b \in SessionPages |-> 0]
  /\ answer = [page |-> CHOOSE b \in SessionPages : TRUE, status |-> 200]

sessionToken(key, expires) == [key |-> {key}, expires |-> expires]

\* The configured key that signed a token that has not expired.
sessionSigner(token) ==
  {key \in token.key : Configured(key) /\ clock < token.expires}

setSessionCookie(b, key) ==
  cookies' = [cookies EXCEPT ![b] = sessionToken(key, clock + SessionTTL)]

\* The page sends the key itself.
handleSessionCreate(b, key) ==
  /\ Configured(key)
  /\ setSessionCookie(b, key)
  /\ presented' = [presented EXCEPT ![b] = {key}]
  /\ lastUse' = [lastUse EXCEPT ![b] = clock]
  /\ answer' = [page |-> b, status |-> 200]
  /\ UNCHANGED <<clock, apiKeys, rotations>>

\* Mutant: a renewed cookie is signed with the first key that is configured.
renewalFirst(b, token) == setSessionCookie(b, apiKeys[1])

\* A session in its last days is reissued, by the key that signed it.
renewal(b, token) ==
  IF token.expires - clock < SessionRenewWithin
  THEN setSessionCookie(b, CHOOSE k \in sessionSigner(token) : TRUE) ELSE UNCHANGED cookies

\* A request with the cookie.  A write that the browser marked as cross-site is
\* refused, after the cookie was renewed all the same.
withAPIKey(b, safeMethod, sameSiteRequest) ==
  LET token == cookies[b]
      signed == sessionSigner(token) # {}
  IN  /\ token # NoCookie
      /\ IF signed THEN renewal(b, token) ELSE UNCHANGED cookies
      /\ answer' = [page |-> b,
                    status |-> IF ~signed THEN 401 ELSE IF ~safeMethod /\ ~sameSiteRequest THEN 403 ELSE 200]
      /\ lastUse' = IF signed THEN [lastUse EXCEPT ![b] = clock] ELSE lastUse
      /\ UNCHANGED <<clock, apiKeys, rotations, presented>>

\* Signing out needs to be signed in; the cookie is cleared.
handleSessionDelete(b) ==
  /\ sessionSigner(cookies[b]) # {}
  /\ cookies' = [cookies EXCEPT ![b] = NoCookie]
  /\ presented' = [presented EXCEPT ![b] = {}]
  /\ answer' = [page |-> b, status |-> 200]
  /\ UNCHANGED <<clock, apiKeys, rotations, lastUse>>

Rotate(keys) ==
  /\ rotations < MaxRotations /\ keys # apiKeys
  /\ rotations' = rotations + 1
  /\ apiKeys' = keys
  /\ UNCHANGED <<clock, cookies, presented, lastUse, answer>>

SessionTick ==
  /\ clock < MaxSessionTime
  /\ clock' = clock + 1
  /\ UNCHANGED <<apiKeys, cookies, rotations, presented, lastUse, answer>>

SessionNext ==
  \/ \E b \in SessionPages :
       \/ \E key \in WebKeys : handleSessionCreate(b, key)
       \/ \E safe \in BOOLEAN, sameSite \in BOOLEAN : withAPIKey(b, safe, sameSite)
       \/ handleSessionDelete(b)
  \/ \E keys \in KeyLists : Rotate(keys)
  \/ SessionTick

SessionSpec == SessionInit /\ [][SessionNext]_SessionVars

-----------------------------------------------------------------------------
(* Properties.                                                             *)

\* "rotating WEB_API_KEY invalidates every session minted under the old one":
\* however often it was renewed, a session only works while a key its user typed
\* is configured.
RotationEndsSessions ==
  \A b \in SessionPages : sessionSigner(cookies[b]) \subseteq {k \in presented[b] : Configured(k)}

\* "an active dashboard never asks again and an abandoned one still expires": a
\* page is refused only when its key was retired or it stayed away for the renewal
\* period, and always when it stayed away for a cookie's life.
ActiveNeverAsked ==
  \A b \in SessionPages :
    (\E safe \in BOOLEAN, sameSite \in BOOLEAN : withAPIKey(b, safe, sameSite)) =>
      /\ (answer'.status = 401 =>
            clock - lastUse[b] >= SessionRenewWithin \/ ~\E k \in presented[b] : Configured(k))
      /\ (clock - lastUse[b] >= SessionTTL => answer'.status = 401)

\* A session lives as long as its user and its key do, neither shorter nor longer.
SessionsEndRight == [][RotationEndsSessions' /\ ActiveNeverAsked]_SessionVars

=============================================================================

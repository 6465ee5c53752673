-------------------------------- MODULE Push --------------------------------
(***************************************************************************)
(* Web push (src/internal/push/push.go, src/internal/httpapi/push.go): the *)
(* VAPID key pair kept in app_settings, the browsers registered under it   *)
(* and the notifications signed with it.  A push service takes a           *)
(* notification when it is signed with the pair whose public key the       *)
(* browser registered with.  A pair is its number; 0 is none.              *)
(***************************************************************************)
EXTENDS Integers, FiniteSets

CONSTANTS
  Browsers,        \* pages that switch push on and off
  Alerter,         \* whoever sends an alert to all browsers
  MaxRegistrations, MaxPushFaults, MaxPushRestarts

PushActors == Browsers \cup {Alerter}

\* What an actor is doing: `wants' is "config" or the registration to send to.
AtRest == [pc |-> "idle"]

NoKeys == [public |-> 0, private |-> 0]

VARIABLES
  vapid,          \* the two rows of app_settings
  cachedKeys,     \* the manager's pair, or NoKeys
  keyLock,        \* actors that hold m.mu: at most one
  pushActor,      \* [PushActors -> what it is doing]
  endpoints,      \* push_subscriptions
  holds,          \* [Browsers -> registrations the browser has now: one or none]
  pairs, registrations, pushFaults, pushRestarts,
  switchedOn      \* ghost: registrations that were stored and not switched off

PushVars == <<vapid, cachedKeys, keyLock, pushActor, endpoints, holds, pairs, registrations,
              pushFaults, pushRestarts, switchedOn>>

PushInit ==
  /\ vapid = NoKeys /\ cachedKeys = NoKeys
  /\ keyLock = {}
  /\ pushActor = [a \in PushActors |-> AtRest]
  /\ endpoints = {}
  /\ holds = [b \in Browsers |-> {}]
  /\ pairs = 0 /\ registrations = 0 /\ pushFaults = 0 /\ pushRestarts = 0
  /\ switchedOn = {}

Become(a, state) == pushActor' = [pushActor EXCEPT ![a] = state]

PushFault == pushFaults < MaxPushFaults /\ pushFaults' = pushFaults + 1

\* Ask for the pair, for the public key alone or to send to the registrations.
NeedKeys(todo) == [pc |-> "lock", todo |-> todo]

-----------------------------------------------------------------------------
(* keysLocked, one database call at a time, under the mutex.               *)

\* Mutant: the pair is resolved without the mutex.
LockFreeAlways(a) == TRUE

LockFree(a) == keyLock = {}

\* The pair in memory is used as it is.
Lock(a) ==
  LET s == pushActor[a]
  IN  /\ s.pc = "lock" /\ LockFree(a)
      /\ IF cachedKeys # NoKeys
         THEN Become(a, [pc |-> "ready", todo |-> s.todo, keys |-> cachedKeys]) /\ UNCHANGED keyLock
         ELSE Become(a, [pc |-> "public", todo |-> s.todo]) /\ keyLock' = keyLock \cup {a}
      /\ UNCHANGED <<vapid, cachedKeys, endpoints, holds, pairs, registrations, pushFaults, pushRestarts, switchedOn>>

\* A public key that cannot be read counts as missing.
ReadPublic(a) ==
  LET s == pushActor[a]
  IN  /\ s.pc = "public"
      /\ \/ /\ vapid.public # 0
            /\ Become(a, [pc |-> "private", todo |-> s.todo, read |-> vapid.public])
            /\ UNCHANGED pushFaults
         \/ /\ (vapid.public = 0 /\ UNCHANGED pushFaults) \/ PushFault
            /\ Become(a, [pc |-> "generate", todo |-> s.todo])
      /\ UNCHANGED <<vapid, cachedKeys, keyLock, endpoints, holds, pairs, registrations, pushRestarts, switchedOn>>

ReadPrivate(a) ==
  LET s == pushActor[a]
      found == [public |-> s.read, private |-> vapid.private]
  IN  /\ s.pc = "private"
      /\ \/ /\ vapid.private # 0
            /\ cachedKeys' = found
            /\ keyLock' = keyLock \ {a}
            /\ Become(a, [pc |-> "ready", todo |-> s.todo, keys |-> found])
            /\ UNCHANGED pushFaults
         \/ /\ (vapid.private = 0 /\ UNCHANGED pushFaults) \/ PushFault
            /\ Become(a, [pc |-> "generate", todo |-> s.todo])
            /\ UNCHANGED <<cachedKeys, keyLock>>
      /\ UNCHANGED <<vapid, endpoints, holds, pairs, registrations, pushRestarts, switchedOn>>

GiveUp(a) == PushFault /\ Become(a, AtRest) /\ keyLock' = keyLock \ {a}

\* Generate a pair and store its public key.
SavePublic(a) ==
  LET s == pushActor[a]
  IN  /\ s.pc = "generate"
      /\ pairs' = pairs + 1
      /\ \/ /\ vapid' = [vapid EXCEPT !.public = pairs + 1]
            /\ Become(a, [pc |-> "save", todo |-> s.todo, pair |-> pairs + 1])
            /\ UNCHANGED <<keyLock, pushFaults>>
         \/ GiveUp(a) /\ UNCHANGED vapid
      /\ UNCHANGED <<cachedKeys, endpoints, holds, registrations, pushRestarts, switchedOn>>

SavePrivate(a) ==
  LET s == pushActor[a]
      made == [public |-> s.pair, private |-> s.pair]
  IN  /\ s.pc = "save"
      /\ \/ /\ vapid' = [vapid EXCEPT !.private = s.pair]
            /\ cachedKeys' = made
            /\ keyLock' = keyLock \ {a}
            /\ Become(a, [pc |-> "ready", todo |-> s.todo, keys |-> made])
            /\ UNCHANGED pushFaults
         \/ GiveUp(a) /\ UNCHANGED <<vapid, cachedKeys>>
      /\ UNCHANGED <<endpoints, holds, pairs, registrations, pushRestarts, switchedOn>>

-----------------------------------------------------------------------------
(* The handlers.                                                           *)

\* A page switches push on: it asks for the public key first.
handlePushConfig(b) ==
  /\ pushActor[b] = AtRest
  /\ Become(b, NeedKeys({}))
  /\ UNCHANGED <<vapid, cachedKeys, keyLock, endpoints, holds, pairs, registrations, pushFaults, pushRestarts, switchedOn>>

\* The browser registers with the key, or keeps the registration it has.
Register(b) ==
  LET s == pushActor[b]
      new == [browser |-> b, key |-> s.keys.public, serial |-> registrations + 1]
  IN  /\ s.pc = "ready" /\ s.todo = {}
      /\ IF holds[b] # {} THEN UNCHANGED <<holds, registrations>>
         ELSE /\ registrations < MaxRegistrations
              /\ registrations' = registrations + 1
              /\ holds' = [holds EXCEPT ![b] = {new}]
      /\ Become(b, [pc |-> "subscribe"])
      /\ UNCHANGED <<vapid, cachedKeys, keyLock, endpoints, pairs, pushFaults, pushRestarts, switchedOn>>

\* The registration is stored and a confirmation sent to it.
handlePushSubscribe(b) ==
  /\ pushActor[b].pc = "subscribe"
  /\ \/ /\ endpoints' = endpoints \cup holds[b]
        /\ switchedOn' = switchedOn \cup holds[b]
        /\ Become(b, IF holds[b] = {} THEN AtRest ELSE NeedKeys(holds[b]))
        /\ UNCHANGED pushFaults
     \/ PushFault /\ Become(b, AtRest) /\ UNCHANGED <<endpoints, switchedOn>>
  /\ UNCHANGED <<vapid, cachedKeys, keyLock, holds, pairs, registrations, pushRestarts>>

\* The row is deleted; the page then unregisters whatever the answer was.
handlePushUnsubscribe(b) ==
  /\ pushActor[b] = AtRest /\ holds[b] # {}
  /\ endpoints' = endpoints \ holds[b]
  /\ switchedOn' = switchedOn \ holds[b]
  /\ holds' = [holds EXCEPT ![b] = {}]
  /\ UNCHANGED <<vapid, cachedKeys, keyLock, pushActor, pairs, registrations, pushFaults, pushRestarts>>

\* An alert, or the test of handlePushTest, goes to every row there is now.
Notify ==
  /\ pushActor[Alerter] = AtRest /\ endpoints # {}
  /\ Become(Alerter, NeedKeys(endpoints))
  /\ UNCHANGED <<vapid, cachedKeys, keyLock, endpoints, holds, pairs, registrations, pushFaults, pushRestarts, switchedOn>>

Alive(r) == r \in holds[r.browser]

\* The rows a send removes: 404 and 410 say that the registration is gone, any
\* other rejection is only reported.
Pruned(r) == IF Alive(r) THEN {} ELSE {r}

SendTo(a, r) ==
  LET s == pushActor[a]
  IN  /\ s.pc = "ready" /\ r \in s.todo
      /\ endpoints' = endpoints \ Pruned(r)
      /\ Become(a, IF s.todo = {r} THEN AtRest ELSE NeedKeys(s.todo \ {r}))
      /\ UNCHANGED <<vapid, cachedKeys, keyLock, holds, pairs, registrations, pushFaults, pushRestarts, switchedOn>>

-----------------------------------------------------------------------------
\* A browser loses its registration: site data cleared, permission withdrawn.
Expire(b) ==
  /\ holds[b] # {}
  /\ holds' = [holds EXCEPT ![b] = {}]
  /\ UNCHANGED <<vapid, cachedKeys, keyLock, pushActor, endpoints, pairs, registrations, pushFaults, pushRestarts, switchedOn>>

\* The process restarts.  Between the two saves of a pair that is a failure.
PushRestart ==
  /\ pushRestarts < MaxPushRestarts
  /\ pushRestarts' = pushRestarts + 1
  /\ pushFaults' = pushFaults + (IF \E a \in PushActors : pushActor[a].pc = "save" THEN 1 ELSE 0)
  /\ cachedKeys' = NoKeys /\ keyLock' = {}
  /\ pushActor' = [a \in PushActors |-> AtRest]
  /\ UNCHANGED <<vapid, endpoints, holds, pairs, registrations, switchedOn>>

PushNext ==
  \/ \E a \in PushActors : \/ Lock(a) \/ ReadPublic(a) \/ ReadPrivate(a)
                           \/ SavePublic(a) \/ SavePrivate(a)
                           \/ \E r \in endpoints \cup UNION {holds[b] : b \in Browsers} : SendTo(a, r)
  \/ \E b \in Browsers : \/ handlePushConfig(b) \/ Register(b) \/ handlePushSubscribe(b)
                         \/ handlePushUnsubscribe(b) \/ Expire(b)
  \/ Notify
  \/ PushRestart

PushSpec == PushInit /\ [][PushNext]_PushVars

-----------------------------------------------------------------------------
(* Properties.                                                             *)

\* The stored keys belong together unless two things went wrong: a stored key
\* could not be read, and then the second save failed or the process stopped
\* before it.  A first start that stops between the saves mends itself.
PairBelongsTogether ==
  keyLock = {} /\ vapid.public # 0 /\ vapid.private # 0 /\ pushFaults < 2
    => vapid.public = vapid.private

\* Without a failed database call there is one pair for good, over restarts and
\* pages that switch push on at once: every browser that holds a stored
\* registration can be reached with it.
BrowsersReachable ==
  pushFaults = 0 =>
    \A r \in endpoints : Alive(r) => vapid = [public |-> r.key, private |-> r.key]

\* A registration that was switched on and that the browser still holds keeps its
\* row, even when a lost pair makes the push service reject every send.
LiveRowsKept == \A r \in switchedOn : Alive(r) => r \in endpoints

\* Push goes on working over restarts, first uses at once and failing database
\* calls: one matching pair, reachable browsers, no live registration lost.
PushKeepsWorking == PairBelongsTogether /\ BrowsersReachable /\ LiveRowsKept

=============================================================================

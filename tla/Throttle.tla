------------------------------ MODULE Throttle ------------------------------
(***************************************************************************)
(* What an alert cooldown promises, whoever implements it: deliveries of   *)
(* one key are a cooldown apart, and every exception is paid for by an     *)
(* event that defeated the bookkeeping, one early delivery for each.       *)
(***************************************************************************)
EXTENDS Integers

CONSTANTS
  Keys,        \* what is throttled
  Cooldown,    \* ticks between two deliveries of one key
  Never        \* the time of a delivery that has not happened

VARIABLES
  now,         \* the clock
  last,        \* [Keys -> time of the last delivery, or Never]
  grace        \* [Keys -> early deliveries that failures and overlaps excuse]

vars == <<now, last, grace>>

Init ==
  /\ now = 0
  /\ last = [k \in Keys |-> Never]
  /\ grace = [k \in Keys |-> 0]

Early(k) == last[k] # Never /\ now - last[k] < Cooldown

Deliver(k) ==
  /\ Early(k) => grace[k] > 0
  /\ grace' = [grace EXCEPT ![k] = IF Early(k) THEN @ - 1 ELSE @]
  /\ last' = [last EXCEPT ![k] = now]
  /\ now' = now

\* A delivery whose sender does not learn of it: no cooldown begins, and an excuse
\* for the next delivery comes with it.
Unknown(k) ==
  /\ Early(k) => grace[k] > 0
  /\ grace' = [grace EXCEPT ![k] = IF Early(k) THEN @ ELSE @ + 1]
  /\ last' = [last EXCEPT ![k] = now]
  /\ now' = now

\* A failed query, a lost record, a crash or an overlap defeats the cooldown.
Excuse ==
  /\ grace' \in [Keys -> Nat]
  /\ \A k \in Keys : grace'[k] >= grace[k]
  /\ UNCHANGED <<now, last>>

Tick == now' = now + 1 /\ UNCHANGED <<last, grace>>

Next == (\E k \in Keys : Deliver(k) \/ Unknown(k)) \/ Excuse \/ Tick

Spec == Init /\ [][Next]_vars

=============================================================================

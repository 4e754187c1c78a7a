--------------------------- MODULE CircuitBreaker ---------------------------
(***************************************************************************)
(* The per-provider circuit breaker of gradatum-gateway                     *)
(* (commons/circuit_breaker.rs) as a value and what its methods make of it. *)
(* The code holds a mutex in each method, so each one is one step.  Time is *)
(* kept as what the methods compare: how many failures lie in the window,   *)
(* and whether the cooldown has elapsed since opened_at.                    *)
(***************************************************************************)
EXTENDS Naturals

CONSTANT Threshold   \* CircuitBreakerConfig::threshold

ASSUME CircuitBreakerAssumption == Threshold \in Nat \ {0}

Breaker == [state : {"Closed", "Open", "HalfOpen"},
            failures : 0..(Threshold - 1),   \* failure_timestamps in the window
            cooled : BOOLEAN,                \* opened_at.elapsed() >= cooldown
            probe : BOOLEAN]                 \* half_open_probe_in_flight

NewBreaker == [state |-> "Closed", failures |-> 0, cooled |-> FALSE, probe |-> FALSE]

(* Mutant: the cooldown is not looked at.                                  *)
NeverHalfOpens(b) == b

(* evaluate_state_transition, the first thing should_allow does.           *)
EvaluateStateTransition(b) ==
  IF b.state = "Open" /\ b.cooled
  THEN [b EXCEPT !.state = "HalfOpen", !.probe = FALSE]
  ELSE b

(* Mutant: the probe slot is not looked at.                                *)
AllowsManyProbes(b) == EvaluateStateTransition(b).state # "Open"

(* should_allow: its answer, and the breaker it leaves.                    *)
Allows(b) ==
  LET e == EvaluateStateTransition(b)
  IN e.state = "Closed" \/ (e.state = "HalfOpen" /\ ~e.probe)

ShouldAllow(b) ==
  LET e == EvaluateStateTransition(b)
  IN IF e.state = "HalfOpen" THEN [e EXCEPT !.probe = TRUE] ELSE e

RecordSuccess(b) ==
  CASE b.state = "Closed"   -> [b EXCEPT !.failures = 0]
    [] b.state = "HalfOpen" -> NewBreaker
    [] b.state = "Open"     -> b

Opened(b) == [b EXCEPT !.state = "Open", !.failures = 0, !.cooled = FALSE]

(* Mutant: off by one on the threshold.                                    *)
FailureOverflows(b) ==
  CASE b.state = "Closed"   -> IF b.failures >= Threshold
                               THEN Opened(b)
                               ELSE [b EXCEPT !.failures = @ + 1]
    [] b.state = "HalfOpen" -> [Opened(b) EXCEPT !.probe = FALSE]
    [] b.state = "Open"     -> [b EXCEPT !.cooled = FALSE]

(* record_failure, for an error that counts_as_circuit_failure.            *)
RecordFailure(b) ==
  CASE b.state = "Closed"   -> IF b.failures + 1 >= Threshold
                               THEN Opened(b)
                               ELSE [b EXCEPT !.failures = @ + 1]
    [] b.state = "HalfOpen" -> [Opened(b) EXCEPT !.probe = FALSE]
    [] b.state = "Open"     -> [b EXCEPT !.cooled = FALSE]
=============================================================================

----------------------------- MODULE LlmBreaker -----------------------------
(***************************************************************************)
(* gradatum-chat's CircuitBreaker around an LlmBackend                      *)
(* (circuit_breaker_llm.rs).  It keeps its state in separate atomics, so    *)
(* that every load and store is a step of its own and concurrent classify   *)
(* calls interleave between any two of them.  Only the failure window is    *)
(* under a lock, and record_failure's use of it is one step.                *)
(* Counters are kept as far as the code compares them: successes up to      *)
(* success_threshold, openings up to the last of open_durations.            *)
(***************************************************************************)
EXTENDS Naturals

CONSTANTS
  Calls,             \* concurrent callers of classify
  FailureThreshold,
  SuccessThreshold,
  Durations,         \* number of open_durations
  Drops              \* whether callers drop a pending classify

ASSUME LlmBreakerAssumption ==
  /\ FailureThreshold \in Nat \ {0}
  /\ SuccessThreshold \in Nat \ {0}
  /\ Durations \in Nat \ {0}
  /\ Drops \in BOOLEAN

VARIABLES
  openUntil,   \* open_until: "zero", or now < open_until ("future", then
               \* "soon" when some of the cooldown is over), or "past"
  openCount,   \* open_count
  successes,   \* consecutive_successes
  probe,       \* probe_inflight
  failures,    \* length of the failure window
  pc           \* [Calls -> Pcs]

vars == <<openUntil, openCount, successes, probe, failures, pc>>

Pcs == {"idle", "checked", "halfOpen",    \* classify: is_open, is_half_open
        "probing", "calling",             \* inner.classify is awaited
        "fail",                           \* record_failure
        "trip", "tripStore", "tripReset", \* trip_open
        "clear", "count", "decide",       \* record_success
        "close", "closeCount", "closeReset"}

TypeOK ==
  /\ openUntil \in {"zero", "future", "soon", "past"}
  /\ openCount \in 0..Durations
  /\ successes \in 0..SuccessThreshold
  /\ probe \in BOOLEAN
  /\ failures \in 0..(FailureThreshold - 1)
  /\ pc \in [Calls -> Pcs]

Init ==
  /\ openUntil = "zero"
  /\ openCount = 0
  /\ successes = 0
  /\ probe = FALSE
  /\ failures = 0
  /\ pc = [c \in Calls |-> "idle"]

Goto(c, from, to) ==
  /\ pc[c] = from
  /\ pc' = [pc EXCEPT ![c] = to]

Up(n, max) == IF n < max THEN n + 1 ELSE n

-----------------------------------------------------------------------------
(* classify *)

IsOpen == openUntil \in {"future", "soon"}
IsHalfOpen == openUntil = "past"

(* is_open: the fallback answers at once.                                  *)
CheckNothing(c) ==
  /\ Goto(c, "idle", "checked")
  /\ UNCHANGED <<openUntil, openCount, successes, probe, failures>>
CheckOpen(c) ==
  /\ Goto(c, "idle", IF IsOpen THEN "idle" ELSE "checked")
  /\ UNCHANGED <<openUntil, openCount, successes, probe, failures>>

(* is_half_open: a second load.                                            *)
CheckHalfOpen(c) ==
  /\ Goto(c, "checked", IF IsHalfOpen THEN "halfOpen" ELSE "calling")
  /\ UNCHANGED <<openUntil, openCount, successes, probe, failures>>

(* compare_exchange on probe_inflight; the loser takes the fallback.       *)
TakeProbeBlindly(c) ==
  /\ Goto(c, "halfOpen", "probing")
  /\ probe' = TRUE
  /\ UNCHANGED <<openUntil, openCount, successes, failures>>
TakeProbe(c) ==
  /\ Goto(c, "halfOpen", IF probe THEN "idle" ELSE "probing")
  /\ probe' = TRUE
  /\ UNCHANGED <<openUntil, openCount, successes, failures>>

(* The probe's answer: the slot is freed, and a success recorded, or an    *)
(* error that counts_for_circuit trips the circuit, or another error is    *)
(* returned.                                                               *)
ProbeReturns(c) ==
  /\ Goto(c, "probing", "clear") \/ Goto(c, "probing", "trip") \/ Goto(c, "probing", "idle")
  /\ probe' = FALSE
  /\ UNCHANGED <<openUntil, openCount, successes, failures>>

CallReturns(c) ==
  /\ \/ Goto(c, "calling", "clear")
     \/ Goto(c, "calling", "fail")
     \/ Goto(c, "calling", "idle")
  /\ UNCHANGED <<openUntil, openCount, successes, probe, failures>>

(* The caller drops the future (a timeout, a cancelled task).              *)
Drop(c) ==
  /\ Drops
  /\ Goto(c, "probing", "idle") \/ Goto(c, "calling", "idle")
  /\ UNCHANGED <<openUntil, openCount, successes, probe, failures>>

-----------------------------------------------------------------------------
(* record_failure and trip_open *)

FailNeverClears(c) ==
  LET full == failures + 1 >= FailureThreshold
  IN /\ Goto(c, "fail", IF full THEN "trip" ELSE "idle")
     /\ failures' = failures + 1
     /\ UNCHANGED <<openUntil, openCount, successes, probe>>
RecordFailure(c) ==
  LET full == failures + 1 >= FailureThreshold
  IN /\ Goto(c, "fail", IF full THEN "trip" ELSE "idle")
     /\ failures' = IF full THEN 0 ELSE failures + 1
     /\ UNCHANGED <<openUntil, openCount, successes, probe>>

TripOpen(c) ==
  /\ Goto(c, "trip", "tripStore")
  /\ openCount' = Up(openCount, Durations)
  /\ UNCHANGED <<openUntil, successes, probe, failures>>

TripStore(c) ==
  /\ Goto(c, "tripStore", "tripReset")
  /\ openUntil' = "future"
  /\ UNCHANGED <<openCount, successes, probe, failures>>

TripReset(c) ==
  /\ Goto(c, "tripReset", "idle")
  /\ successes' = 0
  /\ UNCHANGED <<openUntil, openCount, probe, failures>>

-----------------------------------------------------------------------------
(* record_success *)

(* The window is cleared if try_lock gets the lock.                        *)
ClearFailures(c) ==
  /\ Goto(c, "clear", "count")
  /\ failures' = 0 \/ ((\E d \in Calls : pc[d] = "fail") /\ UNCHANGED failures)
  /\ UNCHANGED <<openUntil, openCount, successes, probe>>

CountSuccess(c) ==
  /\ Goto(c, "count", IF successes + 1 >= SuccessThreshold THEN "decide" ELSE "idle")
  /\ successes' = Up(successes, SuccessThreshold)
  /\ UNCHANGED <<openUntil, openCount, probe, failures>>

DecideClose(c) ==
  /\ Goto(c, "decide", IF IsHalfOpen THEN "close" ELSE "idle")
  /\ UNCHANGED <<openUntil, openCount, successes, probe, failures>>

Close(c) ==
  /\ Goto(c, "close", "closeCount")
  /\ openUntil' = "zero"
  /\ UNCHANGED <<openCount, successes, probe, failures>>

CloseCount(c) ==
  /\ Goto(c, "closeCount", "closeReset")
  /\ openCount' = 0
  /\ UNCHANGED <<openUntil, successes, probe, failures>>

CloseReset(c) ==
  /\ Goto(c, "closeReset", "idle")
  /\ successes' = 0
  /\ UNCHANGED <<openUntil, openCount, probe, failures>>

-----------------------------------------------------------------------------
(* Time *)

CooldownPasses ==
  /\ IsOpen
  /\ openUntil' = IF openUntil = "future" THEN "soon" ELSE "past"
  /\ UNCHANGED <<openCount, successes, probe, failures, pc>>

FailureAges ==
  /\ failures > 0
  /\ failures' = failures - 1
  /\ UNCHANGED <<openUntil, openCount, successes, probe, pc>>

Classify(c) ==
  \/ CheckOpen(c) \/ CheckHalfOpen(c) \/ TakeProbe(c) \/ ProbeReturns(c) \/ CallReturns(c)
  \/ RecordFailure(c) \/ TripOpen(c) \/ TripStore(c) \/ TripReset(c)
  \/ ClearFailures(c) \/ CountSuccess(c) \/ DecideClose(c)
  \/ Close(c) \/ CloseCount(c) \/ CloseReset(c)

Next ==
  \/ \E c \in Calls : Classify(c) \/ Drop(c)
  \/ CooldownPasses
  \/ FailureAges

Spec == Init /\ [][Next]_vars

(* Callers keep classifying, the backend answers (it has a timeout), and    *)
(* time passes.                                                             *)
Fairness == (\A c \in Calls : WF_vars(Classify(c))) /\ WF_vars(CooldownPasses)

FairSpec == Spec /\ Fairness

-----------------------------------------------------------------------------
(* "At most one concurrent probe in HalfOpen", although another call may    *)
(* close, re-open and half-open the circuit while a probe is on its way, or *)
(* a caller drop its probe.                                                 *)
OneProbeAtATime ==
  \A c, d \in Calls : pc[c] = "probing" /\ pc[d] = "probing" => c = d

(* A circuit that has been tripped is tried again: calls that passed the    *)
(* is_open check before and fail late trip it again and restart the         *)
(* cooldown, but not for ever.                                              *)
OpenEnds == IsOpen ~> ~IsOpen
=============================================================================

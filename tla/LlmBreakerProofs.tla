-------------------------- MODULE LlmBreakerProofs --------------------------
(***************************************************************************)
(* Proofs about LlmBreaker for any number of concurrent calls and any       *)
(* thresholds.  That there is one probe at a time needs that probe_inflight *)
(* is set while a probe is on its way; the converse does not hold (a        *)
(* dropped probe leaves the flag set) and is not needed.                    *)
(***************************************************************************)
EXTENDS LlmBreaker, TLAPS

(* A probe on its way holds the slot.                                       *)
ProbeHeld == \A c \in Calls : pc[c] = "probing" => probe

Inv == TypeOK /\ ProbeHeld /\ OneProbeAtATime

(* A saturating counter stays in its range.                                 *)
LEMMA UpType ==
  ASSUME NEW max \in Nat, NEW n \in 0..max
  PROVE  Up(n, max) \in 0..max
  BY DEF Up

(* Every step of classify keeps the types, for any thresholds.              *)
LEMMA ClassifyType ==
  ASSUME TypeOK, NEW c \in Calls, Classify(c) \/ Drop(c)
  PROVE  TypeOK'
<1>1. pc' \in [Calls -> Pcs]
  <2> USE DEF TypeOK
  <2>1. CASE CheckOpen(c) \/ CheckHalfOpen(c) \/ TakeProbe(c) \/ ProbeReturns(c) \/ CallReturns(c)
    BY <2>1 DEF CheckOpen, CheckHalfOpen, TakeProbe, ProbeReturns, CallReturns, Goto, Pcs
  <2>2. CASE RecordFailure(c) \/ TripOpen(c) \/ TripStore(c) \/ TripReset(c) \/ Drop(c)
    BY <2>2 DEF RecordFailure, TripOpen, TripStore, TripReset, Drop, Goto, Pcs
  <2>3. CASE ClearFailures(c) \/ CountSuccess(c) \/ DecideClose(c)
    BY <2>3 DEF ClearFailures, CountSuccess, DecideClose, Goto, Pcs
  <2>4. CASE Close(c) \/ CloseCount(c) \/ CloseReset(c)
    BY <2>4 DEF Close, CloseCount, CloseReset, Goto, Pcs
  <2> QED BY <2>1, <2>2, <2>3, <2>4 DEF Classify
<1>2. UNCHANGED <<openUntil, openCount, successes, failures>> /\ probe' \in BOOLEAN => TypeOK'
  BY <1>1 DEF TypeOK
<1>3. CASE CheckOpen(c) \/ CheckHalfOpen(c) \/ CallReturns(c) \/ Drop(c) \/ DecideClose(c)
  BY <1>2, <1>3 DEF CheckOpen, CheckHalfOpen, CallReturns, Drop, DecideClose, TypeOK
<1>4. CASE TakeProbe(c) \/ ProbeReturns(c)
  BY <1>2, <1>4 DEF TakeProbe, ProbeReturns
<1>5. CASE RecordFailure(c) \/ ClearFailures(c)
  <2>1. failures' \in 0..(FailureThreshold - 1)
    BY <1>5, LlmBreakerAssumption DEF RecordFailure, ClearFailures, TypeOK
  <2> QED BY <1>1, <1>5, <2>1 DEF RecordFailure, ClearFailures, TypeOK
<1>6. CASE TripOpen(c) \/ CloseCount(c)
  <2>1. openCount' \in 0..Durations
    BY <1>6, UpType, LlmBreakerAssumption DEF TripOpen, CloseCount, TypeOK
  <2> QED BY <1>1, <1>6, <2>1 DEF TripOpen, CloseCount, TypeOK
<1>7. CASE TripReset(c) \/ CountSuccess(c) \/ CloseReset(c)
  <2>1. successes' \in 0..SuccessThreshold
    BY <1>7, UpType, LlmBreakerAssumption DEF TripReset, CountSuccess, CloseReset, TypeOK
  <2> QED BY <1>1, <1>7, <2>1 DEF TripReset, CountSuccess, CloseReset, TypeOK
<1>8. CASE TripStore(c) \/ Close(c)
  BY <1>1, <1>8 DEF TripStore, Close, TypeOK
<1> QED BY <1>3, <1>4, <1>5, <1>6, <1>7, <1>8 DEF Classify

(* Types are preserved by every step.                                       *)
LEMMA StepTypeOK == TypeOK /\ [Next]_vars => TypeOK'
<1> SUFFICES ASSUME TypeOK, [Next]_vars PROVE TypeOK'
  OBVIOUS
<1>1. CASE \E c \in Calls : Classify(c) \/ Drop(c)
  BY <1>1, ClassifyType
<1>2. CASE CooldownPasses
  BY <1>2 DEF CooldownPasses, IsOpen, TypeOK
<1>3. CASE FailureAges
  <2>1. failures' \in 0..(FailureThreshold - 1)
    BY <1>3, LlmBreakerAssumption DEF FailureAges, TypeOK
  <2> QED BY <1>3, <2>1 DEF FailureAges, TypeOK
<1>4. CASE UNCHANGED vars
  BY <1>4 DEF vars, TypeOK
<1> QED BY <1>1, <1>2, <1>3, <1>4 DEF Next

(* A step that starts no probe and frees no slot keeps the probes.          *)
LEMMA ProbesKept ==
  ASSUME Inv, UNCHANGED probe, \A d \in Calls : pc'[d] = "probing" => pc[d] = "probing"
  PROVE  ProbeHeld' /\ OneProbeAtATime'
  BY DEF Inv, ProbeHeld, OneProbeAtATime

(* No step lets a second probe through: compare_exchange finds the slot     *)
(* taken, and the slot is freed only by the probe that holds it.            *)
LEMMA StepProbe == Inv /\ [Next]_vars => ProbeHeld' /\ OneProbeAtATime'
<1> SUFFICES ASSUME Inv, [Next]_vars PROVE ProbeHeld' /\ OneProbeAtATime'
  OBVIOUS
<1>1. ASSUME NEW c \in Calls, TakeProbe(c)
      PROVE  ProbeHeld' /\ OneProbeAtATime'
  <2>1. ProbeHeld'
    BY <1>1 DEF TakeProbe, ProbeHeld
  <2>2. OneProbeAtATime'
    BY <1>1 DEF TakeProbe, Goto, Inv, TypeOK, ProbeHeld, OneProbeAtATime
  <2> QED BY <2>1, <2>2
<1>2. ASSUME NEW c \in Calls, ProbeReturns(c)
      PROVE  ProbeHeld' /\ OneProbeAtATime'
  <2>1. \A d \in Calls : pc'[d] # "probing"
    BY <1>2 DEF ProbeReturns, Goto, Inv, TypeOK, OneProbeAtATime
  <2> QED BY <2>1 DEF ProbeHeld, OneProbeAtATime
<1>3. ASSUME NEW c \in Calls, Classify(c) \/ Drop(c), ~TakeProbe(c), ~ProbeReturns(c)
      PROVE  ProbeHeld' /\ OneProbeAtATime'
  <2>1. UNCHANGED probe /\ \A d \in Calls : pc'[d] = "probing" => pc[d] = "probing"
    <3> USE DEF Inv, TypeOK, Goto
    <3>1. CASE CheckOpen(c) \/ CheckHalfOpen(c) \/ CallReturns(c) \/ Drop(c)
      BY <3>1 DEF CheckOpen, CheckHalfOpen, CallReturns, Drop
    <3>2. CASE RecordFailure(c) \/ TripOpen(c) \/ TripStore(c) \/ TripReset(c)
      BY <3>2 DEF RecordFailure, TripOpen, TripStore, TripReset
    <3>3. CASE ClearFailures(c) \/ CountSuccess(c) \/ DecideClose(c)
      BY <3>3 DEF ClearFailures, CountSuccess, DecideClose
    <3>4. CASE Close(c) \/ CloseCount(c) \/ CloseReset(c)
      BY <3>4 DEF Close, CloseCount, CloseReset
    <3> QED BY <1>3, <3>1, <3>2, <3>3, <3>4 DEF Classify
  <2> QED BY <2>1, ProbesKept
<1>4. CASE CooldownPasses \/ FailureAges \/ UNCHANGED vars
  BY <1>4, ProbesKept DEF CooldownPasses, FailureAges, vars
<1> QED BY <1>1, <1>2, <1>3, <1>4 DEF Next

(* The inductive invariant holds in every reachable state.                  *)
LEMMA Invariance == Spec => []Inv
<1>1. Init => Inv
  <2> SUFFICES ASSUME Init PROVE Inv
    OBVIOUS
  <2>1. TypeOK
    <3>1. openCount \in 0..Durations /\ successes \in 0..SuccessThreshold
          /\ failures \in 0..(FailureThreshold - 1)
      BY LlmBreakerAssumption DEF Init
    <3>2. pc \in [Calls -> Pcs]
      BY DEF Init, Pcs
    <3> QED BY <3>1, <3>2 DEF Init, TypeOK
  <2>2. ProbeHeld /\ OneProbeAtATime
    BY DEF Init, ProbeHeld, OneProbeAtATime
  <2> QED BY <2>1, <2>2 DEF Inv
<1>2. Inv /\ [Next]_vars => Inv'
  BY StepTypeOK, StepProbe DEF Inv
<1> QED BY <1>1, <1>2, PTL DEF Spec

(* Every atomic keeps its type: the window never exceeds the threshold and  *)
(* the counters stay in the ranges that the code compares.                  *)
THEOREM TypeCorrect == Spec => []TypeOK
<1>1. Inv => TypeOK
  BY DEF Inv
<1> QED BY Invariance, <1>1, PTL

(* At most one probe is on its way at a time, with calls that close, trip   *)
(* and half-open the circuit meanwhile and with dropped futures.            *)
THEOREM SingleProbe == Spec => []OneProbeAtATime
<1>1. Inv => OneProbeAtATime
  BY DEF Inv
<1> QED BY Invariance, <1>1, PTL
=============================================================================

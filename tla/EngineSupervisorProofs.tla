----------------------- MODULE EngineSupervisorProofs -----------------------
(***************************************************************************)
(* Proofs about EngineSupervisor for every restart budget.  OneChild needs  *)
(* that the loop leaves a child.wait() that succeeds only with a dead child *)
(* and starts none before the next wait; the two bounds on restarts need the accounting     *)
(* that relates the budget to the number of restarts.                       *)
(***************************************************************************)
EXTENDS EngineSupervisor, TLAPS

(* A started child is in hand only between spawn and store, and from the    *)
(* end of a wait to the next store the mutex holds no living child, unless  *)
(* the wait failed.                                                         *)
Settled ==
  /\ fresh # "none" => pc = "store"
  /\ pc \in {"judge", "sleep", "spawn", "store"} => child \notin Alive \/ unsure

(* Every restart is paid for; refills that no child has deserved only make  *)
(* the right-hand side grow.                                                *)
Accounted ==
  /\ streak + budget >= ChildRestartMax
  /\ ~lasted => lastReady # "old" /\ streak + budget = ChildRestartMax

Inv == TypeOK /\ Settled /\ Accounted /\ GivesUpWhenSpent

(* The initial state satisfies the invariant.                               *)
LEMMA InitInv == Init => Inv
<1> SUFFICES ASSUME Init PROVE Inv
  OBVIOUS
<1> USE EngineAssumption DEF Init
<1>1. TypeOK
  <2>1. budget \in 0..ChildRestartMax /\ streak \in 0..(ChildRestartMax + 1)
    OBVIOUS
  <2> QED BY <2>1 DEF TypeOK, Alive
<1>2. Settled
  BY DEF Settled, Alive
<1>3. Accounted
  BY DEF Accounted
<1>4. GivesUpWhenSpent
  BY DEF GivesUpWhenSpent
<1> QED BY <1>1, <1>2, <1>3, <1>4 DEF Inv

(* Types are preserved by every step; the budget never falls below zero     *)
(* because Judge stops at zero.                                             *)
LEMMA StepTypeOK == TypeOK /\ [Next]_vars => TypeOK'
<1> SUFFICES ASSUME TypeOK, [Next]_vars PROVE TypeOK'
  OBVIOUS
<1> USE EngineAssumption DEF TypeOK, Alive, mutex, policy, ghosts
<1>1. CASE LoopStep \/ WaitFails
  <2>1. CASE Judge
    <3> USE <2>1 DEF Judge
    <3>1. budget' \in 0..ChildRestartMax
      OBVIOUS
    <3>2. streak' \in 0..(ChildRestartMax + 1)
      OBVIOUS
    <3>3. pc' \in {"exited", "sleep"} /\ health' \in {"starting", "ready", "unhealthy"}
      OBVIOUS
    <3>4. proven' \in BOOLEAN /\ UNCHANGED <<booting, requested, lasted, unsure>>
      OBVIOUS
    <3>5. UNCHANGED <<child, fresh, lock, lastReady, stopper>>
      OBVIOUS
    <3> HIDE <2>1 DEF Judge
    <3> QED BY <3>1, <3>2, <3>3, <3>4, <3>5
  <2>2. CASE Spawn \/ SpawnFails \/ Store \/ PollReady \/ PollGivesUp
    BY <2>2 DEF Spawn, SpawnFails, Store, PollReady, PollGivesUp
  <2>3. CASE Top \/ LockChild \/ Wake
    BY <2>3 DEF Top, LockChild, Wake
  <2>4. CASE ChildExited \/ WaitFails
    BY <2>4 DEF ChildExited, WaitFails
  <2> QED BY <1>1, <2>1, <2>2, <2>3, <2>4 DEF LoopStep
<1>2. CASE RequestShutdown \/ ShutdownLock \/ ShutdownReap
  BY <1>2 DEF RequestShutdown, ShutdownLock, ShutdownReap
<1>3. CASE ChildMoves
  BY <1>3 DEF ChildMoves, Lives
<1>4. CASE BecomesOld
  BY <1>4 DEF BecomesOld
<1>6. CASE SystemdRestart
  <2>1. budget' \in 0..ChildRestartMax /\ streak' \in 0..(ChildRestartMax + 1)
    BY <1>6 DEF SystemdRestart
  <2> QED BY <1>6, <2>1 DEF SystemdRestart
<1>5. CASE UNCHANGED vars
  BY <1>5 DEF vars
<1> QED BY <1>1, <1>2, <1>3, <1>4, <1>5, <1>6 DEF Next

(* No step starts a child while one lives.                                  *)
LEMMA StepSettled == TypeOK /\ Settled /\ [Next]_vars => Settled'
<1> SUFFICES ASSUME TypeOK, Settled, [Next]_vars PROVE Settled'
  OBVIOUS
<1> USE DEF TypeOK, Settled, Alive, mutex, ghosts
<1>1. CASE LoopStep \/ WaitFails
  <2>1. CASE Spawn \/ SpawnFails \/ Store
    BY <2>1 DEF Spawn, SpawnFails, Store
  <2>2. CASE PollReady \/ PollGivesUp \/ Top \/ LockChild
    BY <2>2 DEF PollReady, PollGivesUp, Top, LockChild
  <2>3. CASE ChildExited \/ WaitFails \/ Judge \/ Wake
    BY <2>3 DEF ChildExited, WaitFails, Judge, Wake
  <2> QED BY <1>1, <2>1, <2>2, <2>3 DEF LoopStep
<1>2. CASE RequestShutdown \/ ShutdownLock \/ ShutdownReap
  BY <1>2 DEF RequestShutdown, ShutdownLock, ShutdownReap
<1>3. CASE ChildMoves
  BY <1>3 DEF ChildMoves, Lives
<1>4. CASE BecomesOld \/ SystemdRestart
  BY <1>4 DEF BecomesOld, SystemdRestart
<1>5. CASE UNCHANGED vars
  BY <1>5 DEF vars
<1> QED BY <1>1, <1>2, <1>3, <1>4, <1>5 DEF Next

(* The accounting survives every step; only Judge spends or refills.        *)
LEMMA StepAccounted ==
  TypeOK /\ Accounted /\ GivesUpWhenSpent /\ [Next]_vars => (Accounted /\ GivesUpWhenSpent)'
<1> SUFFICES ASSUME TypeOK, Accounted, GivesUpWhenSpent, [Next]_vars
             PROVE  (Accounted /\ GivesUpWhenSpent)'
  OBVIOUS
<1> USE EngineAssumption DEF TypeOK, Accounted, GivesUpWhenSpent, mutex, policy, ghosts
<1>1. CASE Judge
  <2>1. CASE lastReady = "old"
    BY <1>1, <2>1 DEF Judge
  <2>2. CASE lastReady # "old"
    BY <1>1, <2>2 DEF Judge
  <2> QED BY <2>1, <2>2
<1>2. CASE Spawn \/ SpawnFails \/ Store \/ PollReady \/ PollGivesUp
  BY <1>2 DEF Spawn, SpawnFails, Store, PollReady, PollGivesUp
<1>3. CASE Top \/ LockChild \/ ChildExited \/ WaitFails \/ Wake
  BY <1>3 DEF Top, LockChild, ChildExited, WaitFails, Wake
<1>4. CASE RequestShutdown \/ ShutdownLock \/ ShutdownReap \/ ChildMoves
  BY <1>4 DEF RequestShutdown, ShutdownLock, ShutdownReap, ChildMoves
<1>5. CASE BecomesOld \/ SystemdRestart
  BY <1>5 DEF BecomesOld, SystemdRestart
<1>6. CASE UNCHANGED vars
  BY <1>6 DEF vars
<1> QED BY <1>1, <1>2, <1>3, <1>4, <1>5, <1>6 DEF Next, LoopStep

(* The inductive invariant holds in every reachable state.                  *)
LEMMA Invariance == Spec => []Inv
<1>1. Inv /\ [Next]_vars => Inv'
  BY StepTypeOK, StepSettled, StepAccounted DEF Inv
<1> QED BY InitInv, <1>1, PTL DEF Spec

(* Every variable keeps its type: restart_budget does not underflow.        *)
THEOREM TypeCorrect == Spec => []TypeOK
<1>1. Inv => TypeOK
  BY DEF Inv
<1> QED BY Invariance, <1>1, PTL

(* spawn_child is called while a child of this engine lives only after a    *)
(* wait() on it that failed, in whatever way startup timeouts, crashes and  *)
(* a shutdown interleave.                                                   *)
THEOREM NoTwoChildren == Spec => []OneChild
<1>1. Inv => OneChild
  BY DEF Inv, Settled, OneChild, Alive
<1> QED BY Invariance, <1>1, PTL

(* A flapping child is restarted at most child_restart_max times.           *)
THEOREM FlappingBounded == Spec => []FlappingIsBounded
<1>1. Inv => FlappingIsBounded
  BY EngineAssumption DEF Inv, TypeOK, Accounted, FlappingIsBounded
<1> QED BY Invariance, <1>1, PTL

(* The process escalates to systemd only after the whole budget is spent.   *)
THEOREM NoEarlyEscalation == Spec => []GivesUpWhenSpent
<1>1. Inv => GivesUpWhenSpent
  BY DEF Inv
<1> QED BY Invariance, <1>1, PTL
=============================================================================

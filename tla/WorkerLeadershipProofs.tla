----------------------- MODULE WorkerLeadershipProofs -----------------------
(***************************************************************************)
(* Proofs about the leadership lease, for any set of workers and any        *)
(* renew_every, expires_after and delay with                                *)
(* RenewEvery + 2 * MaxDelay <= ExpiresAfter.                               *)
(***************************************************************************)
EXTENDS WorkerLeadership, TLAPS

(* The renewal task lives only in a leading process, and a renewal in       *)
(* progress started when its interval was over.                             *)
RenewalInv ==
  \A w \in Workers :
    /\ renewal[w] # "off" => pc[w] = "leading"
    /\ renewal[w] = "renewing" => timer[w] >= RenewEvery + age[w]

(* A worker whose renewal task is alive holds the row, and its lease lasts  *)
(* at least until the latest moment at which the next renewal can be        *)
(* executed.                                                                *)
LeaderInv ==
  \A w \in Workers :
    renewal[w] # "off" =>
      /\ holder = w
      /\ left >= RenewEvery + MaxDelay - timer[w]

(* The renewal task of a leader ends before the leader does only because of *)
(* a storage error.                                                         *)
TaskAlive == errors = 0 => \A w \in Workers : pc[w] = "leading" => renewal[w] # "off"

(* Types and the state of the renewal task are preserved by every action.   *)
LEMMA LeadershipTypeStep ==
  TypeOK /\ RenewalInv /\ [Next]_vars => TypeOK' /\ RenewalInv'
<1> SUFFICES ASSUME TypeOK, RenewalInv, [Next]_vars PROVE TypeOK' /\ RenewalInv'
  OBVIOUS
<1> USE LeadershipAssumption DEF TypeOK, RenewalInv, Floor, Pcs
<1>1. CASE UNCHANGED vars
  BY <1>1 DEF vars
<1>2. CASE Tick
  BY <1>2 DEF Tick, Clocked
<1>3. ASSUME NEW w \in Workers, Boot(w) PROVE TypeOK' /\ RenewalInv'
  BY <1>3 DEF Boot
<1>4. ASSUME NEW w \in Workers, Lead(w) PROVE TypeOK' /\ RenewalInv'
  BY <1>4 DEF Lead
<1>5. ASSUME NEW w \in Workers, AcquireInsert(w) PROVE TypeOK' /\ RenewalInv'
  BY <1>4, <1>5 DEF AcquireInsert
<1>6. ASSUME NEW w \in Workers, AcquireUpdate(w) PROVE TypeOK' /\ RenewalInv'
  BY <1>4, <1>6 DEF AcquireUpdate
<1>7. ASSUME NEW w \in Workers, RenewStart(w) PROVE TypeOK' /\ RenewalInv'
  BY <1>7 DEF RenewStart
<1>8. ASSUME NEW w \in Workers, Renew(w) PROVE TypeOK' /\ RenewalInv'
  BY <1>8 DEF Renew
<1>9. ASSUME NEW w \in Workers, RenewError(w) PROVE TypeOK' /\ RenewalInv'
  BY <1>9 DEF RenewError
<1>10. ASSUME NEW w \in Workers, Shutdown(w) PROVE TypeOK' /\ RenewalInv'
  BY <1>10 DEF Shutdown
<1>11. ASSUME NEW w \in Workers, Release(w) PROVE TypeOK' /\ RenewalInv'
  BY <1>11 DEF Release
<1>12. ASSUME NEW w \in Workers, Die(w) PROVE TypeOK' /\ RenewalInv'
  BY <1>12 DEF Die
<1> QED
  BY <1>1, <1>2, <1>3, <1>5, <1>6, <1>7, <1>8, <1>9, <1>10, <1>11, <1>12
  DEF Next, Acquire, Renewal

(* While its renewal task is alive, a worker's lease outlasts the wait for  *)
(* the next renewal: the one place where the constants' assumption is       *)
(* needed is Lead, whose lease was dated before its wait.                   *)
LEMMA LeaderStep ==
  ASSUME TypeOK, RenewalInv, LeaderInv, TaskAlive, [Next]_vars
  PROVE  LeaderInv' /\ TaskAlive'
<1> USE LeadershipAssumption DEF TypeOK, RenewalInv, LeaderInv, TaskAlive, Floor, Pcs
<1>1. CASE UNCHANGED vars
  BY <1>1 DEF vars
<1>2. CASE Tick
  BY <1>2 DEF Tick
<1>3. ASSUME NEW w \in Workers, Boot(w) PROVE LeaderInv' /\ TaskAlive'
  BY <1>3 DEF Boot
<1>4. ASSUME NEW w \in Workers, AcquireInsert(w) PROVE LeaderInv' /\ TaskAlive'
  BY <1>4 DEF AcquireInsert, Lead
<1>5. ASSUME NEW w \in Workers, AcquireUpdate(w) PROVE LeaderInv' /\ TaskAlive'
  <2>1. CASE ~Claimable(w)
    BY <1>5, <2>1 DEF AcquireUpdate
  <2>2. CASE Claimable(w)
    <3>1. ASSUME NEW v \in Workers, v # w PROVE renewal[v] = "off"
      BY <1>5, <2>2, <3>1 DEF AcquireUpdate, Claimable
    <3> QED
      BY <1>5, <2>2, <3>1 DEF AcquireUpdate, Lead
  <2> QED
    BY <2>1, <2>2
<1>6. ASSUME NEW w \in Workers, RenewStart(w) PROVE LeaderInv' /\ TaskAlive'
  BY <1>6 DEF RenewStart
<1>7. ASSUME NEW w \in Workers, Renew(w) PROVE LeaderInv' /\ TaskAlive'
  <2>1. renewal[w] # "off" /\ holder = w
    BY <1>7 DEF Renew
  <2>2. left' = ExpiresAfter - age[w] /\ timer'[w] = timer[w] - RenewEvery
    BY <1>7, <2>1 DEF Renew
  <2>3. left' >= RenewEvery + MaxDelay - timer'[w]
    BY <1>7, <2>2 DEF Renew
  <2> QED
    BY <1>7, <2>1, <2>3 DEF Renew
<1>8. ASSUME NEW w \in Workers, RenewError(w) PROVE LeaderInv' /\ TaskAlive'
  BY <1>8 DEF RenewError
<1>9. ASSUME NEW w \in Workers, Shutdown(w) PROVE LeaderInv' /\ TaskAlive'
  BY <1>9 DEF Shutdown
<1>10. ASSUME NEW w \in Workers, Release(w) PROVE LeaderInv' /\ TaskAlive'
  BY <1>10 DEF Release
<1>11. ASSUME NEW w \in Workers, Die(w) PROVE LeaderInv' /\ TaskAlive'
  BY <1>11 DEF Die
<1> QED
  BY <1>1, <1>2, <1>3, <1>4, <1>5, <1>6, <1>7, <1>8, <1>9, <1>10, <1>11
  DEF Next, Acquire, Renewal

(* The invariants above hold in every reachable state.                      *)
LEMMA LeaderInvariant == Spec => [](TypeOK /\ RenewalInv /\ LeaderInv /\ TaskAlive)
<1>1. Init => TypeOK /\ RenewalInv /\ LeaderInv /\ TaskAlive
  BY LeadershipAssumption DEF Init, TypeOK, RenewalInv, LeaderInv, TaskAlive, Floor, Pcs
<1>2. TypeOK /\ RenewalInv /\ LeaderInv /\ TaskAlive /\ [Next]_vars
        => LeaderInv' /\ TaskAlive'
  BY LeaderStep
<1> QED
  BY <1>1, <1>2, LeadershipTypeStep, PTL DEF Spec

(* Every reachable state of the leadership protocol is well typed.          *)
THEOREM LeadershipTypeCorrect == Spec => []TypeOK
<1>1. Init => TypeOK /\ RenewalInv
  BY LeadershipAssumption DEF Init, TypeOK, RenewalInv, Floor, Pcs
<1> QED
  BY <1>1, LeadershipTypeStep, PTL DEF Spec

(* If statements are late by at most MaxDelay, a worker whose renewal task  *)
(* is alive holds an unexpired lease, whatever errors other workers meet.   *)
THEOREM LeaseCoversLeaderCorrect == Spec => []LeaseCoversLeader
<1>1. TypeOK /\ LeaderInv => LeaseCoversLeader
  BY LeadershipAssumption DEF TypeOK, LeaderInv, LeaseCoversLeader, Floor
<1> QED
  BY <1>1, LeaderInvariant, PTL

(* Two workers sweep, purge and run jobs at once only after a storage error *)
(* has ended the renewal task of one of them; without one the guarantee     *)
(* that the theorems about module JobQueue assume as OneWorkerProcess holds.*)
THEOREM OneActiveCorrect == Spec => []OneActive
<1>1. TypeOK /\ LeaderInv /\ TaskAlive => OneActive
  <2> SUFFICES ASSUME TypeOK, LeaderInv, TaskAlive,
                      NEW v \in Workers, NEW w \in Workers,
                      pc[v] = "leading", pc[w] = "leading", v # w
               PROVE  errors > 0 /\ (renewal[v] = "off" \/ renewal[w] = "off")
    BY DEF OneActive
  <2>1. renewal[v] = "off" \/ renewal[w] = "off"
    BY DEF LeaderInv
  <2>2. errors # 0
    BY <2>1 DEF TaskAlive
  <2> QED BY <2>1, <2>2, LeadershipAssumption DEF TypeOK
<1> QED
  BY <1>1, LeaderInvariant, PTL

(* Whatever errors occur, try_acquire and release never take a lease from a *)
(* living holder before it has expired.                                     *)
THEOREM LeaseIsRespectedCorrect == Spec => LeaseIsRespected
<1> DEFINE Respected ==
      \A w \in Workers :
        holder = w /\ left >= 0 /\ holder' # w => pc[w] # "down" /\ pc'[w] = "down"
<1>1. ASSUME TypeOK, Next PROVE Respected
  <2> SUFFICES ASSUME NEW w \in Workers, holder = w, left >= 0, holder' # w
               PROVE  pc[w] # "down" /\ pc'[w] = "down"
    OBVIOUS
  <2> USE LeadershipAssumption DEF TypeOK, Floor, Pcs
  <2>1. ASSUME NEW v \in Workers, Acquire(v) PROVE FALSE
    BY <1>1, <2>1 DEF Acquire, AcquireInsert, AcquireUpdate, Claimable, Lead
  <2>2. ASSUME NEW v \in Workers, Release(v) PROVE v = w
    BY <2>2 DEF Release
  <2>3. ASSUME NEW v \in Workers, Die(v) PROVE v = w
    BY <2>3 DEF Die
  <2>4. ASSUME NEW v \in Workers,
               Boot(v) \/ Renewal(v) \/ RenewError(v) \/ Shutdown(v)
        PROVE  FALSE
    BY <2>4 DEF Boot, Renewal, RenewStart, Renew, RenewError, Shutdown
  <2>5. ~Tick
    BY DEF Tick
  <2>6. PICK v \in Workers : Release(v) \/ Die(v)
    BY <1>1, <2>1, <2>4, <2>5 DEF Next
  <2> QED
    BY <1>1, <2>2, <2>3, <2>6 DEF Release, Die
<1>2. ASSUME TypeOK, [Next]_vars PROVE [Respected]_vars
  BY <1>1, <1>2
<1>3. TypeOK /\ [Next]_vars => [Respected]_vars
  BY <1>2
<1> QED
  BY <1>3, LeadershipTypeCorrect, PTL DEF Spec, LeaseIsRespected
=============================================================================

------------------------- MODULE JobCreationProofs -------------------------
(***************************************************************************)
(* Proofs about POST /api/v1/jobs with an idempotency key, for any calls,   *)
(* keys and number of faults.                                               *)
(***************************************************************************)
EXTENDS JobCreation, TLAPS

(* A call that goes on from its enqueue has a job, and one that has a job   *)
(* has begun.                                                               *)
ProgressInv ==
  /\ \A c \in Calls : pc[c] \in {"insert", "answer"} => c \in jobs
  /\ \A c \in jobs : pc[c] # "new"

(* A settled job's key has a row, and what was settled before a call began  *)
(* is still settled (or its row is cleaned up and forgotten).               *)
SettledInv ==
  /\ \A b \in settled : table[KeyOf[b]] # None
  /\ \A c \in Calls : before[c] \subseteq settled

(* A call that has found no row, or has enqueued, began before any job of   *)
(* its key was settled.                                                     *)
FreshInv ==
  \A c \in Calls :
    pc[c] \in {"enqueue", "insert", "answer"} \/ c \in jobs
      => \A b \in before[c] : KeyOf[b] # KeyOf[c]

CreationInv == TypeOK /\ IdsAreReal /\ ProgressInv /\ SettledInv /\ FreshInv

LEMMA CreationInit == Init => CreationInv
BY JobCreationAssumption
DEF Init, CreationInv, TypeOK, Pcs, IdsAreReal, ProgressInv, SettledInv, FreshInv

(* Every step of a call, a fault or the clean-up preserves the invariant.   *)
LEMMA CreationStep == CreationInv /\ [Next]_vars => CreationInv'
<1> SUFFICES ASSUME CreationInv, [Next]_vars PROVE CreationInv'
  OBVIOUS
<1> USE JobCreationAssumption
    DEF CreationInv, TypeOK, Pcs, IdsAreReal, ProgressInv, SettledInv, FreshInv
<1>1. CASE UNCHANGED vars
  BY <1>1 DEF vars
<1>2. ASSUME NEW c \in Calls, Call(c) PROVE CreationInv'
  BY <1>2 DEF Call, Goto
<1>3. ASSUME NEW c \in Calls, Lookup(c) PROVE CreationInv'
  <2>1. CASE table[KeyOf[c]] = None
    <3>1. \A b \in before[c] : KeyOf[b] # KeyOf[c]
      BY <2>1
    <3> QED
      BY <1>3, <2>1, <3>1 DEF Lookup, Goto
  <2>2. CASE table[KeyOf[c]] # None
    BY <1>3, <2>2 DEF Lookup, Goto
  <2> QED
    BY <2>1, <2>2
<1>4. ASSUME NEW c \in Calls, Reject(c) PROVE CreationInv'
  BY <1>4 DEF Reject, Goto
<1>5. ASSUME NEW c \in Calls, Enqueue(c) PROVE CreationInv'
  BY <1>5 DEF Enqueue, Goto
<1>6. ASSUME NEW c \in Calls, Insert(c) PROVE CreationInv'
  BY <1>6 DEF Insert, Goto
<1>7. ASSUME NEW c \in Calls, Answer(c) PROVE CreationInv'
  BY <1>7 DEF Answer, Goto
<1>8. ASSUME NEW c \in Calls, StorageError(c) PROVE CreationInv'
  BY <1>8 DEF StorageError, Goto
<1>9. CASE ServerCrash
  BY <1>9 DEF ServerCrash
<1>10. ASSUME NEW k \in Keys, RowAges(k) PROVE CreationInv'
  BY <1>10 DEF RowAges
<1>11. CASE Cleanup
  BY <1>11 DEF Cleanup
<1> QED
  BY <1>1, <1>2, <1>3, <1>4, <1>5, <1>6, <1>7, <1>8, <1>9, <1>10, <1>11 DEF Next

LEMMA CreationInvariant == Spec => []CreationInv
BY CreationInit, CreationStep, PTL DEF Spec

(* Every reachable state of job creation is well typed.                     *)
THEOREM CreationTypeCorrect == Spec => []TypeOK
<1>1. CreationInv => TypeOK
  BY DEF CreationInv
<1> QED
  BY <1>1, CreationInvariant, PTL

(* A call that begins after a client was given a job stored under the same  *)
(* key enqueues nothing, whatever calls race, fail or crash: a retry after  *)
(* an answer is safe.                                                       *)
THEOREM LateCallCreatesNothingCorrect == Spec => []LateCallCreatesNothing
<1>1. CreationInv => LateCallCreatesNothing
  BY DEF CreationInv, TypeOK, FreshInv, LateCallCreatesNothing
<1> QED
  BY <1>1, CreationInvariant, PTL

(* Every job id that a client is given, or that the table holds, is that of *)
(* a job enqueued for its key.                                              *)
THEOREM IdsAreRealCorrect == Spec => []IdsAreReal
<1>1. CreationInv => IdsAreReal
  BY DEF CreationInv
<1> QED
  BY <1>1, CreationInvariant, PTL

(* Until its row is cleaned up, a key names the same job: INSERT OR IGNORE  *)
(* by a call that lost a race changes nothing.                              *)
THEOREM KeyIsStableCorrect == Spec => KeyIsStable
<1> DEFINE Stable == \A k \in Keys : table[k] # None => table'[k] = table[k] \/ k \in old
<1>1. TypeOK /\ [Next]_vars => [Stable]_vars
  BY JobCreationAssumption
  DEF Next, vars, TypeOK, Goto, Call, Lookup, Reject, Enqueue, Insert, Answer,
      StorageError, ServerCrash, RowAges, Cleanup
<1> QED
  BY <1>1, CreationTypeCorrect, PTL DEF Spec, KeyIsStable
=============================================================================

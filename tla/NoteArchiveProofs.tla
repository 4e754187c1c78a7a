------------------------- MODULE NoteArchiveProofs -------------------------
(***************************************************************************)
(* Proofs about NoteArchive for every number of callers, calls, faults and  *)
(* crashes, and however calls overlap.                                      *)
(***************************************************************************)
EXTENDS NoteArchive, TLAPS, FiniteSetTheorems

-----------------------------------------------------------------------------
(* Deletes that have not picked a destination yet.                          *)
Choosing == {p \in Tasks : call[p].pc \in {"lookup", "resolve"}}

(* Every suffix is given out to a call, so there are never more of them.    *)
SuffixPaid == suffix + Cardinality(Choosing) <= ops

(* The tasks are finitely many, and so is every set of them.                *)
LEMMA TasksFinite ==
  ASSUME NEW T \in SUBSET Tasks
  PROVE  IsFiniteSet(T) /\ Cardinality(T) \in Nat
<1>1. IsFiniteSet(Procs \cup {Gc})
  BY NoteArchiveAssumption, FS_AddElement
<1>2. IsFiniteSet(Tasks)
  BY <1>1 DEF Tasks
<1>3. IsFiniteSet(T)
  BY <1>2, FS_Subset
<1> QED BY <1>3, FS_CardinalityType

(* A step of a call preserves every type but the range of the suffixes.     *)
LEMMA StepTypes ==
  ASSUME TypeOK, [Next]_vars,
         \A p \in Tasks : ArchiveResolve(p) => suffix' \in 0..MaxOps
  PROVE  TypeOK'
<1> USE NoteArchiveAssumption
<1> USE DEF TypeOK, vault, archive, counters, ghosts, Goto, GotoWith, Return, At, Fault,
            PutFile, DeleteGoesTo, ArchiveTo, Paths
<1>1. CASE \E p \in Procs, pc \in {"writeFile", "lookup", "destroy", "check", "select"} : Start(p, pc)
  <2> PICK p \in Procs, pc \in {"writeFile", "lookup", "destroy", "check", "select"} : Start(p, pc)
    BY <1>1
  <2>1. pc \in Pcs /\ p \in Tasks
    BY DEF Pcs, Tasks
  <2>2. call' \in [Tasks -> [pc : Pcs, path : Paths]]
    BY <2>1 DEF Start
  <2> QED BY <2>2 DEF Start, CanStart
<1>2. CASE GcStart
  BY <1>2 DEF GcStart, CanStart, Tasks, Pcs
<1>3. ASSUME NEW p \in Tasks, CallStep(p) PROVE TypeOK'
  <2>1. CASE WriteFile(p)
    BY <2>1 DEF WriteFile, Pcs
  <2>2. CASE WriteIndex(p)
    BY <2>2 DEF WriteIndex, Pcs
  <2>3. CASE DeleteLookup(p)
    BY <2>3 DEF DeleteLookup, Pcs
  <2>4. CASE ArchiveResolve(p)
    <3>1. call' \in [Tasks -> [pc : Pcs, path : Paths]]
      BY <2>4 DEF ArchiveResolve, Pcs
    <3>2. crossed' \in BOOLEAN
      BY <2>4 DEF ArchiveResolve
    <3> QED BY <2>4, <3>1, <3>2 DEF ArchiveResolve
  <2>5. CASE ArchiveCopy(p)
    BY <2>5 DEF ArchiveCopy, Pcs
  <2>6. CASE ArchiveRemove(p)
    <3>1. call' \in [Tasks -> [pc : Pcs, path : Paths]]
      BY <2>6 DEF ArchiveRemove, Pcs
    <3> QED BY <2>6, <3>1 DEF ArchiveRemove
  <2>7. CASE ArchiveHistory(p)
    BY <2>7 DEF ArchiveHistory, Pcs
  <2>8. CASE ArchiveRegister(p)
    BY <2>8 DEF ArchiveRegister, Pcs
  <2>9. CASE Deindex(p)
    BY <2>9 DEF Deindex, Pcs
  <2>10. CASE Destroy(p)
    <3>1. call' \in [Tasks -> [pc : Pcs, path : Paths]]
      BY <2>10 DEF Destroy, Pcs
    <3>2. md' \in BOOLEAN /\ erased' \in BOOLEAN
      BY <2>10 DEF Destroy
    <3> QED BY <2>10, <3>1, <3>2 DEF Destroy
  <2>11. CASE DestroyHistory(p)
    BY <2>11 DEF DestroyHistory, Pcs
  <2>12. CASE RestoreCheck(p)
    <3>1. call' \in [Tasks -> [pc : Pcs, path : Paths]]
      BY <2>12 DEF RestoreCheck, Pcs
    <3>2. crossed' \in BOOLEAN
      BY <2>12 DEF RestoreCheck
    <3> QED BY <2>12, <3>1, <3>2 DEF RestoreCheck
  <2>13. CASE RestoreFile(p)
    BY <2>13 DEF RestoreFile, Pcs
  <2>14. CASE RestoreIndex(p)
    BY <2>14 DEF RestoreIndex, Pcs
  <2>15. CASE RestoreMark(p)
    BY <2>15 DEF RestoreMark, Pcs
  <2>16. CASE RestoreClean(p)
    BY <2>16 DEF RestoreClean, Pcs
  <2>17. CASE RestoreHistory(p)
    BY <2>17 DEF RestoreHistory, Pcs
  <2>18. CASE PurgeSelect(p)
    <3>1. call' \in [Tasks -> [pc : Pcs, path : Paths]]
      BY <2>18 DEF PurgeSelect, Pcs
    <3>2. crossed' \in BOOLEAN
      BY <2>18 DEF PurgeSelect
    <3> QED BY <2>18, <3>1, <3>2 DEF PurgeSelect
  <2>19. CASE EraseFile(p)
    BY <2>19 DEF EraseFile, Pcs
  <2>20. CASE EraseHistory(p)
    BY <2>20 DEF EraseHistory, Pcs
  <2>21. CASE EraseMark(p)
    BY <2>21 DEF EraseMark, Pcs
  <2> QED
    BY <1>3, <2>1, <2>2, <2>3, <2>4, <2>5, <2>6, <2>7, <2>8, <2>9, <2>10, <2>11, <2>12, <2>13, <2>14, <2>15, <2>16, <2>17, <2>18, <2>19, <2>20, <2>21 DEF CallStep
<1>8. ASSUME NEW p \in Tasks, ArchiveResolveBlind(p) PROVE TypeOK'
  BY <1>8 DEF ArchiveResolveBlind, Pcs
<1>4. ASSUME NEW p \in Tasks, Fails(p) \/ Skips(p) PROVE TypeOK'
  <2>1. call' \in [Tasks -> [pc : Pcs, path : Paths]]
    BY <1>4 DEF Fails, Skips, AfterBestEffort, Pcs
  <2> QED BY <1>4, <2>1 DEF Fails, Skips
<1>5. CASE Expire
  BY <1>5 DEF Expire
<1>6. CASE Crash
  BY <1>6 DEF Crash, Pcs
<1>7. CASE UNCHANGED vars
  BY <1>7 DEF vars
<1> QED BY <1>1, <1>2, <1>3, <1>4, <1>5, <1>6, <1>7, <1>8 DEF Next

(* What a step does to the suffixes and to those who wait for one: nothing, *)
(* or a call begins, or a delete gets its destination.                      *)
LEMMA StepChoosing ==
  ASSUME TypeOK, [Next]_vars
  PROVE  \/ UNCHANGED <<suffix, ops>> /\ Choosing' \subseteq Choosing
         \/ /\ suffix' = suffix /\ ops' = ops + 1
            /\ \E p \in Tasks : Choosing' \subseteq Choosing \cup {p}
         \/ /\ suffix' \in {suffix, suffix + 1} /\ ops' = ops
            /\ \E p \in Choosing : ArchiveResolve(p) /\ Choosing' \subseteq Choosing \ {p}
<1> USE DEF TypeOK, counters, Goto, GotoWith, Return, At, Fault, DeleteGoesTo, ArchiveTo, Choosing
<1>1. CASE \E p \in Procs, pc \in {"writeFile", "lookup", "destroy", "check", "select"} : Start(p, pc)
  BY <1>1 DEF Start, Tasks
<1>2. CASE GcStart
  BY <1>2 DEF GcStart
<1>3. ASSUME NEW p \in Tasks, ArchiveResolve(p)
      PROVE  /\ suffix' \in {suffix, suffix + 1} /\ ops' = ops
             /\ p \in Choosing
             /\ Choosing' \subseteq Choosing \ {p}
  BY <1>3 DEF ArchiveResolve
<1>4. ASSUME NEW p \in Tasks, CallStep(p), ~ArchiveResolve(p)
      PROVE  UNCHANGED <<suffix, ops>> /\ Choosing' \subseteq Choosing
  <2>1. CASE WriteFile(p)
    BY <2>1 DEF WriteFile
  <2>2. CASE WriteIndex(p)
    BY <2>2 DEF WriteIndex
  <2>3. CASE DeleteLookup(p)
    BY <2>3 DEF DeleteLookup
  <2>4. CASE ArchiveCopy(p)
    BY <2>4 DEF ArchiveCopy
  <2>5. CASE ArchiveRemove(p)
    BY <2>5 DEF ArchiveRemove
  <2>6. CASE ArchiveHistory(p)
    BY <2>6 DEF ArchiveHistory
  <2>7. CASE ArchiveRegister(p)
    BY <2>7 DEF ArchiveRegister
  <2>8. CASE Deindex(p)
    BY <2>8 DEF Deindex
  <2>9. CASE Destroy(p)
    BY <2>9 DEF Destroy
  <2>10. CASE DestroyHistory(p)
    BY <2>10 DEF DestroyHistory
  <2>11. CASE RestoreCheck(p)
    BY <2>11 DEF RestoreCheck
  <2>12. CASE RestoreFile(p)
    BY <2>12 DEF RestoreFile
  <2>13. CASE RestoreIndex(p)
    BY <2>13 DEF RestoreIndex
  <2>14. CASE RestoreMark(p)
    BY <2>14 DEF RestoreMark
  <2>15. CASE RestoreClean(p)
    BY <2>15 DEF RestoreClean
  <2>16. CASE RestoreHistory(p)
    BY <2>16 DEF RestoreHistory
  <2>17. CASE PurgeSelect(p)
    BY <2>17 DEF PurgeSelect
  <2>18. CASE EraseFile(p)
    BY <2>18 DEF EraseFile
  <2>19. CASE EraseHistory(p)
    BY <2>19 DEF EraseHistory
  <2>20. CASE EraseMark(p)
    BY <2>20 DEF EraseMark
  <2> QED
    BY <1>4, <2>1, <2>2, <2>3, <2>4, <2>5, <2>6, <2>7, <2>8, <2>9, <2>10, <2>11, <2>12, <2>13, <2>14, <2>15, <2>16, <2>17, <2>18, <2>19, <2>20 DEF CallStep
<1>5. ASSUME NEW p \in Tasks, ArchiveResolveBlind(p) \/ Fails(p) \/ Skips(p)
      PROVE  UNCHANGED <<suffix, ops>> /\ Choosing' \subseteq Choosing
  BY <1>5 DEF ArchiveResolveBlind, Fails, Skips, AfterBestEffort
<1>6. CASE Expire \/ Crash
  BY <1>6 DEF Expire, Crash
<1>7. CASE UNCHANGED vars
  BY <1>7 DEF vars
<1> QED BY <1>1, <1>2, <1>3, <1>4, <1>5, <1>6, <1>7 DEF Next

(* A suffix is given out only against a call, so that it stays in range.    *)
LEMMA StepSuffix ==
  ASSUME TypeOK, SuffixPaid, [Next]_vars
  PROVE  SuffixPaid' /\ (ops' <= MaxOps => suffix' \in 0..MaxOps)
<1> USE NoteArchiveAssumption
<1> DEFINE C == Choosing
           D == Choosing'
<1>1. C \in SUBSET Tasks /\ D \in SUBSET Tasks
  BY DEF Choosing
<1>2. /\ IsFiniteSet(C) /\ Cardinality(C) \in Nat
      /\ IsFiniteSet(D) /\ Cardinality(D) \in Nat
  BY <1>1, TasksFinite
<1>3. suffix \in Nat /\ ops \in Nat /\ suffix + Cardinality(C) <= ops
  BY DEF TypeOK, SuffixPaid
<1>4. SUFFICES suffix' \in Nat /\ ops' \in Nat /\ suffix' + Cardinality(D) <= ops'
  BY <1>2 DEF SuffixPaid
<1>5. CASE UNCHANGED <<suffix, ops>> /\ D \subseteq C
  <2>1. Cardinality(D) <= Cardinality(C)
    BY <1>2, <1>5, FS_Subset
  <2> QED BY <1>2, <1>3, <1>5, <2>1
<1>6. CASE /\ suffix' = suffix /\ ops' = ops + 1
           /\ \E p \in Tasks : D \subseteq C \cup {p}
  <2> PICK p \in Tasks : D \subseteq C \cup {p}
    BY <1>6
  <2>3. /\ IsFiniteSet(C \cup {p})
        /\ Cardinality(C \cup {p}) = IF p \in C THEN Cardinality(C) ELSE Cardinality(C) + 1
    BY <1>2, FS_AddElement
  <2>1. IsFiniteSet(C \cup {p}) /\ Cardinality(C \cup {p}) <= Cardinality(C) + 1
    BY <1>2, <2>3
  <2>2. Cardinality(D) <= Cardinality(C \cup {p}) /\ Cardinality(C \cup {p}) \in Nat
    BY <2>1, FS_Subset, FS_CardinalityType
  <2> QED BY <1>2, <1>3, <1>6, <2>1, <2>2
<1>7. CASE /\ suffix' \in {suffix, suffix + 1} /\ ops' = ops
           /\ \E p \in C : D \subseteq C \ {p}
  <2> PICK p \in C : D \subseteq C \ {p}
    BY <1>7
  <2>1. IsFiniteSet(C \ {p}) /\ Cardinality(C \ {p}) = Cardinality(C) - 1
    BY <1>2, FS_RemoveElement
  <2>2. Cardinality(D) <= Cardinality(C \ {p})
    BY <2>1, FS_Subset
  <2> QED BY <1>2, <1>3, <1>7, <2>1, <2>2
<1> QED BY <1>5, <1>6, <1>7, StepChoosing

(* Every variable keeps its type, however calls overlap: a suffix is never  *)
(* given out twice and there are never more archives than calls.            *)
THEOREM TypeCorrect == Spec => []TypeOK
<1>1. Init => TypeOK /\ SuffixPaid
  <2> SUFFICES ASSUME Init PROVE TypeOK /\ SuffixPaid
    OBVIOUS
  <2>1. Choosing = {}
    BY DEF Init, Choosing
  <2>2. SuffixPaid
    BY <2>1, FS_EmptySet DEF Init, SuffixPaid
  <2>3. TypeOK
    <3>1. 0 \in Paths /\ "idle" \in Pcs
      BY NoteArchiveAssumption DEF Paths, Pcs
    <3>2. call \in [Tasks -> [pc : Pcs, path : Paths]]
      BY <3>1 DEF Init
    <3>3. {md, vaultHist, archHist, erased, crossed} \subseteq BOOLEAN
      BY Zenon DEF Init
    <3> QED BY <3>2, <3>3, NoteArchiveAssumption DEF Init, TypeOK
  <2> QED BY <2>2, <2>3
<1>2. TypeOK /\ SuffixPaid /\ [Next]_vars => TypeOK' /\ SuffixPaid'
  <2> SUFFICES ASSUME TypeOK, SuffixPaid, [Next]_vars PROVE TypeOK' /\ SuffixPaid'
    OBVIOUS
  <2>1. ASSUME NEW p \in Tasks, ArchiveResolve(p) PROVE suffix' \in 0..MaxOps
    <3>1. ops' = ops /\ ops <= MaxOps
      BY <2>1, NoteArchiveAssumption DEF ArchiveResolve, TypeOK
    <3> QED BY <3>1, StepSuffix
  <2> QED BY <2>1, StepTypes, StepSuffix
<1> QED BY <1>1, <1>2, PTL DEF Spec

-----------------------------------------------------------------------------
(* As long as no delete and no removal have crossed, a delete and a removal *)
(* in flight have different paths ...                                       *)
PathsDiffer ==
  \A p, q \in Tasks :
    call[p].pc \in Depositing /\ call[q].pc \in Removing => call[p].path # call[q].path

(* ... so that a delete that has copied the note keeps its copy until the   *)
(* registry knows of it, and a restore about to remove an archived file has *)
(* taken it off the registry ...                                            *)
CarriesOver ==
  \A p \in Tasks :
    /\ call[p].pc \in {"remove", "history", "register"} => call[p].path \in files
    /\ call[p].pc = "restoreClean" => active = NoRow \/ active.path # call[p].path

(* ... and there is a copy of the note that no restore is about to remove.  *)
CopyIsSafe == erased \/ md \/ files \ Doomed # {}

SafeInv == crossed \/ (PathsDiffer /\ CarriesOver /\ CopyIsSafe /\ RegistryIsTruthful)

(* Once crossed, always crossed.                                            *)
LEMMA StepCrossed ==
  ASSUME TypeOK, [Next]_vars, crossed
  PROVE  crossed'
<1> USE DEF TypeOK, vault, archive, counters, ghosts, Goto, GotoWith, Return, At, Fault, PutFile,
            DeleteGoesTo, ArchiveTo
<1>1. CASE \E p \in Procs, pc \in {"writeFile", "lookup", "destroy", "check", "select"} : Start(p, pc)
  BY <1>1 DEF Start, Tasks
<1>2. CASE GcStart
  BY <1>2 DEF GcStart, Tasks
<1>3. ASSUME NEW p \in Tasks, CallStep(p)
      PROVE  crossed'
  <2>1. CASE WriteFile(p)
    BY <2>1 DEF WriteFile
  <2>2. CASE WriteIndex(p)
    BY <2>2 DEF WriteIndex
  <2>3. CASE DeleteLookup(p)
    BY <2>3 DEF DeleteLookup
  <2>4. CASE ArchiveResolve(p)
    BY <2>4 DEF ArchiveResolve
  <2>5. CASE ArchiveCopy(p)
    BY <2>5 DEF ArchiveCopy
  <2>6. CASE ArchiveRemove(p)
    BY <2>6 DEF ArchiveRemove
  <2>7. CASE ArchiveHistory(p)
    BY <2>7 DEF ArchiveHistory
  <2>8. CASE ArchiveRegister(p)
    BY <2>8 DEF ArchiveRegister
  <2>9. CASE Deindex(p)
    BY <2>9 DEF Deindex
  <2>10. CASE Destroy(p)
    BY <2>10 DEF Destroy
  <2>11. CASE DestroyHistory(p)
    BY <2>11 DEF DestroyHistory
  <2>12. CASE RestoreCheck(p)
    BY <2>12 DEF RestoreCheck
  <2>13. CASE RestoreFile(p)
    BY <2>13 DEF RestoreFile
  <2>14. CASE RestoreIndex(p)
    BY <2>14 DEF RestoreIndex
  <2>15. CASE RestoreMark(p)
    BY <2>15 DEF RestoreMark
  <2>16. CASE RestoreClean(p)
    BY <2>16 DEF RestoreClean
  <2>17. CASE RestoreHistory(p)
    BY <2>17 DEF RestoreHistory
  <2>18. CASE PurgeSelect(p)
    BY <2>18 DEF PurgeSelect
  <2>19. CASE EraseFile(p)
    BY <2>19 DEF EraseFile
  <2>20. CASE EraseHistory(p)
    BY <2>20 DEF EraseHistory
  <2>21. CASE EraseMark(p)
    BY <2>21 DEF EraseMark
  <2> QED
    BY <1>3, <2>1, <2>2, <2>3, <2>4, <2>5, <2>6, <2>7, <2>8, <2>9, <2>10, <2>11, <2>12, <2>13, <2>14, <2>15, <2>16, <2>17, <2>18, <2>19, <2>20, <2>21 DEF CallStep
<1>4. ASSUME NEW p \in Tasks, ArchiveResolveBlind(p)
      PROVE  crossed'
  BY <1>4 DEF ArchiveResolveBlind
<1>5. ASSUME NEW p \in Tasks, Fails(p) \/ Skips(p)
      PROVE  crossed'
  BY <1>5 DEF Fails, Skips, AfterBestEffort
<1>6. CASE Expire
  BY <1>6 DEF Expire
<1>7. CASE Crash
  BY <1>7 DEF Crash
<1>8. CASE UNCHANGED vars
  BY <1>8 DEF vars
<1> QED BY <1>1, <1>2, <1>3, <1>4, <1>5, <1>6, <1>7, <1>8 DEF Next

(* A path is taken by a delete, or by a removal, only as crossed or while   *)
(* none of the other kind has it.                                           *)
LEMMA StepPathsDiffer ==
  ASSUME TypeOK, [Next]_vars, PathsDiffer
  PROVE  crossed' \/ PathsDiffer'
<1> USE DEF TypeOK, vault, archive, counters, ghosts, Goto, GotoWith, Return, At, Fault, PutFile,
            DeleteGoesTo, ArchiveTo, Crosses, Depositing, Removing, PathsDiffer
<1>1. CASE \E p \in Procs, pc \in {"writeFile", "lookup", "destroy", "check", "select"} : Start(p, pc)
  BY <1>1 DEF Start, Tasks
<1>2. CASE GcStart
  BY <1>2 DEF GcStart, Tasks
<1>3. ASSUME NEW p \in Tasks, CallStep(p)
      PROVE  crossed' \/ PathsDiffer'
  <2>1. CASE WriteFile(p)
    BY <2>1 DEF WriteFile
  <2>2. CASE WriteIndex(p)
    BY <2>2 DEF WriteIndex
  <2>3. CASE DeleteLookup(p)
    BY <2>3 DEF DeleteLookup
  <2>4. CASE ArchiveResolve(p)
    <3>1. CASE row = "none"
      BY <2>4, <3>1 DEF ArchiveResolve
    <3>2. CASE row # "none"
      <4> DEFINE path == IF 0 \in files THEN suffix + 1 ELSE 0
      <4>1. ArchiveTo(p, path)
        BY <2>4, <3>2 DEF ArchiveResolve
      <4> HIDE DEF path
      <4>2. CASE Crosses(p, path, Removing)
        BY <4>1, <4>2
      <4>3. CASE ~Crosses(p, path, Removing)
        BY <4>1, <4>3
      <4> QED BY <4>2, <4>3
    <3> QED BY <3>1, <3>2
  <2>5. CASE ArchiveCopy(p)
    BY <2>5 DEF ArchiveCopy
  <2>6. CASE ArchiveRemove(p)
    BY <2>6 DEF ArchiveRemove
  <2>7. CASE ArchiveHistory(p)
    BY <2>7 DEF ArchiveHistory
  <2>8. CASE ArchiveRegister(p)
    BY <2>8 DEF ArchiveRegister
  <2>9. CASE Deindex(p)
    BY <2>9 DEF Deindex
  <2>10. CASE Destroy(p)
    BY <2>10 DEF Destroy
  <2>11. CASE DestroyHistory(p)
    BY <2>11 DEF DestroyHistory
  <2>12. CASE RestoreCheck(p)
    <3>1. CASE Return(p)
      BY <3>1
    <3>2. CASE /\ GotoWith(p, "restoreFile", active.path)
               /\ crossed' = (crossed \/ Crosses(p, active.path, Depositing))
      BY <3>2
    <3> QED BY <2>12, <3>1, <3>2 DEF RestoreCheck
  <2>13. CASE RestoreFile(p)
    BY <2>13 DEF RestoreFile
  <2>14. CASE RestoreIndex(p)
    BY <2>14 DEF RestoreIndex
  <2>15. CASE RestoreMark(p)
    BY <2>15 DEF RestoreMark
  <2>16. CASE RestoreClean(p)
    BY <2>16 DEF RestoreClean
  <2>17. CASE RestoreHistory(p)
    BY <2>17 DEF RestoreHistory
  <2>18. CASE PurgeSelect(p)
    <3>1. CASE Return(p)
      BY <3>1
    <3>2. CASE /\ GotoWith(p, "eraseFile", active.path)
               /\ crossed' = (crossed \/ Crosses(p, active.path, Depositing))
      BY <3>2
    <3> QED BY <2>18, <3>1, <3>2 DEF PurgeSelect
  <2>19. CASE EraseFile(p)
    BY <2>19 DEF EraseFile
  <2>20. CASE EraseHistory(p)
    BY <2>20 DEF EraseHistory
  <2>21. CASE EraseMark(p)
    BY <2>21 DEF EraseMark
  <2> QED
    BY <1>3, <2>1, <2>2, <2>3, <2>4, <2>5, <2>6, <2>7, <2>8, <2>9, <2>10, <2>11, <2>12, <2>13, <2>14, <2>15, <2>16, <2>17, <2>18, <2>19, <2>20, <2>21 DEF CallStep
<1>4. ASSUME NEW p \in Tasks, ArchiveResolveBlind(p)
      PROVE  crossed' \/ PathsDiffer'
  BY <1>4 DEF ArchiveResolveBlind
<1>5. ASSUME NEW p \in Tasks, Fails(p) \/ Skips(p)
      PROVE  crossed' \/ PathsDiffer'
  BY <1>5 DEF Fails, Skips, AfterBestEffort
<1>6. CASE Expire
  BY <1>6 DEF Expire
<1>7. CASE Crash
  BY <1>7 DEF Crash
<1>8. CASE UNCHANGED vars
  BY <1>8 DEF vars
<1> QED BY <1>1, <1>2, <1>3, <1>4, <1>5, <1>6, <1>7, <1>8 DEF Next

(* No step takes from a call what it relies on.                             *)
LEMMA StepCarriesOver ==
  ASSUME TypeOK, [Next]_vars, PathsDiffer, CarriesOver
  PROVE  CarriesOver'
<1> USE DEF TypeOK, vault, archive, counters, ghosts, Goto, GotoWith, Return, At, Fault, PutFile,
            DeleteGoesTo, ArchiveTo, Depositing, Removing, PathsDiffer, CarriesOver
<1>1. CASE \E p \in Procs, pc \in {"writeFile", "lookup", "destroy", "check", "select"} : Start(p, pc)
  BY <1>1 DEF Start, Tasks
<1>2. CASE GcStart
  BY <1>2 DEF GcStart, Tasks
<1>3. ASSUME NEW p \in Tasks, CallStep(p)
      PROVE  CarriesOver'
  <2>1. CASE WriteFile(p)
    BY <2>1 DEF WriteFile
  <2>2. CASE WriteIndex(p)
    BY <2>2 DEF WriteIndex
  <2>3. CASE DeleteLookup(p)
    BY <2>3 DEF DeleteLookup
  <2>4. CASE ArchiveResolve(p)
    BY <2>4 DEF ArchiveResolve
  <2>5. CASE ArchiveCopy(p)
    BY <2>5 DEF ArchiveCopy
  <2>6. CASE ArchiveRemove(p)
    BY <2>6 DEF ArchiveRemove
  <2>7. CASE ArchiveHistory(p)
    BY <2>7 DEF ArchiveHistory
  <2>8. CASE ArchiveRegister(p)
    BY <2>8 DEF ArchiveRegister
  <2>9. CASE Deindex(p)
    BY <2>9 DEF Deindex
  <2>10. CASE Destroy(p)
    BY <2>10 DEF Destroy
  <2>11. CASE DestroyHistory(p)
    BY <2>11 DEF DestroyHistory
  <2>12. CASE RestoreCheck(p)
    BY <2>12 DEF RestoreCheck
  <2>13. CASE RestoreFile(p)
    BY <2>13 DEF RestoreFile
  <2>14. CASE RestoreIndex(p)
    BY <2>14 DEF RestoreIndex
  <2>15. CASE RestoreMark(p)
    BY <2>15 DEF RestoreMark
  <2>16. CASE RestoreClean(p)
    BY <2>16 DEF RestoreClean
  <2>17. CASE RestoreHistory(p)
    BY <2>17 DEF RestoreHistory
  <2>18. CASE PurgeSelect(p)
    BY <2>18 DEF PurgeSelect
  <2>19. CASE EraseFile(p)
    BY <2>19 DEF EraseFile
  <2>20. CASE EraseHistory(p)
    BY <2>20 DEF EraseHistory
  <2>21. CASE EraseMark(p)
    BY <2>21 DEF EraseMark
  <2> QED
    BY <1>3, <2>1, <2>2, <2>3, <2>4, <2>5, <2>6, <2>7, <2>8, <2>9, <2>10, <2>11, <2>12, <2>13, <2>14, <2>15, <2>16, <2>17, <2>18, <2>19, <2>20, <2>21 DEF CallStep
<1>4. ASSUME NEW p \in Tasks, ArchiveResolveBlind(p)
      PROVE  CarriesOver'
  BY <1>4 DEF ArchiveResolveBlind
<1>5. ASSUME NEW p \in Tasks, Fails(p) \/ Skips(p)
      PROVE  CarriesOver'
  BY <1>5 DEF Fails, Skips, AfterBestEffort
<1>6. CASE Expire
  BY <1>6 DEF Expire
<1>7. CASE Crash
  BY <1>7 DEF Crash
<1>8. CASE UNCHANGED vars
  BY <1>8 DEF vars
<1> QED BY <1>1, <1>2, <1>3, <1>4, <1>5, <1>6, <1>7, <1>8 DEF Next

(* No step makes the registry lie.                                          *)
LEMMA StepRegistry ==
  ASSUME TypeOK, [Next]_vars, ~crossed, CarriesOver, RegistryIsTruthful
  PROVE  RegistryIsTruthful'
<1> USE DEF TypeOK, vault, archive, counters, ghosts, Goto, GotoWith, Return, At, Fault, PutFile,
            DeleteGoesTo, ArchiveTo, CarriesOver, RegistryIsTruthful
<1>1. CASE \E p \in Procs, pc \in {"writeFile", "lookup", "destroy", "check", "select"} : Start(p, pc)
  BY <1>1 DEF Start, Tasks
<1>2. CASE GcStart
  BY <1>2 DEF GcStart, Tasks
<1>3. ASSUME NEW p \in Tasks, CallStep(p)
      PROVE  RegistryIsTruthful'
  <2>1. CASE WriteFile(p)
    BY <2>1 DEF WriteFile
  <2>2. CASE WriteIndex(p)
    BY <2>2 DEF WriteIndex
  <2>3. CASE DeleteLookup(p)
    BY <2>3 DEF DeleteLookup
  <2>4. CASE ArchiveResolve(p)
    BY <2>4 DEF ArchiveResolve
  <2>5. CASE ArchiveCopy(p)
    BY <2>5 DEF ArchiveCopy
  <2>6. CASE ArchiveRemove(p)
    BY <2>6 DEF ArchiveRemove
  <2>7. CASE ArchiveHistory(p)
    BY <2>7 DEF ArchiveHistory
  <2>8. CASE ArchiveRegister(p)
    BY <2>8 DEF ArchiveRegister
  <2>9. CASE Deindex(p)
    BY <2>9 DEF Deindex
  <2>10. CASE Destroy(p)
    BY <2>10 DEF Destroy
  <2>11. CASE DestroyHistory(p)
    BY <2>11 DEF DestroyHistory
  <2>12. CASE RestoreCheck(p)
    BY <2>12 DEF RestoreCheck
  <2>13. CASE RestoreFile(p)
    BY <2>13 DEF RestoreFile
  <2>14. CASE RestoreIndex(p)
    BY <2>14 DEF RestoreIndex
  <2>15. CASE RestoreMark(p)
    BY <2>15 DEF RestoreMark
  <2>16. CASE RestoreClean(p)
    BY <2>16 DEF RestoreClean
  <2>17. CASE RestoreHistory(p)
    BY <2>17 DEF RestoreHistory
  <2>18. CASE PurgeSelect(p)
    BY <2>18 DEF PurgeSelect
  <2>19. CASE EraseFile(p)
    BY <2>19 DEF EraseFile
  <2>20. CASE EraseHistory(p)
    BY <2>20 DEF EraseHistory
  <2>21. CASE EraseMark(p)
    BY <2>21 DEF EraseMark
  <2> QED
    BY <1>3, <2>1, <2>2, <2>3, <2>4, <2>5, <2>6, <2>7, <2>8, <2>9, <2>10, <2>11, <2>12, <2>13, <2>14, <2>15, <2>16, <2>17, <2>18, <2>19, <2>20, <2>21 DEF CallStep
<1>4. ASSUME NEW p \in Tasks, ArchiveResolveBlind(p)
      PROVE  RegistryIsTruthful'
  BY <1>4 DEF ArchiveResolveBlind
<1>5. ASSUME NEW p \in Tasks, Fails(p) \/ Skips(p)
      PROVE  RegistryIsTruthful'
  BY <1>5 DEF Fails, Skips, AfterBestEffort
<1>6. CASE Expire
  BY <1>6 DEF Expire
<1>7. CASE Crash
  BY <1>7 DEF Crash
<1>8. CASE UNCHANGED vars
  BY <1>8 DEF vars
<1> QED BY <1>1, <1>2, <1>3, <1>4, <1>5, <1>6, <1>7, <1>8 DEF Next

(* No step loses the last safe copy but one that is to destroy the note.    *)
LEMMA StepCopyIsSafe ==
  ASSUME TypeOK, [Next]_vars, PathsDiffer, CarriesOver, CopyIsSafe
  PROVE  CopyIsSafe'
<1> USE DEF TypeOK, vault, archive, counters, ghosts, Goto, GotoWith, Return, At, Fault, PutFile,
            DeleteGoesTo, ArchiveTo, Depositing, Removing, PathsDiffer, CarriesOver, CopyIsSafe, Doomed
<1>1. CASE \E p \in Procs, pc \in {"writeFile", "lookup", "destroy", "check", "select"} : Start(p, pc)
  BY <1>1 DEF Start, Tasks
<1>2. CASE GcStart
  BY <1>2 DEF GcStart, Tasks
<1>3. ASSUME NEW p \in Tasks, CallStep(p)
      PROVE  CopyIsSafe'
  <2>1. CASE WriteFile(p)
    BY <2>1 DEF WriteFile
  <2>2. CASE WriteIndex(p)
    BY <2>2 DEF WriteIndex
  <2>3. CASE DeleteLookup(p)
    BY <2>3 DEF DeleteLookup
  <2>4. CASE ArchiveResolve(p)
    BY <2>4 DEF ArchiveResolve
  <2>5. CASE ArchiveCopy(p)
    BY <2>5 DEF ArchiveCopy
  <2>6. CASE ArchiveRemove(p)
    BY <2>6 DEF ArchiveRemove
  <2>7. CASE ArchiveHistory(p)
    BY <2>7 DEF ArchiveHistory
  <2>8. CASE ArchiveRegister(p)
    BY <2>8 DEF ArchiveRegister
  <2>9. CASE Deindex(p)
    BY <2>9 DEF Deindex
  <2>10. CASE Destroy(p)
    BY <2>10 DEF Destroy
  <2>11. CASE DestroyHistory(p)
    BY <2>11 DEF DestroyHistory
  <2>12. CASE RestoreCheck(p)
    BY <2>12 DEF RestoreCheck
  <2>13. CASE RestoreFile(p)
    BY <2>13 DEF RestoreFile
  <2>14. CASE RestoreIndex(p)
    BY <2>14 DEF RestoreIndex
  <2>15. CASE RestoreMark(p)
    BY <2>15 DEF RestoreMark
  <2>16. CASE RestoreClean(p)
    BY <2>16 DEF RestoreClean
  <2>17. CASE RestoreHistory(p)
    BY <2>17 DEF RestoreHistory
  <2>18. CASE PurgeSelect(p)
    BY <2>18 DEF PurgeSelect
  <2>19. CASE EraseFile(p)
    <3>1. Doomed' \subseteq Doomed
      BY <2>19 DEF EraseFile
    <3>2. erased' = (erased \/ (~md /\ files' \subseteq Doomed)) /\ md' = md
      BY <2>19 DEF EraseFile
    <3> HIDE DEF Doomed
    <3> QED BY <3>1, <3>2
  <2>20. CASE EraseHistory(p)
    BY <2>20 DEF EraseHistory
  <2>21. CASE EraseMark(p)
    BY <2>21 DEF EraseMark
  <2> QED
    BY <1>3, <2>1, <2>2, <2>3, <2>4, <2>5, <2>6, <2>7, <2>8, <2>9, <2>10, <2>11, <2>12, <2>13, <2>14, <2>15, <2>16, <2>17, <2>18, <2>19, <2>20, <2>21 DEF CallStep
<1>4. ASSUME NEW p \in Tasks, ArchiveResolveBlind(p)
      PROVE  CopyIsSafe'
  BY <1>4 DEF ArchiveResolveBlind
<1>5. ASSUME NEW p \in Tasks, Fails(p) \/ Skips(p)
      PROVE  CopyIsSafe'
  BY <1>5 DEF Fails, Skips, AfterBestEffort
<1>6. CASE Expire
  BY <1>6 DEF Expire
<1>7. CASE Crash
  BY <1>7 DEF Crash
<1>8. CASE UNCHANGED vars
  BY <1>8 DEF vars
<1> QED BY <1>1, <1>2, <1>3, <1>4, <1>5, <1>6, <1>7, <1>8 DEF Next

(* The inductive invariant holds in every reachable state.                  *)
LEMMA SafeInvariance == Spec => []SafeInv
<1>1. Init => SafeInv
  <2> SUFFICES ASSUME Init PROVE PathsDiffer /\ CarriesOver /\ CopyIsSafe /\ RegistryIsTruthful
    BY DEF SafeInv
  <2>1. PathsDiffer /\ CarriesOver
    BY DEF Init, PathsDiffer, CarriesOver, Depositing, Removing
  <2>2. CopyIsSafe /\ RegistryIsTruthful
    BY DEF Init, CopyIsSafe, RegistryIsTruthful
  <2> QED BY <2>1, <2>2
<1>2. TypeOK /\ SafeInv /\ [Next]_vars => SafeInv'
  BY StepCrossed, StepPathsDiffer, StepCarriesOver, StepRegistry, StepCopyIsSafe DEF SafeInv
<1> QED BY <1>1, <1>2, TypeCorrect, PTL DEF Spec

(* The note is lost only if a delete crosses a removal of the archived file *)
(* it writes, for any number of overlapping calls, failures and crashes:    *)
(* the copy comes before the removal of the .md, and the archived file goes *)
(* only after the note is back in the vault.                                *)
THEOREM NoteSurvivesCorrect == Spec => []NoteSurvives
<1>1. SafeInv => NoteSurvives
  BY DEF SafeInv, CopyIsSafe, NoteSurvives
<1> QED BY <1>1, SafeInvariance, PTL

(* No active row of archive_index is without a file, except for an archive  *)
(* that a purge or the GC has erased and for one that a delete and a        *)
(* removal have crossed over.                                               *)
THEOREM RegistryIsTruthfulCorrect == Spec => []RegistryIsTruthful
<1>1. SafeInv => RegistryIsTruthful
  BY DEF SafeInv, RegistryIsTruthful
<1> QED BY <1>1, SafeInvariance, PTL
=============================================================================

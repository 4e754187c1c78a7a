---------------------------- MODULE JobQueueProofs ----------------------------
(***************************************************************************)
(* Theorems about JobQueue, for every set of jobs, slots and workers, every *)
(* chaining, kind and priority of the jobs, and every bound.                *)
(*                                                                          *)
(* The inductive invariant is built in layers, each preserved with the help *)
(* of the ones before it:                                                   *)
(*   TypeOK and TaskInv     shapes; a slot holds a task iff it is busy      *)
(*   LeaseTracksRunning     the lease column follows the Running status     *)
(*   GateInv                whatever may become runnable has all its        *)
(*                          dependencies in everDone: rows, the dependents  *)
(*                          that passed their check, and the sweep's        *)
(*                          snapshot of exhausted rows                      *)
(*   SnapshotInv            a row in that snapshot is still Failed, or was  *)
(*                          Cancelled or marked Conflict meanwhile, and has *)
(*                          never been Done (with one worker process)       *)
(*   ExecutedInv            what slots and that snapshot hold is no message *)
(*                          and has left Waiting for good                   *)
(***************************************************************************)
EXTENDS JobQueue, TLAPS

(* The leadership lease lets one worker process run.                        *)
OneWorkerProcess == \A v, w \in Workers : v = w

(* A slot holds a task exactly when it is not idle.                         *)
TaskInv == \A s \in Slots : (slotPc[s] = "idle") <=> (slotJob[s] = NoJob)

Cleared(j) == Await[j] \subseteq everDone

GateInv ==
  /\ \A j \in Jobs : status[j] = "Done" => j \in everDone
  /\ \A j \in Jobs : status[j] \in {"Pending", "Running", "Done", "Failed", "DLQ"} => Cleared(j)
  /\ \A w \in Workers : \A j \in exhausted[w] : Cleared(j)
  /\ \A p \in Promoters : ready[p] # NoJob => Cleared(ready[p])

SnapshotInv ==
  /\ \A j \in everDone : status[j] \in {"Done", "Conflict"}
  /\ \A w \in Workers : \A j \in exhausted[w] :
       /\ j \notin everDone
       /\ j \notin retryable[w]
       /\ status[j] \in {"Failed", "Cancelled", "Conflict"}

ExecutedInv ==
  /\ \A s \in Slots : slotJob[s] # NoJob =>
       Kind[slotJob[s]] # MessageKind /\ status[slotJob[s]] \notin {"absent", "Waiting"}
  /\ \A w \in Workers : \A j \in exhausted[w] : Kind[j] # MessageKind
  /\ \A j \in Jobs : Kind[j] = MessageKind =>
       status[j] \in {"absent", "Pending", "Waiting", "Done", "Cancelled"}

-----------------------------------------------------------------------------
(* Every step keeps the shapes.                                             *)
LEMMA TypeStep ==
  TypeOK /\ TaskInv /\ [Next]_vars => TypeOK' /\ TaskInv'
<1> SUFFICES ASSUME TypeOK, TaskInv, [Next]_vars PROVE TypeOK' /\ TaskInv'
  OBVIOUS
<1> USE JobStoreAssumption, JobQueueAssumption
        DEF TypeOK, StoreTypeOK, TaskInv, storeVars, procVars, Promoters, SlotPcs, SweepPcs,
            JobStatus, Terminal, NoRow, Leases, Deadlines, MaxCount, Saturate
<1>1. ASSUME NEW j \in Jobs, Submit(j) PROVE TypeOK' /\ TaskInv'
  BY <1>1 DEF Submit, Enqueue
<1>2. ASSUME NEW j \in Jobs, LeaseTick(j) PROVE TypeOK' /\ TaskInv'
  BY <1>2 DEF LeaseTick, LeaseAges
<1>3. ASSUME NEW j \in Jobs, DeadlineTick(j) PROVE TypeOK' /\ TaskInv'
  BY <1>3 DEF DeadlineTick, DeadlinePasses
<1>4. ASSUME NEW j \in Jobs, CancelCheck(j) PROVE TypeOK' /\ TaskInv'
  BY <1>4 DEF CancelCheck
<1>5. ASSUME NEW j \in Jobs, CancelCommit(j) PROVE TypeOK' /\ TaskInv'
  BY <1>5 DEF CancelCommit, Cancel, Exists, IsTerminal
<1>6. ASSUME NEW j \in Jobs, AckMessage(j) PROVE TypeOK' /\ TaskInv'
  BY <1>6 DEF AckMessage, CompleteMessageDelivery
<1>7. ASSUME NEW j \in Jobs, Replay(j) PROVE TypeOK' /\ TaskInv'
  BY <1>7 DEF Replay, ReplaySingle
<1>8. ASSUME NEW S \in SUBSET Jobs, Prune(S) PROVE TypeOK' /\ TaskInv'
  BY <1>8 DEF Prune, DeleteDlqJobs
<1>9. ASSUME NEW S \in SUBSET Jobs, Purge(S) PROVE TypeOK' /\ TaskInv'
  BY <1>9 DEF Purge, PurgeOneBatch, IsTerminal
<1>10. ASSUME NEW s \in Slots, NEW j \in Jobs, Fetch(s, j) PROVE TypeOK' /\ TaskInv'
  BY <1>10 DEF Fetch, DequeueByKind, Dequeuable
<1>11. ASSUME NEW s \in Slots, AckOk(s) PROVE TypeOK' /\ TaskInv'
  BY <1>11 DEF AckOk, Complete, Leased
<1>12. ASSUME NEW s \in Slots, NEW a \in FailAttempts[SlotKind[s]], AckFail(s, a) PROVE TypeOK' /\ TaskInv'
  BY <1>12 DEF AckFail, Fail, Leased, Release
<1>13. ASSUME NEW s \in Slots, AckRefused(s) PROVE TypeOK' /\ TaskInv'
  BY <1>13 DEF AckRefused, Release
<1>14. ASSUME NEW s \in Slots, AckLost(s) PROVE TypeOK' /\ TaskInv'
  BY <1>14 DEF AckLost, Release
<1>15. ASSUME NEW s \in Slots, HandlerConflict(s) PROVE TypeOK' /\ TaskInv'
  <2>1. CASE MarkConflict(slotJob[s])
    BY <1>15, <2>1 DEF HandlerConflict, MarkConflict, Exists
  <2>2. CASE UNCHANGED storeVars
    BY <1>15, <2>2 DEF HandlerConflict
  <2>3. QED
    BY <1>15, <2>1, <2>2 DEF HandlerConflict
<1>16. ASSUME NEW s \in Slots, CascadeBegin(s) PROVE TypeOK' /\ TaskInv'
  BY <1>16 DEF CascadeBegin, FindAwaiting
<1>17. ASSUME NEW s \in Slots, CascadeEnd(s) PROVE TypeOK' /\ TaskInv'
  BY <1>17 DEF CascadeEnd, Release
<1>18. ASSUME NEW s \in Slots, CascadeError(s) PROVE TypeOK' /\ TaskInv'
  BY <1>18 DEF CascadeError, Release
<1>19. ASSUME NEW p \in Promoters, NEW d \in Jobs, CheckDependent(p, d) PROVE TypeOK' /\ TaskInv'
  BY <1>19 DEF CheckDependent, AllJobsDone
<1>20. ASSUME NEW p \in Promoters, PromoteDependent(p) PROVE TypeOK' /\ TaskInv'
  BY <1>20 DEF PromoteDependent, SetPending
<1>21. ASSUME NEW w \in Workers, SweepRecover(w) PROVE TypeOK' /\ TaskInv'
  BY <1>21 DEF SweepRecover, Goto, RecoverStaleLeases, Recoverable
<1>22. ASSUME NEW w \in Workers, SweepDeadlines(w) PROVE TypeOK' /\ TaskInv'
  BY <1>22 DEF SweepDeadlines, Goto, CancelExpiredDeadlines, PastDeadline, Exists, IsTerminal
<1>23. ASSUME NEW w \in Workers, SweepRetries(w) PROVE TypeOK' /\ TaskInv'
  BY <1>23 DEF SweepRetries, Goto, FailedJobs, Exhausted
<1>24. ASSUME NEW w \in Workers, NEW j \in Jobs, SweepToDlq(w, j) PROVE TypeOK' /\ TaskInv'
  BY <1>24 DEF SweepToDlq, FailDlq, Exists
<1>25. ASSUME NEW w \in Workers, NEW j \in Jobs, SweepRetry(w, j) PROVE TypeOK' /\ TaskInv'
  BY <1>25 DEF SweepRetry, RetryPending
<1>26. ASSUME NEW w \in Workers, SweepRetriesEnd(w) PROVE TypeOK' /\ TaskInv'
  BY <1>26 DEF SweepRetriesEnd, Goto
<1>27. ASSUME NEW w \in Workers, SweepStranded(w) PROVE TypeOK' /\ TaskInv'
  BY <1>27 DEF SweepStranded, Goto, StrandedCandidates
<1>28. ASSUME NEW w \in Workers, SweepEnd(w) PROVE TypeOK' /\ TaskInv'
  BY <1>28 DEF SweepEnd, Goto
<1>29. ASSUME NEW w \in Workers, SweepError(w) PROVE TypeOK' /\ TaskInv'
  BY <1>29 DEF SweepError, NextStage
<1>30. ASSUME NEW w \in Workers, Crash(w) PROVE TypeOK' /\ TaskInv'
  BY <1>30 DEF Crash
<1>31. CASE UNCHANGED vars
  BY <1>31 DEF vars
<1>32. QED
  BY <1>1, <1>2, <1>3, <1>4, <1>5, <1>6, <1>7, <1>8, <1>9, <1>10, <1>11, <1>12, <1>13, <1>14, <1>15, <1>16, <1>17, <1>18, <1>19, <1>20, <1>21, <1>22, <1>23, <1>24, <1>25, <1>26, <1>27, <1>28, <1>29, <1>30, <1>31 DEF Next, Clients, Clock, SlotStep, Promotion, SweepStep

(* Every step keeps the lease column in line with the status.               *)
LEMMA LeaseStep ==
  TypeOK /\ TaskInv /\ LeaseTracksRunning /\ [Next]_vars => LeaseTracksRunning'
<1> SUFFICES ASSUME TypeOK, TaskInv, LeaseTracksRunning, [Next]_vars PROVE LeaseTracksRunning'
  OBVIOUS
<1> USE JobStoreAssumption, JobQueueAssumption
        DEF TypeOK, StoreTypeOK, TaskInv, storeVars, procVars, Promoters, SlotPcs, JobStatus, Terminal,
            NoRow, Leases, LeaseTracksRunning
<1>1. ASSUME NEW j \in Jobs, Submit(j) PROVE LeaseTracksRunning'
  BY <1>1 DEF Submit, Enqueue
<1>2. ASSUME NEW j \in Jobs, LeaseTick(j) PROVE LeaseTracksRunning'
  BY <1>2 DEF LeaseTick, LeaseAges
<1>3. ASSUME NEW j \in Jobs, DeadlineTick(j) PROVE LeaseTracksRunning'
  BY <1>3 DEF DeadlineTick, DeadlinePasses
<1>4. ASSUME NEW j \in Jobs, CancelCheck(j) PROVE LeaseTracksRunning'
  BY <1>4 DEF CancelCheck
<1>5. ASSUME NEW j \in Jobs, CancelCommit(j) PROVE LeaseTracksRunning'
  BY <1>5 DEF CancelCommit, Cancel, Exists, IsTerminal
<1>6. ASSUME NEW j \in Jobs, AckMessage(j) PROVE LeaseTracksRunning'
  BY <1>6 DEF AckMessage, CompleteMessageDelivery
<1>7. ASSUME NEW j \in Jobs, Replay(j) PROVE LeaseTracksRunning'
  BY <1>7 DEF Replay, ReplaySingle
<1>8. ASSUME NEW S \in SUBSET Jobs, Prune(S) PROVE LeaseTracksRunning'
  BY <1>8 DEF Prune, DeleteDlqJobs
<1>9. ASSUME NEW S \in SUBSET Jobs, Purge(S) PROVE LeaseTracksRunning'
  BY <1>9 DEF Purge, PurgeOneBatch, IsTerminal
<1>10. ASSUME NEW s \in Slots, NEW j \in Jobs, Fetch(s, j) PROVE LeaseTracksRunning'
  BY <1>10 DEF Fetch, DequeueByKind, Dequeuable
<1>11. ASSUME NEW s \in Slots, AckOk(s) PROVE LeaseTracksRunning'
  BY <1>11 DEF AckOk, Complete, Leased
<1>12. ASSUME NEW s \in Slots, NEW a \in FailAttempts[SlotKind[s]], AckFail(s, a) PROVE LeaseTracksRunning'
  BY <1>12 DEF AckFail, Fail, Leased, Release
<1>13. ASSUME NEW s \in Slots, AckRefused(s) PROVE LeaseTracksRunning'
  BY <1>13 DEF AckRefused, Release
<1>14. ASSUME NEW s \in Slots, AckLost(s) PROVE LeaseTracksRunning'
  BY <1>14 DEF AckLost, Release
<1>15. ASSUME NEW s \in Slots, HandlerConflict(s) PROVE LeaseTracksRunning'
  <2>1. CASE MarkConflict(slotJob[s])
    BY <1>15, <2>1 DEF HandlerConflict, MarkConflict, Exists
  <2>2. CASE UNCHANGED storeVars
    BY <1>15, <2>2 DEF HandlerConflict
  <2>3. QED
    BY <1>15, <2>1, <2>2 DEF HandlerConflict
<1>16. ASSUME NEW s \in Slots, CascadeBegin(s) PROVE LeaseTracksRunning'
  BY <1>16 DEF CascadeBegin, FindAwaiting
<1>17. ASSUME NEW s \in Slots, CascadeEnd(s) PROVE LeaseTracksRunning'
  BY <1>17 DEF CascadeEnd, Release
<1>18. ASSUME NEW s \in Slots, CascadeError(s) PROVE LeaseTracksRunning'
  BY <1>18 DEF CascadeError, Release
<1>19. ASSUME NEW p \in Promoters, NEW d \in Jobs, CheckDependent(p, d) PROVE LeaseTracksRunning'
  BY <1>19 DEF CheckDependent, AllJobsDone
<1>20. ASSUME NEW p \in Promoters, PromoteDependent(p) PROVE LeaseTracksRunning'
  BY <1>20 DEF PromoteDependent, SetPending
<1>21. ASSUME NEW w \in Workers, SweepRecover(w) PROVE LeaseTracksRunning'
  BY <1>21 DEF SweepRecover, Goto, RecoverStaleLeases, Recoverable
<1>22. ASSUME NEW w \in Workers, SweepDeadlines(w) PROVE LeaseTracksRunning'
  BY <1>22 DEF SweepDeadlines, Goto, CancelExpiredDeadlines, PastDeadline, Exists, IsTerminal
<1>23. ASSUME NEW w \in Workers, SweepRetries(w) PROVE LeaseTracksRunning'
  BY <1>23 DEF SweepRetries, Goto, FailedJobs, Exhausted
<1>24. ASSUME NEW w \in Workers, NEW j \in Jobs, SweepToDlq(w, j) PROVE LeaseTracksRunning'
  BY <1>24 DEF SweepToDlq, FailDlq, Exists
<1>25. ASSUME NEW w \in Workers, NEW j \in Jobs, SweepRetry(w, j) PROVE LeaseTracksRunning'
  BY <1>25 DEF SweepRetry, RetryPending
<1>26. ASSUME NEW w \in Workers, SweepRetriesEnd(w) PROVE LeaseTracksRunning'
  BY <1>26 DEF SweepRetriesEnd, Goto
<1>27. ASSUME NEW w \in Workers, SweepStranded(w) PROVE LeaseTracksRunning'
  BY <1>27 DEF SweepStranded, Goto, StrandedCandidates
<1>28. ASSUME NEW w \in Workers, SweepEnd(w) PROVE LeaseTracksRunning'
  BY <1>28 DEF SweepEnd, Goto
<1>29. ASSUME NEW w \in Workers, SweepError(w) PROVE LeaseTracksRunning'
  BY <1>29 DEF SweepError, NextStage
<1>30. ASSUME NEW w \in Workers, Crash(w) PROVE LeaseTracksRunning'
  BY <1>30 DEF Crash
<1>31. CASE UNCHANGED vars
  BY <1>31 DEF vars
<1>32. QED
  BY <1>1, <1>2, <1>3, <1>4, <1>5, <1>6, <1>7, <1>8, <1>9, <1>10, <1>11, <1>12, <1>13, <1>14, <1>15, <1>16, <1>17, <1>18, <1>19, <1>20, <1>21, <1>22, <1>23, <1>24, <1>25, <1>26, <1>27, <1>28, <1>29, <1>30, <1>31 DEF Next, Clients, Clock, SlotStep, Promotion, SweepStep

(* Every step keeps the gate closed: dependents become runnable only when   *)
(* their dependencies have been Done.                                       *)
LEMMA GateStep ==
  TypeOK /\ TaskInv /\ GateInv /\ [Next]_vars => GateInv'
<1> SUFFICES ASSUME TypeOK, TaskInv, GateInv, [Next]_vars PROVE GateInv'
  OBVIOUS
<1> USE JobStoreAssumption, JobQueueAssumption
        DEF TypeOK, StoreTypeOK, TaskInv, storeVars, procVars, Promoters, SlotPcs, JobStatus, Terminal,
            NoRow, Leases, GateInv, Cleared
<1>1. ASSUME NEW j \in Jobs, Submit(j) PROVE GateInv'
  BY <1>1 DEF Submit, Enqueue
<1>2. ASSUME NEW j \in Jobs, LeaseTick(j) PROVE GateInv'
  BY <1>2 DEF LeaseTick, LeaseAges
<1>3. ASSUME NEW j \in Jobs, DeadlineTick(j) PROVE GateInv'
  BY <1>3 DEF DeadlineTick, DeadlinePasses
<1>4. ASSUME NEW j \in Jobs, CancelCheck(j) PROVE GateInv'
  BY <1>4 DEF CancelCheck
<1>5. ASSUME NEW j \in Jobs, CancelCommit(j) PROVE GateInv'
  BY <1>5 DEF CancelCommit, Cancel, Exists, IsTerminal
<1>6. ASSUME NEW j \in Jobs, AckMessage(j) PROVE GateInv'
  BY <1>6 DEF AckMessage, CompleteMessageDelivery
<1>7. ASSUME NEW j \in Jobs, Replay(j) PROVE GateInv'
  BY <1>7 DEF Replay, ReplaySingle
<1>8. ASSUME NEW S \in SUBSET Jobs, Prune(S) PROVE GateInv'
  BY <1>8 DEF Prune, DeleteDlqJobs
<1>9. ASSUME NEW S \in SUBSET Jobs, Purge(S) PROVE GateInv'
  BY <1>9 DEF Purge, PurgeOneBatch, IsTerminal
<1>10. ASSUME NEW s \in Slots, NEW j \in Jobs, Fetch(s, j) PROVE GateInv'
  BY <1>10 DEF Fetch, DequeueByKind, Dequeuable
<1>11. ASSUME NEW s \in Slots, AckOk(s) PROVE GateInv'
  BY <1>11 DEF AckOk, Complete, Leased
<1>12. ASSUME NEW s \in Slots, NEW a \in FailAttempts[SlotKind[s]], AckFail(s, a) PROVE GateInv'
  BY <1>12 DEF AckFail, Fail, Leased, Release
<1>13. ASSUME NEW s \in Slots, AckRefused(s) PROVE GateInv'
  BY <1>13 DEF AckRefused, Release
<1>14. ASSUME NEW s \in Slots, AckLost(s) PROVE GateInv'
  BY <1>14 DEF AckLost, Release
<1>15. ASSUME NEW s \in Slots, HandlerConflict(s) PROVE GateInv'
  <2>1. CASE MarkConflict(slotJob[s])
    BY <1>15, <2>1 DEF HandlerConflict, MarkConflict, Exists
  <2>2. CASE UNCHANGED storeVars
    BY <1>15, <2>2 DEF HandlerConflict
  <2>3. QED
    BY <1>15, <2>1, <2>2 DEF HandlerConflict
<1>16. ASSUME NEW s \in Slots, CascadeBegin(s) PROVE GateInv'
  BY <1>16 DEF CascadeBegin, FindAwaiting
<1>17. ASSUME NEW s \in Slots, CascadeEnd(s) PROVE GateInv'
  BY <1>17 DEF CascadeEnd, Release
<1>18. ASSUME NEW s \in Slots, CascadeError(s) PROVE GateInv'
  BY <1>18 DEF CascadeError, Release
<1>19. ASSUME NEW p \in Promoters, NEW d \in Jobs, CheckDependent(p, d) PROVE GateInv'
  BY <1>19 DEF CheckDependent, AllJobsDone
<1>20. ASSUME NEW p \in Promoters, PromoteDependent(p) PROVE GateInv'
  BY <1>20 DEF PromoteDependent, SetPending
<1>21. ASSUME NEW w \in Workers, SweepRecover(w) PROVE GateInv'
  BY <1>21 DEF SweepRecover, Goto, RecoverStaleLeases, Recoverable
<1>22. ASSUME NEW w \in Workers, SweepDeadlines(w) PROVE GateInv'
  BY <1>22 DEF SweepDeadlines, Goto, CancelExpiredDeadlines, PastDeadline, Exists, IsTerminal
<1>23. ASSUME NEW w \in Workers, SweepRetries(w) PROVE GateInv'
  BY <1>23 DEF SweepRetries, Goto, FailedJobs, Exhausted
<1>24. ASSUME NEW w \in Workers, NEW j \in Jobs, SweepToDlq(w, j) PROVE GateInv'
  BY <1>24 DEF SweepToDlq, FailDlq, Exists
<1>25. ASSUME NEW w \in Workers, NEW j \in Jobs, SweepRetry(w, j) PROVE GateInv'
  BY <1>25 DEF SweepRetry, RetryPending
<1>26. ASSUME NEW w \in Workers, SweepRetriesEnd(w) PROVE GateInv'
  BY <1>26 DEF SweepRetriesEnd, Goto
<1>27. ASSUME NEW w \in Workers, SweepStranded(w) PROVE GateInv'
  BY <1>27 DEF SweepStranded, Goto, StrandedCandidates
<1>28. ASSUME NEW w \in Workers, SweepEnd(w) PROVE GateInv'
  BY <1>28 DEF SweepEnd, Goto
<1>29. ASSUME NEW w \in Workers, SweepError(w) PROVE GateInv'
  BY <1>29 DEF SweepError, NextStage
<1>30. ASSUME NEW w \in Workers, Crash(w) PROVE GateInv'
  BY <1>30 DEF Crash
<1>31. CASE UNCHANGED vars
  BY <1>31 DEF vars
<1>32. QED
  BY <1>1, <1>2, <1>3, <1>4, <1>5, <1>6, <1>7, <1>8, <1>9, <1>10, <1>11, <1>12, <1>13, <1>14, <1>15, <1>16, <1>17, <1>18, <1>19, <1>20, <1>21, <1>22, <1>23, <1>24, <1>25, <1>26, <1>27, <1>28, <1>29, <1>30, <1>31 DEF Next, Clients, Clock, SlotStep, Promotion, SweepStep

(* Every step of a queue with one worker process keeps the sweep's snapshot  *)
(* clear of jobs that have been Done.                                       *)
LEMMA SnapshotStep ==
  OneWorkerProcess /\ TypeOK /\ TaskInv /\ SnapshotInv /\ [Next]_vars => SnapshotInv'
<1> SUFFICES ASSUME OneWorkerProcess, TypeOK, TaskInv, SnapshotInv, [Next]_vars PROVE SnapshotInv'
  OBVIOUS
<1> USE JobStoreAssumption, JobQueueAssumption
        DEF TypeOK, StoreTypeOK, TaskInv, storeVars, procVars, Promoters, SlotPcs, JobStatus, Terminal,
            NoRow, Leases, SnapshotInv, OneWorkerProcess
<1>1. ASSUME NEW j \in Jobs, Submit(j) PROVE SnapshotInv'
  BY <1>1 DEF Submit, Enqueue
<1>2. ASSUME NEW j \in Jobs, LeaseTick(j) PROVE SnapshotInv'
  BY <1>2 DEF LeaseTick, LeaseAges
<1>3. ASSUME NEW j \in Jobs, DeadlineTick(j) PROVE SnapshotInv'
  BY <1>3 DEF DeadlineTick, DeadlinePasses
<1>4. ASSUME NEW j \in Jobs, CancelCheck(j) PROVE SnapshotInv'
  BY <1>4 DEF CancelCheck
<1>5. ASSUME NEW j \in Jobs, CancelCommit(j) PROVE SnapshotInv'
  BY <1>5 DEF CancelCommit, Cancel, Exists, IsTerminal
<1>6. ASSUME NEW j \in Jobs, AckMessage(j) PROVE SnapshotInv'
  BY <1>6 DEF AckMessage, CompleteMessageDelivery
<1>7. ASSUME NEW j \in Jobs, Replay(j) PROVE SnapshotInv'
  BY <1>7 DEF Replay, ReplaySingle
<1>8. ASSUME NEW S \in SUBSET Jobs, Prune(S) PROVE SnapshotInv'
  BY <1>8 DEF Prune, DeleteDlqJobs
<1>9. ASSUME NEW S \in SUBSET Jobs, Purge(S) PROVE SnapshotInv'
  BY <1>9 DEF Purge, PurgeOneBatch, IsTerminal
<1>10. ASSUME NEW s \in Slots, NEW j \in Jobs, Fetch(s, j) PROVE SnapshotInv'
  BY <1>10 DEF Fetch, DequeueByKind, Dequeuable
<1>11. ASSUME NEW s \in Slots, AckOk(s) PROVE SnapshotInv'
  BY <1>11 DEF AckOk, Complete, Leased
<1>12. ASSUME NEW s \in Slots, NEW a \in FailAttempts[SlotKind[s]], AckFail(s, a) PROVE SnapshotInv'
  BY <1>12 DEF AckFail, Fail, Leased, Release
<1>13. ASSUME NEW s \in Slots, AckRefused(s) PROVE SnapshotInv'
  BY <1>13 DEF AckRefused, Release
<1>14. ASSUME NEW s \in Slots, AckLost(s) PROVE SnapshotInv'
  BY <1>14 DEF AckLost, Release
<1>15. ASSUME NEW s \in Slots, HandlerConflict(s) PROVE SnapshotInv'
  <2>1. CASE MarkConflict(slotJob[s])
    BY <1>15, <2>1 DEF HandlerConflict, MarkConflict, Exists
  <2>2. CASE UNCHANGED storeVars
    BY <1>15, <2>2 DEF HandlerConflict
  <2>3. QED
    BY <1>15, <2>1, <2>2 DEF HandlerConflict
<1>16. ASSUME NEW s \in Slots, CascadeBegin(s) PROVE SnapshotInv'
  BY <1>16 DEF CascadeBegin, FindAwaiting
<1>17. ASSUME NEW s \in Slots, CascadeEnd(s) PROVE SnapshotInv'
  BY <1>17 DEF CascadeEnd, Release
<1>18. ASSUME NEW s \in Slots, CascadeError(s) PROVE SnapshotInv'
  BY <1>18 DEF CascadeError, Release
<1>19. ASSUME NEW p \in Promoters, NEW d \in Jobs, CheckDependent(p, d) PROVE SnapshotInv'
  BY <1>19 DEF CheckDependent, AllJobsDone
<1>20. ASSUME NEW p \in Promoters, PromoteDependent(p) PROVE SnapshotInv'
  BY <1>20 DEF PromoteDependent, SetPending
<1>21. ASSUME NEW w \in Workers, SweepRecover(w) PROVE SnapshotInv'
  BY <1>21 DEF SweepRecover, Goto, RecoverStaleLeases, Recoverable
<1>22. ASSUME NEW w \in Workers, SweepDeadlines(w) PROVE SnapshotInv'
  BY <1>22 DEF SweepDeadlines, Goto, CancelExpiredDeadlines, PastDeadline, Exists, IsTerminal
<1>23. ASSUME NEW w \in Workers, SweepRetries(w) PROVE SnapshotInv'
  BY <1>23 DEF SweepRetries, Goto, FailedJobs, Exhausted
<1>24. ASSUME NEW w \in Workers, NEW j \in Jobs, SweepToDlq(w, j) PROVE SnapshotInv'
  BY <1>24 DEF SweepToDlq, FailDlq, Exists
<1>25. ASSUME NEW w \in Workers, NEW j \in Jobs, SweepRetry(w, j) PROVE SnapshotInv'
  BY <1>25 DEF SweepRetry, RetryPending
<1>26. ASSUME NEW w \in Workers, SweepRetriesEnd(w) PROVE SnapshotInv'
  BY <1>26 DEF SweepRetriesEnd, Goto
<1>27. ASSUME NEW w \in Workers, SweepStranded(w) PROVE SnapshotInv'
  BY <1>27 DEF SweepStranded, Goto, StrandedCandidates
<1>28. ASSUME NEW w \in Workers, SweepEnd(w) PROVE SnapshotInv'
  BY <1>28 DEF SweepEnd, Goto
<1>29. ASSUME NEW w \in Workers, SweepError(w) PROVE SnapshotInv'
  BY <1>29 DEF SweepError, NextStage
<1>30. ASSUME NEW w \in Workers, Crash(w) PROVE SnapshotInv'
  BY <1>30 DEF Crash
<1>31. CASE UNCHANGED vars
  BY <1>31 DEF vars
<1>32. QED
  BY <1>1, <1>2, <1>3, <1>4, <1>5, <1>6, <1>7, <1>8, <1>9, <1>10, <1>11, <1>12, <1>13, <1>14, <1>15, <1>16, <1>17, <1>18, <1>19, <1>20, <1>21, <1>22, <1>23, <1>24, <1>25, <1>26, <1>27, <1>28, <1>29, <1>30, <1>31 DEF Next, Clients, Clock, SlotStep, Promotion, SweepStep

(* Every step keeps messages out of the hands of workers and sweeps.         *)
LEMMA ExecutedStep ==
  TypeOK /\ TaskInv /\ ExecutedInv /\ [Next]_vars => ExecutedInv'
<1> SUFFICES ASSUME TypeOK, TaskInv, ExecutedInv, [Next]_vars PROVE ExecutedInv'
  OBVIOUS
<1> USE JobStoreAssumption, JobQueueAssumption
        DEF TypeOK, StoreTypeOK, TaskInv, storeVars, procVars, Promoters, SlotPcs, JobStatus, Terminal,
            NoRow, Leases, ExecutedInv
<1>1. ASSUME NEW j \in Jobs, Submit(j) PROVE ExecutedInv'
  BY <1>1 DEF Submit, Enqueue
<1>2. ASSUME NEW j \in Jobs, LeaseTick(j) PROVE ExecutedInv'
  BY <1>2 DEF LeaseTick, LeaseAges
<1>3. ASSUME NEW j \in Jobs, DeadlineTick(j) PROVE ExecutedInv'
  BY <1>3 DEF DeadlineTick, DeadlinePasses
<1>4. ASSUME NEW j \in Jobs, CancelCheck(j) PROVE ExecutedInv'
  BY <1>4 DEF CancelCheck
<1>5. ASSUME NEW j \in Jobs, CancelCommit(j) PROVE ExecutedInv'
  BY <1>5 DEF CancelCommit, Cancel, Exists, IsTerminal
<1>6. ASSUME NEW j \in Jobs, AckMessage(j) PROVE ExecutedInv'
  BY <1>6 DEF AckMessage, CompleteMessageDelivery
<1>7. ASSUME NEW j \in Jobs, Replay(j) PROVE ExecutedInv'
  BY <1>7 DEF Replay, ReplaySingle
<1>8. ASSUME NEW S \in SUBSET Jobs, Prune(S) PROVE ExecutedInv'
  BY <1>8 DEF Prune, DeleteDlqJobs
<1>9. ASSUME NEW S \in SUBSET Jobs, Purge(S) PROVE ExecutedInv'
  BY <1>9 DEF Purge, PurgeOneBatch, IsTerminal
<1>10. ASSUME NEW s \in Slots, NEW j \in Jobs, Fetch(s, j) PROVE ExecutedInv'
  BY <1>10 DEF Fetch, DequeueByKind, Dequeuable
<1>11. ASSUME NEW s \in Slots, AckOk(s) PROVE ExecutedInv'
  BY <1>11 DEF AckOk, Complete, Leased
<1>12. ASSUME NEW s \in Slots, NEW a \in FailAttempts[SlotKind[s]], AckFail(s, a) PROVE ExecutedInv'
  BY <1>12 DEF AckFail, Fail, Leased, Release
<1>13. ASSUME NEW s \in Slots, AckRefused(s) PROVE ExecutedInv'
  BY <1>13 DEF AckRefused, Release
<1>14. ASSUME NEW s \in Slots, AckLost(s) PROVE ExecutedInv'
  BY <1>14 DEF AckLost, Release
<1>15. ASSUME NEW s \in Slots, HandlerConflict(s) PROVE ExecutedInv'
  <2>1. CASE MarkConflict(slotJob[s])
    BY <1>15, <2>1 DEF HandlerConflict, MarkConflict, Exists
  <2>2. CASE UNCHANGED storeVars
    BY <1>15, <2>2 DEF HandlerConflict
  <2>3. QED
    BY <1>15, <2>1, <2>2 DEF HandlerConflict
<1>16. ASSUME NEW s \in Slots, CascadeBegin(s) PROVE ExecutedInv'
  BY <1>16 DEF CascadeBegin, FindAwaiting
<1>17. ASSUME NEW s \in Slots, CascadeEnd(s) PROVE ExecutedInv'
  BY <1>17 DEF CascadeEnd, Release
<1>18. ASSUME NEW s \in Slots, CascadeError(s) PROVE ExecutedInv'
  BY <1>18 DEF CascadeError, Release
<1>19. ASSUME NEW p \in Promoters, NEW d \in Jobs, CheckDependent(p, d) PROVE ExecutedInv'
  BY <1>19 DEF CheckDependent, AllJobsDone
<1>20. ASSUME NEW p \in Promoters, PromoteDependent(p) PROVE ExecutedInv'
  BY <1>20 DEF PromoteDependent, SetPending
<1>21. ASSUME NEW w \in Workers, SweepRecover(w) PROVE ExecutedInv'
  BY <1>21 DEF SweepRecover, Goto, RecoverStaleLeases, Recoverable
<1>22. ASSUME NEW w \in Workers, SweepDeadlines(w) PROVE ExecutedInv'
  BY <1>22 DEF SweepDeadlines, Goto, CancelExpiredDeadlines, PastDeadline, Exists, IsTerminal
<1>23. ASSUME NEW w \in Workers, SweepRetries(w) PROVE ExecutedInv'
  BY <1>23 DEF SweepRetries, Goto, FailedJobs, Exhausted
<1>24. ASSUME NEW w \in Workers, NEW j \in Jobs, SweepToDlq(w, j) PROVE ExecutedInv'
  BY <1>24 DEF SweepToDlq, FailDlq, Exists
<1>25. ASSUME NEW w \in Workers, NEW j \in Jobs, SweepRetry(w, j) PROVE ExecutedInv'
  BY <1>25 DEF SweepRetry, RetryPending
<1>26. ASSUME NEW w \in Workers, SweepRetriesEnd(w) PROVE ExecutedInv'
  BY <1>26 DEF SweepRetriesEnd, Goto
<1>27. ASSUME NEW w \in Workers, SweepStranded(w) PROVE ExecutedInv'
  BY <1>27 DEF SweepStranded, Goto, StrandedCandidates
<1>28. ASSUME NEW w \in Workers, SweepEnd(w) PROVE ExecutedInv'
  BY <1>28 DEF SweepEnd, Goto
<1>29. ASSUME NEW w \in Workers, SweepError(w) PROVE ExecutedInv'
  BY <1>29 DEF SweepError, NextStage
<1>30. ASSUME NEW w \in Workers, Crash(w) PROVE ExecutedInv'
  BY <1>30 DEF Crash
<1>31. CASE UNCHANGED vars
  BY <1>31 DEF vars
<1>32. QED
  BY <1>1, <1>2, <1>3, <1>4, <1>5, <1>6, <1>7, <1>8, <1>9, <1>10, <1>11, <1>12, <1>13, <1>14, <1>15, <1>16, <1>17, <1>18, <1>19, <1>20, <1>21, <1>22, <1>23, <1>24, <1>25, <1>26, <1>27, <1>28, <1>29, <1>30, <1>31 DEF Next, Clients, Clock, SlotStep, Promotion, SweepStep

(* Every step is a step of the life cycle, or leaves status and everDone.    *)
LEMMA RefineStep ==
  OneWorkerProcess /\ TypeOK /\ TaskInv /\ GateInv /\ GateInv' /\ SnapshotInv
    /\ ExecutedInv /\ [Next]_vars
    => [Lifecycle!Step]_<<status, everDone>>
<1> SUFFICES ASSUME OneWorkerProcess, TypeOK, TaskInv, GateInv, GateInv', SnapshotInv,
                    ExecutedInv, [Next]_vars
             PROVE [Lifecycle!Step]_<<status, everDone>>
  OBVIOUS
<1> USE JobStoreAssumption, JobQueueAssumption
        DEF TypeOK, StoreTypeOK, TaskInv, storeVars, procVars, Promoters, SlotPcs, JobStatus, Terminal,
            NoRow, Leases, GateInv, Cleared, SnapshotInv, ExecutedInv,
            OneWorkerProcess, Lifecycle!Step, Lifecycle!Move, Lifecycle!Enqueued,
            Lifecycle!Withdrawn, Lifecycle!Executed, Lifecycle!Late, Lifecycle!Stale,
            Lifecycle!Replayed, Lifecycle!Delivered
<1>1. ASSUME NEW j \in Jobs, Submit(j) PROVE [Lifecycle!Step]_<<status, everDone>>
  BY <1>1 DEF Submit, Enqueue
<1>2. ASSUME NEW j \in Jobs, LeaseTick(j) PROVE [Lifecycle!Step]_<<status, everDone>>
  BY <1>2 DEF LeaseTick, LeaseAges
<1>3. ASSUME NEW j \in Jobs, DeadlineTick(j) PROVE [Lifecycle!Step]_<<status, everDone>>
  BY <1>3 DEF DeadlineTick, DeadlinePasses
<1>4. ASSUME NEW j \in Jobs, CancelCheck(j) PROVE [Lifecycle!Step]_<<status, everDone>>
  BY <1>4 DEF CancelCheck
<1>5. ASSUME NEW j \in Jobs, CancelCommit(j) PROVE [Lifecycle!Step]_<<status, everDone>>
  BY <1>5 DEF CancelCommit, Cancel, Exists, IsTerminal
<1>6. ASSUME NEW j \in Jobs, AckMessage(j) PROVE [Lifecycle!Step]_<<status, everDone>>
  BY <1>6 DEF AckMessage, CompleteMessageDelivery
<1>7. ASSUME NEW j \in Jobs, Replay(j) PROVE [Lifecycle!Step]_<<status, everDone>>
  BY <1>7 DEF Replay, ReplaySingle
<1>8. ASSUME NEW S \in SUBSET Jobs, Prune(S) PROVE [Lifecycle!Step]_<<status, everDone>>
  BY <1>8 DEF Prune, DeleteDlqJobs
<1>9. ASSUME NEW S \in SUBSET Jobs, Purge(S) PROVE [Lifecycle!Step]_<<status, everDone>>
  BY <1>9 DEF Purge, PurgeOneBatch, IsTerminal
<1>10. ASSUME NEW s \in Slots, NEW j \in Jobs, Fetch(s, j) PROVE [Lifecycle!Step]_<<status, everDone>>
  BY <1>10 DEF Fetch, DequeueByKind, Dequeuable
<1>11. ASSUME NEW s \in Slots, AckOk(s) PROVE [Lifecycle!Step]_<<status, everDone>>
  BY <1>11 DEF AckOk, Complete, Leased
<1>12. ASSUME NEW s \in Slots, NEW a \in FailAttempts[SlotKind[s]], AckFail(s, a) PROVE [Lifecycle!Step]_<<status, everDone>>
  BY <1>12 DEF AckFail, Fail, Leased, Release
<1>13. ASSUME NEW s \in Slots, AckRefused(s) PROVE [Lifecycle!Step]_<<status, everDone>>
  BY <1>13 DEF AckRefused, Release
<1>14. ASSUME NEW s \in Slots, AckLost(s) PROVE [Lifecycle!Step]_<<status, everDone>>
  BY <1>14 DEF AckLost, Release
<1>15. ASSUME NEW s \in Slots, HandlerConflict(s) PROVE [Lifecycle!Step]_<<status, everDone>>
  <2>1. CASE MarkConflict(slotJob[s])
    BY <1>15, <2>1 DEF HandlerConflict, MarkConflict, Exists
  <2>2. CASE UNCHANGED storeVars
    BY <1>15, <2>2 DEF HandlerConflict
  <2>3. QED
    BY <1>15, <2>1, <2>2 DEF HandlerConflict
<1>16. ASSUME NEW s \in Slots, CascadeBegin(s) PROVE [Lifecycle!Step]_<<status, everDone>>
  BY <1>16 DEF CascadeBegin, FindAwaiting
<1>17. ASSUME NEW s \in Slots, CascadeEnd(s) PROVE [Lifecycle!Step]_<<status, everDone>>
  BY <1>17 DEF CascadeEnd, Release
<1>18. ASSUME NEW s \in Slots, CascadeError(s) PROVE [Lifecycle!Step]_<<status, everDone>>
  BY <1>18 DEF CascadeError, Release
<1>19. ASSUME NEW p \in Promoters, NEW d \in Jobs, CheckDependent(p, d) PROVE [Lifecycle!Step]_<<status, everDone>>
  BY <1>19 DEF CheckDependent, AllJobsDone
<1>20. ASSUME NEW p \in Promoters, PromoteDependent(p) PROVE [Lifecycle!Step]_<<status, everDone>>
  BY <1>20 DEF PromoteDependent, SetPending
<1>21. ASSUME NEW w \in Workers, SweepRecover(w) PROVE [Lifecycle!Step]_<<status, everDone>>
  BY <1>21 DEF SweepRecover, Goto, RecoverStaleLeases, Recoverable
<1>22. ASSUME NEW w \in Workers, SweepDeadlines(w) PROVE [Lifecycle!Step]_<<status, everDone>>
  BY <1>22 DEF SweepDeadlines, Goto, CancelExpiredDeadlines, PastDeadline, Exists, IsTerminal
<1>23. ASSUME NEW w \in Workers, SweepRetries(w) PROVE [Lifecycle!Step]_<<status, everDone>>
  BY <1>23 DEF SweepRetries, Goto, FailedJobs, Exhausted
<1>24. ASSUME NEW w \in Workers, NEW j \in Jobs, SweepToDlq(w, j) PROVE [Lifecycle!Step]_<<status, everDone>>
  BY <1>24 DEF SweepToDlq, FailDlq, Exists
<1>25. ASSUME NEW w \in Workers, NEW j \in Jobs, SweepRetry(w, j) PROVE [Lifecycle!Step]_<<status, everDone>>
  <2>1. CASE status[j] = "Failed"
    <3>1. Kind[j] # MessageKind
      BY <2>1
    <3>2. \A i \in Jobs : status'[i] = status[i] \/ Lifecycle!Move(i)
      BY <1>25, <2>1, <3>1 DEF SweepRetry, RetryPending
    <3>3. everDone' = everDone \cup {i \in Jobs : status'[i] = "Done"}
      BY <1>25, <2>1 DEF SweepRetry, RetryPending
    <3>4. QED
      BY <1>25, <3>2, <3>3 DEF SweepRetry, RetryPending
  <2>2. CASE status[j] # "Failed"
    BY <1>25, <2>2 DEF SweepRetry, RetryPending
  <2>3. QED
    BY <2>1, <2>2
<1>26. ASSUME NEW w \in Workers, SweepRetriesEnd(w) PROVE [Lifecycle!Step]_<<status, everDone>>
  BY <1>26 DEF SweepRetriesEnd, Goto
<1>27. ASSUME NEW w \in Workers, SweepStranded(w) PROVE [Lifecycle!Step]_<<status, everDone>>
  BY <1>27 DEF SweepStranded, Goto, StrandedCandidates
<1>28. ASSUME NEW w \in Workers, SweepEnd(w) PROVE [Lifecycle!Step]_<<status, everDone>>
  BY <1>28 DEF SweepEnd, Goto
<1>29. ASSUME NEW w \in Workers, SweepError(w) PROVE [Lifecycle!Step]_<<status, everDone>>
  BY <1>29 DEF SweepError, NextStage
<1>30. ASSUME NEW w \in Workers, Crash(w) PROVE [Lifecycle!Step]_<<status, everDone>>
  BY <1>30 DEF Crash
<1>31. CASE UNCHANGED vars
  BY <1>31 DEF vars
<1>32. QED
  BY <1>1, <1>2, <1>3, <1>4, <1>5, <1>6, <1>7, <1>8, <1>9, <1>10, <1>11, <1>12, <1>13, <1>14, <1>15, <1>16, <1>17, <1>18, <1>19, <1>20, <1>21, <1>22, <1>23, <1>24, <1>25, <1>26, <1>27, <1>28, <1>29, <1>30, <1>31 DEF Next, Clients, Clock, SlotStep, Promotion, SweepStep

(* No step makes a Done, Cancelled or Conflict row runnable.                *)
LEMMA RevivalStep ==
  TypeOK /\ TaskInv /\ [Next]_vars
    => \A j \in Jobs : status[j] \in {"Done", "Cancelled", "Conflict"} => status'[j] \in Terminal
<1> DEFINE Kept == \A j \in Jobs :
                 status[j] \in {"Done", "Cancelled", "Conflict"} => status'[j] \in Terminal
<1> SUFFICES ASSUME TypeOK, TaskInv, [Next]_vars PROVE Kept
  OBVIOUS
<1> USE JobStoreAssumption, JobQueueAssumption
        DEF TypeOK, StoreTypeOK, TaskInv, storeVars, procVars, Promoters, SlotPcs, JobStatus, Terminal,
            NoRow, Leases
<1>1. ASSUME NEW j \in Jobs, Submit(j) PROVE Kept
  BY <1>1 DEF Submit, Enqueue
<1>2. ASSUME NEW j \in Jobs, LeaseTick(j) PROVE Kept
  BY <1>2 DEF LeaseTick, LeaseAges
<1>3. ASSUME NEW j \in Jobs, DeadlineTick(j) PROVE Kept
  BY <1>3 DEF DeadlineTick, DeadlinePasses
<1>4. ASSUME NEW j \in Jobs, CancelCheck(j) PROVE Kept
  BY <1>4 DEF CancelCheck
<1>5. ASSUME NEW j \in Jobs, CancelCommit(j) PROVE Kept
  BY <1>5 DEF CancelCommit, Cancel, Exists, IsTerminal
<1>6. ASSUME NEW j \in Jobs, AckMessage(j) PROVE Kept
  BY <1>6 DEF AckMessage, CompleteMessageDelivery
<1>7. ASSUME NEW j \in Jobs, Replay(j) PROVE Kept
  BY <1>7 DEF Replay, ReplaySingle
<1>8. ASSUME NEW S \in SUBSET Jobs, Prune(S) PROVE Kept
  BY <1>8 DEF Prune, DeleteDlqJobs
<1>9. ASSUME NEW S \in SUBSET Jobs, Purge(S) PROVE Kept
  BY <1>9 DEF Purge, PurgeOneBatch, IsTerminal
<1>10. ASSUME NEW s \in Slots, NEW j \in Jobs, Fetch(s, j) PROVE Kept
  BY <1>10 DEF Fetch, DequeueByKind, Dequeuable
<1>11. ASSUME NEW s \in Slots, AckOk(s) PROVE Kept
  BY <1>11 DEF AckOk, Complete, Leased
<1>12. ASSUME NEW s \in Slots, NEW a \in FailAttempts[SlotKind[s]], AckFail(s, a) PROVE Kept
  BY <1>12 DEF AckFail, Fail, Leased, Release
<1>13. ASSUME NEW s \in Slots, AckRefused(s) PROVE Kept
  BY <1>13 DEF AckRefused, Release
<1>14. ASSUME NEW s \in Slots, AckLost(s) PROVE Kept
  BY <1>14 DEF AckLost, Release
<1>15. ASSUME NEW s \in Slots, HandlerConflict(s) PROVE Kept
  <2>1. CASE MarkConflict(slotJob[s])
    BY <1>15, <2>1 DEF HandlerConflict, MarkConflict, Exists
  <2>2. CASE UNCHANGED storeVars
    BY <1>15, <2>2 DEF HandlerConflict
  <2>3. QED
    BY <1>15, <2>1, <2>2 DEF HandlerConflict
<1>16. ASSUME NEW s \in Slots, CascadeBegin(s) PROVE Kept
  BY <1>16 DEF CascadeBegin, FindAwaiting
<1>17. ASSUME NEW s \in Slots, CascadeEnd(s) PROVE Kept
  BY <1>17 DEF CascadeEnd, Release
<1>18. ASSUME NEW s \in Slots, CascadeError(s) PROVE Kept
  BY <1>18 DEF CascadeError, Release
<1>19. ASSUME NEW p \in Promoters, NEW d \in Jobs, CheckDependent(p, d) PROVE Kept
  BY <1>19 DEF CheckDependent, AllJobsDone
<1>20. ASSUME NEW p \in Promoters, PromoteDependent(p) PROVE Kept
  BY <1>20 DEF PromoteDependent, SetPending
<1>21. ASSUME NEW w \in Workers, SweepRecover(w) PROVE Kept
  BY <1>21 DEF SweepRecover, Goto, RecoverStaleLeases, Recoverable
<1>22. ASSUME NEW w \in Workers, SweepDeadlines(w) PROVE Kept
  BY <1>22 DEF SweepDeadlines, Goto, CancelExpiredDeadlines, PastDeadline, Exists, IsTerminal
<1>23. ASSUME NEW w \in Workers, SweepRetries(w) PROVE Kept
  BY <1>23 DEF SweepRetries, Goto, FailedJobs, Exhausted
<1>24. ASSUME NEW w \in Workers, NEW j \in Jobs, SweepToDlq(w, j) PROVE Kept
  BY <1>24 DEF SweepToDlq, FailDlq, Exists
<1>25. ASSUME NEW w \in Workers, NEW j \in Jobs, SweepRetry(w, j) PROVE Kept
  BY <1>25 DEF SweepRetry, RetryPending
<1>26. ASSUME NEW w \in Workers, SweepRetriesEnd(w) PROVE Kept
  BY <1>26 DEF SweepRetriesEnd, Goto
<1>27. ASSUME NEW w \in Workers, SweepStranded(w) PROVE Kept
  BY <1>27 DEF SweepStranded, Goto, StrandedCandidates
<1>28. ASSUME NEW w \in Workers, SweepEnd(w) PROVE Kept
  BY <1>28 DEF SweepEnd, Goto
<1>29. ASSUME NEW w \in Workers, SweepError(w) PROVE Kept
  BY <1>29 DEF SweepError, NextStage
<1>30. ASSUME NEW w \in Workers, Crash(w) PROVE Kept
  BY <1>30 DEF Crash
<1>31. CASE UNCHANGED vars
  BY <1>31 DEF vars
<1>32. QED
  BY <1>1, <1>2, <1>3, <1>4, <1>5, <1>6, <1>7, <1>8, <1>9, <1>10, <1>11, <1>12, <1>13, <1>14, <1>15, <1>16, <1>17, <1>18, <1>19, <1>20, <1>21, <1>22, <1>23, <1>24, <1>25, <1>26, <1>27, <1>28, <1>29, <1>30, <1>31 DEF Next, Clients, Clock, SlotStep, Promotion, SweepStep

(* Type correctness: the shapes hold in every reachable state.              *)
THEOREM TypeCorrect == Spec => []TypeOK
<1>1. Init => TypeOK /\ TaskInv
  BY JobStoreAssumption, JobQueueAssumption
  DEF Init, StoreInit, TypeOK, StoreTypeOK, TaskInv, SlotPcs, SweepPcs, Leases, Deadlines,
      MaxCount, NoRow
<1>2. QED
  BY <1>1, TypeStep, PTL DEF Spec

(* The lease column follows the Running status, whatever the interleaving   *)
(* of workers, sweeps, deadlines, cancellations and replays.                *)
THEOREM LeaseCorrect == Spec => []LeaseTracksRunning
<1>1. Init => TypeOK /\ TaskInv /\ LeaseTracksRunning
  BY JobStoreAssumption, JobQueueAssumption
  DEF Init, StoreInit, TypeOK, StoreTypeOK, TaskInv, SlotPcs, SweepPcs, Leases, Deadlines,
      MaxCount, NoRow, LeaseTracksRunning
<1>2. QED
  BY <1>1, TypeStep, LeaseStep, PTL DEF Spec

(* No stale snapshot of a cascade, of a sweep or of a cancel call revives a  *)
(* finished job, for any number of worker processes.                        *)
THEOREM NoRevivalCorrect == Spec => NoRevival
<1>1. Init => TypeOK /\ TaskInv
  BY JobStoreAssumption, JobQueueAssumption
  DEF Init, StoreInit, TypeOK, StoreTypeOK, TaskInv, SlotPcs, SweepPcs, Leases, Deadlines,
      MaxCount, NoRow
<1>2. QED
  BY <1>1, TypeStep, RevivalStep, PTL DEF Spec, NoRevival

(* No job runs before the jobs it awaits have been Done, although cascade    *)
(* and sweep check and promote in separate transactions.                    *)
THEOREM AwaitGateCorrect == Spec => []AwaitGate
<1>1. Init => TypeOK /\ TaskInv /\ GateInv
  BY JobStoreAssumption, JobQueueAssumption
  DEF Init, StoreInit, TypeOK, StoreTypeOK, TaskInv, SlotPcs, SweepPcs, Leases, Deadlines,
      MaxCount, NoRow, GateInv, Promoters
<1>2. GateInv => AwaitGate
  BY DEF GateInv, AwaitGate, Cleared
<1>3. QED
  BY <1>1, <1>2, TypeStep, GateStep, PTL DEF Spec

(* With one worker process, a job recorded as Done is never queued again.   *)
THEOREM DoneIsNotRerunCorrect == OneWorkerProcess => (Spec => []DoneIsNotRerun)
<1> SUFFICES ASSUME OneWorkerProcess PROVE Spec => []DoneIsNotRerun
  OBVIOUS
<1>1. Init => TypeOK /\ TaskInv /\ SnapshotInv
  BY JobStoreAssumption, JobQueueAssumption
  DEF Init, StoreInit, TypeOK, StoreTypeOK, TaskInv, SlotPcs, SweepPcs, Leases, Deadlines,
      MaxCount, NoRow, SnapshotInv
<1>2. SnapshotInv => DoneIsNotRerun
  BY DEF SnapshotInv, DoneIsNotRerun
<1>3. TypeOK /\ TaskInv /\ SnapshotInv /\ [Next]_vars => SnapshotInv'
  BY SnapshotStep
<1>4. QED
  BY <1>1, <1>2, <1>3, TypeStep, PTL DEF Spec

(* With one worker process, every change of a status is a transition of     *)
(* module JobLifecycle.                                                     *)
THEOREM LifecycleImplemented == OneWorkerProcess => (Spec => LifecycleSpec)
<1> SUFFICES ASSUME OneWorkerProcess PROVE Spec => LifecycleSpec
  OBVIOUS
<1>1. Init => TypeOK /\ TaskInv /\ GateInv /\ SnapshotInv /\ ExecutedInv
  BY JobStoreAssumption, JobQueueAssumption
  DEF Init, StoreInit, TypeOK, StoreTypeOK, TaskInv, SlotPcs, SweepPcs, Leases, Deadlines,
      MaxCount, NoRow, GateInv, SnapshotInv, ExecutedInv, Promoters
<1>2. Init => Lifecycle!Init
  BY DEF Init, StoreInit, Lifecycle!Init
<1>3. TypeOK /\ TaskInv /\ SnapshotInv /\ [Next]_vars => SnapshotInv'
  BY SnapshotStep
<1>4. TypeOK /\ TaskInv /\ GateInv /\ GateInv' /\ SnapshotInv /\ ExecutedInv /\ [Next]_vars
        => [Lifecycle!Step]_<<status, everDone>>
  BY RefineStep
<1>5. QED
  BY <1>1, <1>2, <1>3, <1>4, TypeStep, GateStep, ExecutedStep, PTL
  DEF Spec, LifecycleSpec, Lifecycle!Spec
====

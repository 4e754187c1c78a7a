------------------------------ MODULE JobQueue ------------------------------
(***************************************************************************)
(* The job queue at work: the table of module JobStore under                *)
(*   - worker slots, which lease a job, run its handler and acknowledge it  *)
(*     (gradatum-worker: apalis_backend.rs, apalis_handlers.rs);            *)
(*   - one sweeper per worker process (schedules.rs, run_sweep_once);       *)
(*   - API calls that cancel a job (gradatum-server: jobs_v2.rs);           *)
(*   - the operator's CLI (gradatum-admin: jobs_cmd.rs, queue_cmd.rs);      *)
(*   - crashes of a worker process and storage errors.                      *)
(* Several of the code's operations are sequences of transactions whose     *)
(* later steps act on what an earlier step read.  Those snapshots are state *)
(* here (todo, ready, exhausted, retryable, cancelling), so that everything *)
(* else can happen in between.                                              *)
(***************************************************************************)
EXTENDS JobStore

CONSTANTS
  Workers,        \* worker processes; the leadership lease means one
  Slots,          \* concurrent task slots of the Apalis workers
  SlotWorker,     \* [Slots -> Workers], the process a slot lives in
  SlotKind,       \* [Slots -> Kinds], the kind a slot's backend polls
  FailAttempts,   \* [Kinds -> SUBSET Nat]: attempt numbers Apalis may report
                  \* to the acknowledger for a failed task of that kind
  ConflictKinds,  \* kinds whose handler may call mark_conflict (Curate)
  NoJob,          \* "no job"
  MaxFaults,      \* bound on crashes and storage errors together
  MaxReplays      \* bound on operator replays of the DLQ

ASSUME JobQueueAssumption ==
  /\ SlotWorker \in [Slots -> Workers]
  /\ SlotKind \in [Slots -> Kinds]
  /\ FailAttempts \in [Kinds -> SUBSET Nat]
  /\ ConflictKinds \subseteq Kinds
  /\ NoJob \notin Jobs
  /\ Slots \cap Workers = {}
  /\ MaxFaults \in Nat
  /\ MaxReplays \in Nat

VARIABLES
  slotPc,      \* [Slots -> SlotPcs]
  slotJob,     \* [Slots -> Jobs \cup {NoJob}], the task a slot holds
  sweepPc,     \* [Workers -> SweepPcs]
  exhausted,   \* [Workers -> SUBSET Jobs]: rows of promote_retries' snapshot
               \* whose attempt_count had reached retry.max
  retryable,   \* [Workers -> SUBSET Jobs]: its other rows
  todo,        \* [Slots \cup Workers -> SUBSET Jobs]: dependents a cascade or
               \* a stranded-jobs stage has selected and not yet examined
  ready,       \* [Slots \cup Workers -> Jobs \cup {NoJob}]: the dependent
               \* that passed all_jobs_done and awaits its set_pending
  cancelling,  \* jobs for which a cancel_job call has passed its status check
  everDone,    \* history: jobs that have been Done
  faults,      \* crashes and storage errors so far
  replays      \* DLQ replays so far

procVars == <<slotPc, slotJob, sweepPc, exhausted, retryable, todo, ready>>
vars == <<storeVars, procVars, cancelling, everDone, faults, replays>>

Promoters == Slots \cup Workers

SlotPcs == {"idle",        \* no task
            "exec",        \* the handler runs
            "blank",       \* the handler was given a purged payload
            "conflicted",  \* the handler met a write conflict and returns Ok
            "completed",   \* complete() committed, its cascade has not begun
            "cascade"}     \* cascade_check_and_promote examines dependents
SweepPcs == {"recover", "deadlines", "retries", "retryLoop", "stranded", "promote"}

TypeOK ==
  /\ StoreTypeOK
  /\ slotPc \in [Slots -> SlotPcs]
  /\ slotJob \in [Slots -> Jobs \cup {NoJob}]
  /\ sweepPc \in [Workers -> SweepPcs]
  /\ exhausted \in [Workers -> SUBSET Jobs]
  /\ retryable \in [Workers -> SUBSET Jobs]
  /\ todo \in [Promoters -> SUBSET Jobs]
  /\ ready \in [Promoters -> Jobs \cup {NoJob}]
  /\ cancelling \subseteq Jobs
  /\ everDone \subseteq Jobs
  /\ faults \in 0..MaxFaults
  /\ replays \in 0..MaxReplays

Init ==
  /\ StoreInit
  /\ slotPc = [s \in Slots |-> "idle"]
  /\ slotJob = [s \in Slots |-> NoJob]
  /\ sweepPc = [w \in Workers |-> "recover"]
  /\ exhausted = [w \in Workers |-> {}]
  /\ retryable = [w \in Workers |-> {}]
  /\ todo = [p \in Promoters |-> {}]
  /\ ready = [p \in Promoters |-> NoJob]
  /\ cancelling = {}
  /\ everDone = {}
  /\ faults = 0
  /\ replays = 0

-----------------------------------------------------------------------------
(* Producers and time *)

Submit(j) ==
  /\ Enqueue(j)
  /\ UNCHANGED <<procVars, cancelling, everDone, faults, replays>>

LeaseTick(j) ==
  /\ LeaseAges(j)
  /\ UNCHANGED <<procVars, cancelling, everDone, faults, replays>>

DeadlineTick(j) ==
  /\ DeadlinePasses(j)
  /\ UNCHANGED <<procVars, cancelling, everDone, faults, replays>>

-----------------------------------------------------------------------------
(* Worker slots *)

(* The fetcher polls the store; record_to_task builds a task with a fresh  *)
(* attempt counter.  A tombstone reaches the handler as an unexpected      *)
(* variant.                                                                *)
Fetch(s, j) ==
  /\ slotPc[s] = "idle"
  /\ DequeueByKind(SlotKind[s], j)
  /\ slotPc' = [slotPc EXCEPT ![s] = IF purged[j] THEN "blank" ELSE "exec"]
  /\ slotJob' = [slotJob EXCEPT ![s] = j]
  /\ UNCHANGED <<sweepPc, exhausted, retryable, todo, ready, cancelling, everDone,
                 faults, replays>>

(* The slot forgets its task and polls again.                              *)
Release(s) ==
  /\ slotPc' = [slotPc EXCEPT ![s] = "idle"]
  /\ slotJob' = [slotJob EXCEPT ![s] = NoJob]

(* The handler returned Ok: ack calls complete().                          *)
AckOk(s) ==
  /\ slotPc[s] \in {"exec", "conflicted"}
  /\ Complete(slotJob[s])
  /\ slotPc' = [slotPc EXCEPT ![s] = "completed"]
  /\ everDone' = everDone \cup {slotJob[s]}
  /\ UNCHANGED <<slotJob, sweepPc, exhausted, retryable, todo, ready, cancelling,
                 faults, replays>>

(* The handler returned an error (or timed out): ack calls fail() with the *)
(* task's attempt number.                                                  *)
AckFail(s, attempt) ==
  /\ slotPc[s] \in {"exec", "blank"}
  /\ attempt \in FailAttempts[SlotKind[s]]
  /\ Fail(slotJob[s], attempt)
  /\ Release(s)
  /\ UNCHANGED <<sweepPc, exhausted, retryable, todo, ready, cancelling, everDone,
                 faults, replays>>

(* complete() or fail() answered NotFound or NotLeased: the error is       *)
(* logged and the task is dropped.                                         *)
AckRefused(s) ==
  /\ slotPc[s] \in {"exec", "blank", "conflicted"}
  /\ ~Leased(slotJob[s])
  /\ Release(s)
  /\ UNCHANGED <<storeVars, sweepPc, exhausted, retryable, todo, ready, cancelling,
                 everDone, faults, replays>>

(* The same after a storage error: the row stays Running.                  *)
AckLost(s) ==
  /\ slotPc[s] \in {"exec", "blank", "conflicted"}
  /\ faults < MaxFaults
  /\ faults' = faults + 1
  /\ Release(s)
  /\ UNCHANGED <<storeVars, sweepPc, exhausted, retryable, todo, ready, cancelling,
                 everDone, replays>>

(* handle_curate met an optimistic-lock conflict (409): mark_conflict, and *)
(* then Ok whether or not mark_conflict succeeded.                         *)
HandlerConflict(s) ==
  /\ slotPc[s] = "exec"
  /\ SlotKind[s] \in ConflictKinds
  /\ slotPc' = [slotPc EXCEPT ![s] = "conflicted"]
  /\ \/ /\ MarkConflict(slotJob[s])
        /\ UNCHANGED faults
     \/ /\ ~Exists(slotJob[s])
        /\ UNCHANGED <<storeVars, faults>>
     \/ /\ faults < MaxFaults
        /\ faults' = faults + 1
        /\ UNCHANGED storeVars
  /\ UNCHANGED <<slotJob, sweepPc, exhausted, retryable, todo, ready, cancelling,
                 everDone, replays>>

(* complete(), after its commit: find_awaiting selects the dependents.     *)
CascadeBegin(s) ==
  /\ slotPc[s] = "completed"
  /\ slotPc' = [slotPc EXCEPT ![s] = "cascade"]
  /\ todo' = [todo EXCEPT ![s] = FindAwaiting(slotJob[s])]
  /\ UNCHANGED <<storeVars, slotJob, sweepPc, exhausted, retryable, ready, cancelling,
                 everDone, faults, replays>>

CascadeEnd(s) ==
  /\ slotPc[s] = "cascade"
  /\ todo[s] = {} /\ ready[s] = NoJob
  /\ Release(s)
  /\ UNCHANGED <<storeVars, sweepPc, exhausted, retryable, todo, ready, cancelling,
                 everDone, faults, replays>>

(* One storage error ends the cascade; complete() still returns Ok.        *)
CascadeError(s) ==
  /\ slotPc[s] \in {"completed", "cascade"}
  /\ faults < MaxFaults
  /\ faults' = faults + 1
  /\ Release(s)
  /\ todo' = [todo EXCEPT ![s] = {}]
  /\ ready' = [ready EXCEPT ![s] = NoJob]
  /\ UNCHANGED <<storeVars, sweepPc, exhausted, retryable, cancelling, everDone,
                 replays>>

-----------------------------------------------------------------------------
(* The promotion loop shared by the cascade and the stranded-jobs stage:    *)
(* all_jobs_done in one transaction, set_pending in another.                *)

CheckDependent(p, d) ==
  /\ ready[p] = NoJob
  /\ d \in todo[p]
  /\ todo' = [todo EXCEPT ![p] = @ \ {d}]
  /\ ready' = [ready EXCEPT ![p] = IF AllJobsDone(d) THEN d ELSE NoJob]
  /\ UNCHANGED <<storeVars, slotPc, slotJob, sweepPc, exhausted, retryable, cancelling,
                 everDone, faults, replays>>

PromoteDependent(p) ==
  /\ ready[p] # NoJob
  /\ SetPending(ready[p])
  /\ ready' = [ready EXCEPT ![p] = NoJob]
  /\ UNCHANGED <<slotPc, slotJob, sweepPc, exhausted, retryable, todo, cancelling,
                 everDone, faults, replays>>

-----------------------------------------------------------------------------
(* The sweeper: the stages of run_sweep_once, in order, every 30 seconds.   *)

Goto(w, from, to) ==
  /\ sweepPc[w] = from
  /\ sweepPc' = [sweepPc EXCEPT ![w] = to]

SweepRecover(w) ==
  /\ Goto(w, "recover", "deadlines")
  /\ RecoverStaleLeases
  /\ UNCHANGED <<slotPc, slotJob, exhausted, retryable, todo, ready, cancelling,
                 everDone, faults, replays>>

SweepDeadlines(w) ==
  /\ Goto(w, "deadlines", "retries")
  /\ CancelExpiredDeadlines
  /\ UNCHANGED <<slotPc, slotJob, exhausted, retryable, todo, ready, cancelling,
                 everDone, faults, replays>>

(* promote_retries reads the Failed rows and their attempt_count ...       *)
SweepRetries(w) ==
  /\ Goto(w, "retries", "retryLoop")
  /\ exhausted' = [exhausted EXCEPT ![w] = {j \in FailedJobs : Exhausted(j)}]
  /\ retryable' = [retryable EXCEPT ![w] = {j \in FailedJobs : ~Exhausted(j)}]
  /\ UNCHANGED <<storeVars, slotPc, slotJob, todo, ready, cancelling, everDone,
                 faults, replays>>

(* ... and then treats them one by one, each in its own transaction.       *)
SweepToDlq(w, j) ==
  /\ sweepPc[w] = "retryLoop"
  /\ j \in exhausted[w]
  /\ FailDlq(j)
  /\ exhausted' = [exhausted EXCEPT ![w] = @ \ {j}]
  /\ UNCHANGED <<slotPc, slotJob, sweepPc, retryable, todo, ready, cancelling, everDone,
                 faults, replays>>

SweepRetry(w, j) ==
  /\ sweepPc[w] = "retryLoop"
  /\ j \in retryable[w]
  /\ RetryPending(j)
  /\ retryable' = [retryable EXCEPT ![w] = @ \ {j}]
  /\ UNCHANGED <<slotPc, slotJob, sweepPc, exhausted, todo, ready, cancelling, everDone,
                 faults, replays>>

(* The stage ends when the rows are all treated, or at the first error:    *)
(* fail_dlq on a row that is gone.                                         *)
SweepRetriesEnd(w) ==
  /\ Goto(w, "retryLoop", "stranded")
  /\ \/ exhausted[w] \cup retryable[w] = {}
     \/ \E j \in exhausted[w] : ~Exists(j)
  /\ exhausted' = [exhausted EXCEPT ![w] = {}]
  /\ retryable' = [retryable EXCEPT ![w] = {}]
  /\ UNCHANGED <<storeVars, slotPc, slotJob, todo, ready, cancelling, everDone,
                 faults, replays>>

SweepStranded(w) ==
  /\ Goto(w, "stranded", "promote")
  /\ todo' = [todo EXCEPT ![w] = StrandedCandidates]
  /\ UNCHANGED <<storeVars, slotPc, slotJob, exhausted, retryable, ready, cancelling,
                 everDone, faults, replays>>

SweepEnd(w) ==
  /\ Goto(w, "promote", "recover")
  /\ todo[w] = {} /\ ready[w] = NoJob
  /\ UNCHANGED <<storeVars, slotPc, slotJob, exhausted, retryable, todo, ready,
                 cancelling, everDone, faults, replays>>

(* A storage error ends the current stage; it is logged and the sweep goes *)
(* on with the next one.                                                   *)
NextStage == [recover |-> "deadlines", deadlines |-> "retries", retries |-> "stranded",
              retryLoop |-> "stranded", stranded |-> "recover", promote |-> "recover"]

SweepError(w) ==
  /\ faults < MaxFaults
  /\ faults' = faults + 1
  /\ sweepPc' = [sweepPc EXCEPT ![w] = NextStage[@]]
  /\ exhausted' = [exhausted EXCEPT ![w] = {}]
  /\ retryable' = [retryable EXCEPT ![w] = {}]
  /\ todo' = [todo EXCEPT ![w] = {}]
  /\ ready' = [ready EXCEPT ![w] = NoJob]
  /\ UNCHANGED <<storeVars, slotPc, slotJob, cancelling, everDone, replays>>

-----------------------------------------------------------------------------
(* The API and the operator *)

(* cancel_job reads the status (Running: 409, terminal: 200) ...           *)
CancelCheck(j) ==
  /\ status[j] \in {"Pending", "Waiting", "Failed"}
  /\ cancelling' = cancelling \cup {j}
  /\ UNCHANGED <<storeVars, procVars, everDone, faults, replays>>

(* ... and cancels in a second transaction.                                *)
CancelCommit(j) ==
  /\ j \in cancelling
  /\ Cancel(j)
  /\ cancelling' = cancelling \ {j}
  /\ UNCHANGED <<procVars, everDone, faults, replays>>

AckMessage(j) ==
  /\ CompleteMessageDelivery(j)
  /\ everDone' = everDone \cup {j}
  /\ UNCHANGED <<procVars, cancelling, faults, replays>>

Replay(j) ==
  /\ replays < MaxReplays
  /\ replays' = replays + 1
  /\ ReplaySingle(j)
  /\ UNCHANGED <<procVars, cancelling, everDone, faults>>

Prune(S) ==
  /\ DeleteDlqJobs(S)
  /\ UNCHANGED <<procVars, cancelling, everDone, faults, replays>>

Purge(S) ==
  /\ PurgeOneBatch(S)
  /\ UNCHANGED <<procVars, cancelling, everDone, faults, replays>>

-----------------------------------------------------------------------------
(* A worker process dies and is restarted: all its slots and its sweeper    *)
(* lose their state; the table survives.                                    *)
Crash(w) ==
  LET mine == {s \in Slots : SlotWorker[s] = w}
  IN /\ faults < MaxFaults
     /\ faults' = faults + 1
     /\ slotPc' = [s \in Slots |-> IF s \in mine THEN "idle" ELSE slotPc[s]]
     /\ slotJob' = [s \in Slots |-> IF s \in mine THEN NoJob ELSE slotJob[s]]
     /\ sweepPc' = [sweepPc EXCEPT ![w] = "recover"]
     /\ exhausted' = [exhausted EXCEPT ![w] = {}]
     /\ retryable' = [retryable EXCEPT ![w] = {}]
     /\ todo' = [p \in Promoters |-> IF p \in mine \cup {w} THEN {} ELSE todo[p]]
     /\ ready' = [p \in Promoters |-> IF p \in mine \cup {w} THEN NoJob ELSE ready[p]]
     /\ UNCHANGED <<storeVars, cancelling, everDone, replays>>

-----------------------------------------------------------------------------

Clock == \E j \in Jobs : LeaseTick(j) \/ DeadlineTick(j)

SlotStep(s) ==
  \/ \E j \in Jobs : Fetch(s, j)
  \/ AckOk(s)
  \/ \E a \in FailAttempts[SlotKind[s]] : AckFail(s, a)
  \/ AckRefused(s)
  \/ AckLost(s)
  \/ HandlerConflict(s)
  \/ CascadeBegin(s)
  \/ CascadeEnd(s)
  \/ CascadeError(s)

Promotion(p) == (\E d \in Jobs : CheckDependent(p, d)) \/ PromoteDependent(p)

SweepStep(w) ==
  \/ SweepRecover(w)
  \/ SweepDeadlines(w)
  \/ SweepRetries(w)
  \/ \E j \in Jobs : SweepToDlq(w, j) \/ SweepRetry(w, j)
  \/ SweepRetriesEnd(w)
  \/ SweepStranded(w)
  \/ SweepEnd(w)

Clients ==
  \/ \E j \in Jobs : Submit(j) \/ CancelCheck(j) \/ CancelCommit(j) \/ AckMessage(j) \/ Replay(j)
  \/ \E S \in SUBSET Jobs : Prune(S) \/ Purge(S)

Next ==
  \/ Clients
  \/ Clock
  \/ \E s \in Slots : SlotStep(s)
  \/ \E p \in Promoters : Promotion(p)
  \/ \E w \in Workers : SweepStep(w) \/ SweepError(w) \/ Crash(w)

Spec == Init /\ [][Next]_vars

(* Time passes, and the sweeper runs every 30 seconds to its end.  Nothing  *)
(* is assumed of clients, of faults, of the fetcher, nor of the handlers:   *)
(* one may never return, or only after its lease has expired.               *)
Fairness ==
  /\ \A j \in Jobs : WF_vars(LeaseTick(j))
  /\ \A w \in Workers : WF_vars(SweepStep(w)) /\ WF_vars(Promotion(w))

FairSpec == Spec /\ Fairness

-----------------------------------------------------------------------------
(* Safety *)

(* A Running row always carries a lease, so that recover_stale_leases can   *)
(* find it (a NULL lease_until matches no comparison and the row would be   *)
(* Running for ever), and no row that may be leased or retried carries a    *)
(* leftover one: only a job Cancelled by its deadline keeps it.             *)
LeaseTracksRunning ==
  \A j \in Jobs :
    /\ status[j] = "Running" => lease[j] # "none"
    /\ lease[j] # "none" => status[j] \in {"Running", "Cancelled"}

(* A job with await_jobs is never runnable, run or finished before every    *)
(* job it awaits has been Done: neither the cascade of complete() nor the   *)
(* stranded-jobs stage, whose check and promotion are separate              *)
(* transactions, lets one through early.  This is what the code does for    *)
(* every trigger condition: job.rs documents OnAnyTerminal ("regardless of  *)
(* outcome") and OnFailed too, but nothing reads JobTrigger.condition, and  *)
(* all_jobs_done treats every entry as OnDone.                              *)
AwaitGate ==
  \A j \in Jobs :
    status[j] \in {"Pending", "Running", "Done", "Failed"} => Await[j] \subseteq everDone

(* Once complete() has recorded a job as Done it is never queued or leased  *)
(* again, whatever stale snapshot a sweep still holds and however often the *)
(* operator replays the DLQ.                                                *)
DoneIsNotRerun ==
  \A j \in everDone : status[j] \in {"Done", "Conflict"}

(* No stale snapshot brings a job back: a Done, Cancelled or Conflict row   *)
(* never becomes runnable in one step; the only way back is through the DLQ *)
(* and an operator's replay.                                                *)
NoRevival ==
  [][\A j \in Jobs :
       status[j] \in {"Done", "Cancelled", "Conflict"} => status'[j] \in Terminal]_vars

(* The queue implements the transition table of module JobLifecycle: what   *)
(* cascades, sweeps on old snapshots, late handlers, cancellations and      *)
(* replays do to a job, in whatever order, is one of its transitions.       *)
Lifecycle == INSTANCE JobLifecycle WITH
               Jobs <- Jobs, Await <- Await,
               Messages <- {j \in Jobs : Kind[j] = MessageKind},
               status <- status, everDone <- everDone
LifecycleSpec == Lifecycle!Spec

-----------------------------------------------------------------------------
(* Liveness, under FairSpec *)

(* A job all of whose dependencies stay Done is not left Waiting, even if   *)
(* the worker crashed or the storage failed between the commit of           *)
(* complete() and its cascade: the stranded-jobs stage of the sweep finds   *)
(* it.  The comment of complete() (queue_store_sqlite.rs:1232), which says  *)
(* that run_sweep_once never visits such a job again, predates that stage.  *)
StrandedIsPromoted ==
  \A d \in Jobs : []<>~(status[d] = "Waiting" /\ AllJobsDone(d))

(* A job whose worker crashed, or whose acknowledgement was refused or      *)
(* lost, does not stay Running.                                             *)
RunningEnds ==
  \A j \in Jobs : status[j] = "Running" ~> status[j] # "Running"
=============================================================================

------------------------------ MODULE JobStore ------------------------------
(***************************************************************************)
(* The job queue's table `gradatum_jobs` and the statements that change it *)
(* (crates/gradatum-db-sqlite/src/queue_store_sqlite.rs, SqliteQueueStore, *)
(* and the direct UPDATE of the admin CLI's DLQ replay).                   *)
(*                                                                         *)
(* Every method of the store runs one SQL transaction (BEGIN IMMEDIATE, or *)
(* a single statement) under the connection's mutex, so each operator      *)
(* below is ONE atomic step.  A method that runs several transactions      *)
(* (complete + cascade, promote_retries, promote_stranded_waiting_jobs) is *)
(* several operators here; module JobQueue interleaves them.               *)
(*                                                                         *)
(* The clock is abstracted to what the SQL comparisons can tell apart:     *)
(* lease_until is "fresh" (> now), "expired" (<= now) or "stale"           *)
(* (< now - lease_ttl), a deadline is ahead or passed.  scheduled_at is    *)
(* left out: every producer and every requeue writes the current time, and *)
(* the only future dates are written by schedule_retry, which no           *)
(* production code calls, so `scheduled_at <= now` always holds.           *)
(***************************************************************************)
EXTENDS Naturals, FiniteSets

CONSTANTS
  Jobs,          \* job identifiers (ULIDs)
  Kinds,         \* values of the `kind` column
  Kind,          \* [Jobs -> Kinds], stamped at enqueue
  MessageKind,   \* JOB_KIND_MESSAGE: delivery rows, never executed
  Await,         \* [Jobs -> SUBSET Jobs], scheduling.await_jobs
  Priority,      \* [Jobs -> Nat]
  HasDeadline,   \* the jobs enqueued with a deadline
  RetryMax       \* retry.max of the records (3 everywhere in the code)

ASSUME JobStoreAssumption ==
  /\ Kind \in [Jobs -> Kinds]
  /\ MessageKind \in Kinds
  /\ Await \in [Jobs -> SUBSET Jobs]
  /\ Priority \in [Jobs -> Nat]
  /\ HasDeadline \subseteq Jobs
  /\ RetryMax \in Nat \ {0}

VARIABLES
  status,         \* the SQL status column; "absent": not inserted yet,
                  \* "deleted": removed by delete_dlq_jobs
  lease,          \* lease_until relative to the clock; "none" is NULL
  attempt_count,  \* the SQL attempt_count column, saturated (see MaxCount)
  deadline,       \* the deadline column relative to the clock
  purged          \* spec.kind of the payload is the PayloadPurged tombstone

storeVars == <<status, lease, attempt_count, deadline, purged>>

Terminal == {"Done", "DLQ", "Cancelled", "Conflict"}
JobStatus == {"Pending", "Running", "Waiting", "Failed"} \cup Terminal
NoRow == {"absent", "deleted"}

Leases == {"none", "fresh", "expired", "stale"}
Deadlines == {"none", "ahead", "passed"}

(* attempt_count is only ever compared with retry.max, so the counter is   *)
(* saturated one above it.                                                 *)
MaxCount == RetryMax + 1
Saturate(n) == IF n > MaxCount THEN MaxCount ELSE n

Exists(j) == status[j] \in JobStatus
IsTerminal(j) == status[j] \in Terminal

StoreTypeOK ==
  /\ status \in [Jobs -> JobStatus \cup NoRow]
  /\ lease \in [Jobs -> Leases]
  /\ attempt_count \in [Jobs -> 0..MaxCount]
  /\ deadline \in [Jobs -> Deadlines]
  /\ purged \in [Jobs -> BOOLEAN]

StoreInit ==
  /\ status = [j \in Jobs |-> "absent"]
  /\ lease = [j \in Jobs |-> "none"]
  /\ attempt_count = [j \in Jobs |-> 0]
  /\ deadline = [j \in Jobs |-> "none"]
  /\ purged = [j \in Jobs |-> FALSE]

-----------------------------------------------------------------------------
(* Producers *)

(* A producer that fills await_jobs creates the record Waiting.            *)
Enqueue(j) ==
  /\ status[j] = "absent"
  /\ status' = [status EXCEPT ![j] = IF Await[j] = {} THEN "Pending" ELSE "Waiting"]
  /\ deadline' = [deadline EXCEPT ![j] = IF j \in HasDeadline THEN "ahead" ELSE "none"]
  /\ UNCHANGED <<lease, attempt_count, purged>>

-----------------------------------------------------------------------------
(* The worker's side: lease a job, then report its outcome *)

(* The row dequeue_by_kind(k) may select: Pending, of that kind, of the    *)
(* highest priority.  Ties on priority are broken by scheduled_at in the   *)
(* code and by any order here.                                             *)
Dequeuable(k, j) ==
  /\ k # MessageKind
  /\ status[j] = "Pending"
  /\ Kind[j] = k
  /\ \A i \in Jobs : status[i] = "Pending" /\ Kind[i] = k => Priority[i] <= Priority[j]

(* Mutant: lease_until is not written.                                     *)
DequeueWithoutLease(k, j) ==
  /\ Dequeuable(k, j)
  /\ status' = [status EXCEPT ![j] = "Running"]
  /\ attempt_count' = [attempt_count EXCEPT ![j] = Saturate(@ + 1)]
  /\ UNCHANGED <<lease, deadline, purged>>

DequeueByKind(k, j) ==
  /\ Dequeuable(k, j)
  /\ status' = [status EXCEPT ![j] = "Running"]
  /\ lease' = [lease EXCEPT ![j] = "fresh"]
  /\ attempt_count' = [attempt_count EXCEPT ![j] = Saturate(@ + 1)]
  /\ UNCHANGED <<deadline, purged>>

(* complete() and fail() only accept a Running row whose lease has not     *)
(* expired.  The row does not record WHO leased it.                        *)
Leased(j) == status[j] = "Running" /\ lease[j] = "fresh"

(* Mutant: the UPDATE has no guard on status and lease.                    *)
CompleteUnleased(j) ==
  /\ Exists(j)
  /\ status' = [status EXCEPT ![j] = "Done"]
  /\ lease' = [lease EXCEPT ![j] = "none"]
  /\ UNCHANGED <<attempt_count, deadline, purged>>

Complete(j) ==
  /\ Leased(j)
  /\ status' = [status EXCEPT ![j] = "Done"]
  /\ lease' = [lease EXCEPT ![j] = "none"]
  /\ UNCHANGED <<attempt_count, deadline, purged>>

(* Mutant: the attempt number is added to the counter.                     *)
FailAccumulates(j, attempt) ==
  /\ Leased(j)
  /\ status' = [status EXCEPT ![j] = "Failed"]
  /\ lease' = [lease EXCEPT ![j] = "none"]
  /\ attempt_count' = [attempt_count EXCEPT ![j] = @ + attempt]
  /\ UNCHANGED <<deadline, purged>>

(* fail() overwrites attempt_count with the attempt number of the task.    *)
Fail(j, attempt) ==
  /\ Leased(j)
  /\ status' = [status EXCEPT ![j] = "Failed"]
  /\ lease' = [lease EXCEPT ![j] = "none"]
  /\ attempt_count' = [attempt_count EXCEPT ![j] = Saturate(attempt)]
  /\ UNCHANGED <<deadline, purged>>

(* mark_conflict() has no guard on the status of the row.                  *)
MarkConflict(j) ==
  /\ Exists(j)
  /\ status' = [status EXCEPT ![j] = "Conflict"]
  /\ lease' = [lease EXCEPT ![j] = "none"]
  /\ UNCHANGED <<attempt_count, deadline, purged>>

(* Mutant: the UPDATE has no `AND kind = ?4`.                              *)
CompleteAnyDelivery(j) ==
  /\ status[j] = "Pending"
  /\ ~purged[j]
  /\ status' = [status EXCEPT ![j] = "Done"]
  /\ lease' = [lease EXCEPT ![j] = "none"]
  /\ UNCHANGED <<attempt_count, deadline, purged>>

(* The acknowledgement of a message delivery: Pending to Done, no lease.   *)
CompleteMessageDelivery(j) ==
  /\ Kind[j] = MessageKind
  /\ status[j] = "Pending"
  /\ ~purged[j]
  /\ status' = [status EXCEPT ![j] = "Done"]
  /\ lease' = [lease EXCEPT ![j] = "none"]
  /\ UNCHANGED <<attempt_count, deadline, purged>>

-----------------------------------------------------------------------------
(* Chaining of jobs *)

FindAwaiting(j) == {d \in Jobs : status[d] = "Waiting" /\ j \in Await[d]}

(* Mutant: the sweep has no stranded-jobs stage.                           *)
NoStrandedCandidates == {}

StrandedCandidates == {d \in Jobs : status[d] = "Waiting" /\ Await[d] # {}}

(* Mutant: the COUNT has no `AND status = 'Done'`.                         *)
AllJobsKnown(d) == \A j \in Await[d] : Exists(j)

AllJobsDone(d) == \A j \in Await[d] : status[j] = "Done"

(* Mutant: the UPDATE has no `AND status = 'Waiting'`.                     *)
SetPendingUnguarded(j) ==
  /\ status' = [status EXCEPT ![j] = "Pending"]
  /\ UNCHANGED <<lease, attempt_count, deadline, purged>>

SetPending(j) ==
  /\ status' = [status EXCEPT ![j] = IF @ = "Waiting" THEN "Pending" ELSE @]
  /\ UNCHANGED <<lease, attempt_count, deadline, purged>>

-----------------------------------------------------------------------------
(* Maintenance statements, run by the sweeper *)

(* Running rows whose lease expired more than lease_ttl ago go back to     *)
(* Pending.  attempt_count is kept and not compared with retry.max.        *)
Recoverable == {j \in Jobs : status[j] = "Running" /\ lease[j] = "stale"}

(* Mutant: the recovered row keeps its lease.                              *)
RecoverKeepsLease ==
  /\ status' = [j \in Jobs |-> IF j \in Recoverable THEN "Pending" ELSE status[j]]
  /\ UNCHANGED <<lease, attempt_count, deadline, purged>>

RecoverStaleLeases ==
  /\ status' = [j \in Jobs |-> IF j \in Recoverable THEN "Pending" ELSE status[j]]
  /\ lease' = [j \in Jobs |-> IF j \in Recoverable THEN "none" ELSE lease[j]]
  /\ UNCHANGED <<attempt_count, deadline, purged>>

(* Every non-terminal row past its deadline is Cancelled; its lease column *)
(* is left as it is.                                                       *)
PastDeadline == {j \in Jobs : Exists(j) /\ ~IsTerminal(j) /\ deadline[j] = "passed"}

CancelExpiredDeadlines ==
  /\ status' = [j \in Jobs |-> IF j \in PastDeadline THEN "Cancelled" ELSE status[j]]
  /\ UNCHANGED <<lease, attempt_count, deadline, purged>>

FailedJobs == {j \in Jobs : status[j] = "Failed"}

Exhausted(j) == attempt_count[j] >= RetryMax

(* The UPDATE of promote_retries for one row of its snapshot.              *)
RetryPending(j) ==
  /\ status' = [status EXCEPT ![j] = IF @ = "Failed" THEN "Pending" ELSE @]
  /\ UNCHANGED <<lease, attempt_count, deadline, purged>>

(* fail_dlq() has no guard on the status; an unknown id is an error.       *)
FailDlq(j) ==
  /\ Exists(j)
  /\ status' = [status EXCEPT ![j] = "DLQ"]
  /\ lease' = [lease EXCEPT ![j] = "none"]
  /\ UNCHANGED <<attempt_count, deadline, purged>>

-----------------------------------------------------------------------------
(* The server's and the operator's statements *)

Cancel(j) ==
  /\ status' = [status EXCEPT ![j] = IF Exists(j) /\ ~IsTerminal(j) THEN "Cancelled" ELSE @]
  /\ lease' = [lease EXCEPT ![j] = IF Exists(j) /\ ~IsTerminal(j) THEN "none" ELSE @]
  /\ UNCHANGED <<attempt_count, deadline, purged>>

(* Mutant: finished rows may be replayed too.                              *)
ReplayFinished(j) ==
  /\ status[j] \in {"DLQ", "Done"}
  /\ status' = [status EXCEPT ![j] = "Pending"]
  /\ lease' = [lease EXCEPT ![j] = "none"]
  /\ attempt_count' = [attempt_count EXCEPT ![j] = 0]
  /\ UNCHANGED <<deadline, purged>>

(* `jobs dlq --replay` *)
ReplaySingle(j) ==
  /\ status[j] = "DLQ"
  /\ status' = [status EXCEPT ![j] = "Pending"]
  /\ lease' = [lease EXCEPT ![j] = "none"]
  /\ attempt_count' = [attempt_count EXCEPT ![j] = 0]
  /\ UNCHANGED <<deadline, purged>>

(* `jobs dlq --prune` and the CleanupDlq cron: the rows of the DLQ older   *)
(* than a cutoff, that is any subset of them.                              *)
DeleteDlqJobs(S) ==
  /\ S # {}
  /\ \A j \in S : status[j] = "DLQ"
  /\ status' = [j \in Jobs |-> IF j \in S THEN "deleted" ELSE status[j]]
  /\ UNCHANGED <<lease, attempt_count, deadline, purged>>

(* One batch of purge_terminal_payloads.  Which terminal rows fall outside *)
(* the keep window and before the cutoff is left open.                     *)
PurgeOneBatch(S) ==
  /\ S # {}
  /\ \A j \in S : IsTerminal(j) /\ ~purged[j]
  /\ purged' = [j \in Jobs |-> purged[j] \/ j \in S]
  /\ UNCHANGED <<status, lease, attempt_count, deadline>>

-----------------------------------------------------------------------------
(* The clock *)

(* A lease first passes lease_until, then lease_until + lease_ttl.         *)
LeaseAges(j) ==
  /\ lease[j] \in {"fresh", "expired"}
  /\ lease' = [lease EXCEPT ![j] = IF @ = "fresh" THEN "expired" ELSE "stale"]
  /\ UNCHANGED <<status, attempt_count, deadline, purged>>

DeadlinePasses(j) ==
  /\ deadline[j] = "ahead"
  /\ deadline' = [deadline EXCEPT ![j] = "passed"]
  /\ UNCHANGED <<status, lease, attempt_count, purged>>
=============================================================================

---------------------------- MODULE JobLifecycle ----------------------------
(***************************************************************************)
(* What the job queue promises about the life of a job, with no lease, no   *)
(* worker and no sweeper: the transitions a row's status may make           *)
(* (crates/gradatum-core/src/job.rs, JobStatus and the QueueStore trait).   *)
(* Any set of jobs may move in one step, as a maintenance statement moves   *)
(* every row it selects.                                                    *)
(*                                                                          *)
(* The promises that the transition table makes:                            *)
(*   - a job leaves Waiting only to be Cancelled, or for Pending once every *)
(*     job it awaits has been Done;                                         *)
(*   - a message delivery is never executed: it is Done from Pending, and   *)
(*     is neither Running, Failed, in Conflict nor in the DLQ;              *)
(*   - every other job becomes Done only from Running;                      *)
(*   - a job that has been Done is never run again: the only later status   *)
(*     is Conflict, reported late by a second execution, and that is final; *)
(*   - another Cancelled or Conflict job can only change between Conflict   *)
(*     and the DLQ, and only the DLQ can be made runnable again.            *)
(*                                                                          *)
(* It does not promise what job.rs says of is_terminal, that "no further    *)
(* transitions or retries are possible" from Done, DLQ, Cancelled and       *)
(* Conflict.  The code makes such transitions: mark_conflict and fail_dlq   *)
(* have no guard on the status, so that a late handler moves a Done,        *)
(* Cancelled or DLQ job to Conflict (Late), a sweep with an old snapshot    *)
(* moves a Cancelled or Conflict job to the DLQ (Stale), and the operator's *)
(* replay makes a DLQ job Pending (Replayed).                               *)
(***************************************************************************)
CONSTANTS Jobs, Await, Messages

VARIABLES status, everDone

Enqueued == { <<"absent", "Pending">>, <<"absent", "Waiting">> }
Withdrawn == { <<"Pending", "Cancelled">>, <<"Waiting", "Cancelled">> }

(* Of a job that workers execute.                                           *)
Executed == { <<"Pending", "Running">>,
              <<"Running", "Done">>, <<"Running", "Failed">>,
              <<"Running", "Pending">>, <<"Failed", "Pending">>,
              <<"Failed", "DLQ">>, <<"DLQ", "deleted">>,
              <<"Running", "Cancelled">>, <<"Failed", "Cancelled">> }
Late == { <<from, "Conflict">> :
            from \in {"Pending", "Running", "Failed", "Done", "DLQ", "Cancelled"} }
Stale == { <<"Cancelled", "DLQ">>, <<"Conflict", "DLQ">> }
Replayed == { <<"DLQ", "Pending">> }

(* Of a message delivery.                                                   *)
Delivered == { <<"Pending", "Done">> }

Move(j) ==
  LET step == <<status[j], status'[j]>>
  IN \/ step \in Enqueued \cup Withdrawn
     \/ j \notin Messages /\ step \in Executed \cup Late
     \/ j \notin Messages \cup everDone /\ step \in Stale \cup Replayed
     \/ j \in Messages /\ step \in Delivered
     \/ step = <<"Waiting", "Pending">> /\ Await[j] \subseteq everDone

Init ==
  /\ status = [j \in Jobs |-> "absent"]
  /\ everDone = {}

Step ==
  /\ \A j \in Jobs : status'[j] = status[j] \/ Move(j)
  /\ everDone' = everDone \cup {j \in Jobs : status'[j] = "Done"}
  /\ DOMAIN status' = Jobs

Spec == Init /\ [][Step]_<<status, everDone>>
=============================================================================

---------------------------- MODULE MCJobQueue ----------------------------
(***************************************************************************)
(* Instances of JobQueue for TLC.  Each is one worker process with two      *)
(* slots of one kind; the cfg files choose the kind of each job, what it    *)
(* awaits and the bounds.                                                   *)
(***************************************************************************)
EXTENDS JobQueue, TLC

CONSTANTS j1, j2, j3, s1, s2, w1

MCKinds == {"Curate", "Distill", "Message"}

CurateAndMessage == [j \in Jobs |-> IF j = j3 THEN "Message" ELSE "Curate"]

Chain == [j \in Jobs |-> IF j = j2 THEN {j1} ELSE {}]    \* j2 awaits j1

UrgentFirst == [j \in Jobs |-> IF j = j1 THEN 90 ELSE 50]

OneWorker == [s \in Slots |-> w1]
CurateSlots == [s \in Slots |-> "Curate"]

(* Apalis counts the executions of one task, so a kind whose worker has     *)
(* max_retries = n fails with an attempt number of at most n + 1            *)
(* (monitor.rs: Curate 3, Distill 0).  The instances below have RetryMax 2  *)
(* and, for Curate, an attempt number under it and one that reaches it.     *)
MCFailAttempts == [k \in MCKinds |-> IF k = "Curate" THEN {1, 2} ELSE {1}]

SlotSymmetry == Permutations({s1, s2})
=============================================================================

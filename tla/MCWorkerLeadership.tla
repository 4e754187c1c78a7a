------------------------ MODULE MCWorkerLeadership ------------------------
(* Instances of WorkerLeadership for TLC.  A unit of time is 15 seconds, so *)
(* that renew_every (30 s) is 2, expires_after (60 s) is 4, and statements   *)
(* may be late by up to 15 seconds: the largest delay the defaults tolerate. *)
EXTENDS WorkerLeadership, TLC

CONSTANTS w1, w2, w3

ThreeWorkers == {w1, w2, w3}
===========================================================================

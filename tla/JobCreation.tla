---------------------------- MODULE JobCreation ----------------------------
(***************************************************************************)
(* POST /api/v1/jobs with its Idempotency-Key header (gradatum-server,      *)
(* jobs_v2.rs, create_job) and the table gradatum_idempotency               *)
(* (queue_store_sqlite.rs).  A call looks its key up, enqueues a job and    *)
(* stores the key, in three transactions; other calls, storage errors, a    *)
(* crash of the server and the worker's clean-up of old keys come between.  *)
(* A client that got no answer calls again with the same key: that is       *)
(* another call.  A job is named after the call that enqueued it.           *)
(***************************************************************************)
EXTENDS Naturals

CONSTANTS
  Calls,      \* calls of POST /api/v1/jobs
  Keys,       \* values of the Idempotency-Key header
  KeyOf,      \* [Calls -> Keys]
  None,       \* no row, no answer
  MaxFaults   \* bound on storage errors and server crashes

ASSUME JobCreationAssumption ==
  /\ KeyOf \in [Calls -> Keys]
  /\ None \notin Calls
  /\ MaxFaults \in Nat

VARIABLES
  pc,        \* [Calls -> Pcs]
  table,     \* [Keys -> Calls \cup {None}], gradatum_idempotency: key to job
  old,       \* keys whose row is older than 24 hours
  jobs,      \* the jobs that were enqueued
  answer,    \* [Calls -> Calls \cup {None}], the job id a client was given
  settled,   \* history: jobs given to a client and stored under their key
  before,    \* history: [Calls -> SUBSET Calls], settled when the call began
  faults

vars == <<pc, table, old, jobs, answer, settled, before, faults>>

Pcs == {"new", "lookup", "enqueue", "insert", "answer", "end"}

TypeOK ==
  /\ pc \in [Calls -> Pcs]
  /\ table \in [Keys -> Calls \cup {None}]
  /\ old \subseteq Keys
  /\ jobs \subseteq Calls
  /\ answer \in [Calls -> Calls \cup {None}]
  /\ settled \subseteq Calls
  /\ before \in [Calls -> SUBSET Calls]
  /\ faults \in 0..MaxFaults

Init ==
  /\ pc = [c \in Calls |-> "new"]
  /\ table = [k \in Keys |-> None]
  /\ old = {}
  /\ jobs = {}
  /\ answer = [c \in Calls |-> None]
  /\ settled = {}
  /\ before = [c \in Calls |-> {}]
  /\ faults = 0

Goto(c, from, to) ==
  /\ pc[c] = from
  /\ pc' = [pc EXCEPT ![c] = to]

(* The call arrives and passes authentication, ACL and header checks.      *)
Call(c) ==
  /\ Goto(c, "new", "lookup")
  /\ before' = [before EXCEPT ![c] = settled]
  /\ UNCHANGED <<table, old, jobs, answer, settled, faults>>

(* idempotency_lookup: a known key is answered 200 with its job.           *)
LookupIgnored(c) ==
  /\ Goto(c, "lookup", "enqueue")
  /\ UNCHANGED <<table, old, jobs, answer, settled, before, faults>>
LookupWrongColumn(c) ==
  LET known == table[KeyOf[c]]
  IN /\ Goto(c, "lookup", IF known = None THEN "enqueue" ELSE "end")
     /\ answer' = [answer EXCEPT ![c] = IF known = None THEN None ELSE KeyOf[c]]
     /\ UNCHANGED <<table, old, jobs, settled, before, faults>>
Lookup(c) ==
  LET known == table[KeyOf[c]]
  IN /\ Goto(c, "lookup", IF known = None THEN "enqueue" ELSE "end")
     /\ answer' = [answer EXCEPT ![c] = known]
     /\ UNCHANGED <<table, old, jobs, settled, before, faults>>

(* The spec is rejected: 400, nothing is written.                          *)
Reject(c) ==
  /\ Goto(c, "enqueue", "end")
  /\ UNCHANGED <<table, old, jobs, answer, settled, before, faults>>

EnqueueUnchecked(c) ==
  /\ Goto(c, "enqueue", "insert")
  /\ jobs' \in {jobs, jobs \cup {c}}
  /\ UNCHANGED <<table, old, answer, settled, before, faults>>
Enqueue(c) ==
  /\ Goto(c, "enqueue", "insert")
  /\ jobs' = jobs \cup {c}
  /\ UNCHANGED <<table, old, answer, settled, before, faults>>

(* idempotency_insert: INSERT OR IGNORE; whether it inserted is not looked *)
(* at.                                                                     *)
Insert(c) ==
  LET k == KeyOf[c]
      free == table[k] = None
  IN /\ Goto(c, "insert", "answer")
     /\ table' = IF free THEN [table EXCEPT ![k] = c] ELSE table
     /\ UNCHANGED <<old, jobs, answer, settled, before, faults>>

(* 202 with the id of the new job.                                         *)
Answer(c) ==
  /\ Goto(c, "answer", "end")
  /\ answer' = [answer EXCEPT ![c] = c]
  /\ settled' = IF table[KeyOf[c]] = c THEN settled \cup {c} ELSE settled
  /\ UNCHANGED <<table, old, jobs, before, faults>>

(* A storage error: 500 after the lookup or the enqueue; a failed insert   *)
(* is only logged, and the call is answered 202.                           *)
StorageError(c) ==
  /\ faults < MaxFaults
  /\ faults' = faults + 1
  /\ \/ Goto(c, "lookup", "end")
     \/ Goto(c, "enqueue", "end")
     \/ Goto(c, "insert", "answer")
  /\ UNCHANGED <<table, old, jobs, answer, settled, before>>

(* The server dies: every call in progress ends without an answer.         *)
ServerCrash ==
  /\ faults < MaxFaults
  /\ faults' = faults + 1
  /\ pc' = [c \in Calls |-> IF pc[c] = "new" THEN "new" ELSE "end"]
  /\ UNCHANGED <<table, old, jobs, answer, settled, before>>

(* A row becomes older than 24 hours ...                                   *)
RowAges(k) ==
  /\ table[k] # None
  /\ k \notin old
  /\ old' = old \cup {k}
  /\ UNCHANGED <<pc, table, jobs, answer, settled, before, faults>>

(* ... and idempotency_cleanup (stage 5 of the worker's sweep) deletes     *)
(* such rows.  The history forgets what was settled under them.            *)
Cleanup ==
  /\ old # {}
  /\ table' = [k \in Keys |-> IF k \in old THEN None ELSE table[k]]
  /\ old' = {}
  /\ settled' = {c \in settled : KeyOf[c] \notin old}
  /\ before' = [c \in Calls |-> {b \in before[c] : KeyOf[b] \notin old}]
  /\ UNCHANGED <<pc, jobs, answer, faults>>

Next ==
  \/ \E c \in Calls : Call(c) \/ Lookup(c) \/ Reject(c) \/ Enqueue(c) \/ Insert(c)
                        \/ Answer(c) \/ StorageError(c)
  \/ ServerCrash
  \/ \E k \in Keys : RowAges(k)
  \/ Cleanup

Spec == Init /\ [][Next]_vars

-----------------------------------------------------------------------------
(* A client that calls again after it was answered does not get a second    *)
(* job: a call that begins when a job was given out and stored under its    *)
(* key, and is not older than a day, enqueues nothing.                      *)
LateCallCreatesNothing ==
  \A c \in jobs : \A b \in before[c] : KeyOf[b] # KeyOf[c]

(* A job id that a client was given names a job that was enqueued for that  *)
(* key, and the table never names another, whatever calls crashed, raced    *)
(* or failed on the way.                                                    *)
IdsAreReal ==
  /\ \A c \in Calls : answer[c] # None => answer[c] \in jobs /\ KeyOf[answer[c]] = KeyOf[c]
  /\ \A k \in Keys : table[k] # None => table[k] \in jobs /\ KeyOf[table[k]] = k

(* The row of a key is not overwritten by a call that lost a race: until it *)
(* is cleaned up, later callers keep getting the same job.                  *)
KeyIsStable ==
  [][\A k \in Keys : table[k] # None => table'[k] = table[k] \/ k \in old]_vars
=============================================================================

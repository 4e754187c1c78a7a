-------------------------- MODULE WorkerLeadership --------------------------
(***************************************************************************)
(* The leadership lease that keeps a single gradatum-worker process at      *)
(* work: leader.rs (one row of table worker_leadership, taken by compare    *)
(* and swap, renewed by a background task) and what main.rs does with it: a *)
(* worker that does not get the lease exits cleanly and is restarted, one   *)
(* that gets it starts its sweep, its purge and its slots, and gives the    *)
(* lease back when it is told to stop.                                      *)
(*                                                                          *)
(* Time is counted relative to the present, so that it needs no bound: left *)
(* is expires_at - now, age is how long ago a process read the clock for    *)
(* the statement it is about to execute, timer is how long ago the renewal  *)
(* interval last ticked.  A new process has a new ULID, so a row written by *)
(* an earlier incarnation belongs to Ghost.                                 *)
(***************************************************************************)
EXTENDS Integers

CONSTANTS
  Workers,
  RenewEvery,    \* LeaderConfig::renew_every
  ExpiresAfter,  \* LeaderConfig::expires_after
  MaxDelay,      \* bound on the time from a due point to the statement's end
  NoRow,         \* the table is empty
  Ghost,         \* the row's holder is a process that no longer exists
  MaxErrors,     \* bound on storage errors met by the renewal loop
  MaxCrashes     \* bound on crashes and on releases that fail

ASSUME LeadershipAssumption ==
  /\ RenewEvery \in Nat \ {0}
  /\ ExpiresAfter \in Nat
  /\ MaxDelay \in Nat
  /\ RenewEvery + 2 * MaxDelay <= ExpiresAfter
  /\ MaxErrors \in Nat
  /\ MaxCrashes \in Nat
  /\ NoRow \notin Workers
  /\ Ghost \notin Workers
  /\ NoRow # Ghost

VARIABLES
  holder,   \* the row's holder, or NoRow
  left,     \* its expires_at - now; below -MaxDelay all values are alike
  pc,       \* [Workers -> Pcs]
  renewal,  \* [Workers -> {"off", "waiting", "renewing"}], the renewal task
  age,      \* [Workers -> 0..MaxDelay]
  timer,    \* [Workers -> 0..(RenewEvery + MaxDelay)]
  errors,
  crashes

vars == <<holder, left, pc, renewal, age, timer, errors, crashes>>

Pcs == {"down",      \* not running; systemd (Restart=always) will start it
        "insert",    \* try_acquire, before its INSERT OR IGNORE
        "update",    \* try_acquire, before its UPDATE
        "leading",   \* sweep, purge and slots are running
        "stopping"}  \* they are aborted, release() is due

Floor == -MaxDelay - 1

TypeOK ==
  /\ holder \in Workers \cup {NoRow, Ghost}
  /\ left \in Floor..ExpiresAfter
  /\ pc \in [Workers -> Pcs]
  /\ renewal \in [Workers -> {"off", "waiting", "renewing"}]
  /\ age \in [Workers -> 0..MaxDelay]
  /\ timer \in [Workers -> 0..(RenewEvery + MaxDelay)]
  /\ errors \in 0..MaxErrors
  /\ crashes \in 0..MaxCrashes

Init ==
  /\ holder = NoRow
  /\ left = 0
  /\ pc = [w \in Workers |-> "down"]
  /\ renewal = [w \in Workers |-> "off"]
  /\ age = [w \in Workers |-> 0]
  /\ timer = [w \in Workers |-> 0]
  /\ errors = 0
  /\ crashes = 0

-----------------------------------------------------------------------------
(* Booting: try_acquire *)

(* The process starts and reads the clock.                                 *)
Boot(w) ==
  /\ pc[w] = "down"
  /\ pc' = [pc EXCEPT ![w] = "insert"]
  /\ age' = [age EXCEPT ![w] = 0]
  /\ UNCHANGED <<holder, left, renewal, timer, errors, crashes>>

(* The worker is the leader: main starts everything, the renewal task too. *)
LeadMiscounted(w) ==
  /\ holder' = w
  /\ left' = ExpiresAfter + age[w]
  /\ pc' = [pc EXCEPT ![w] = "leading"]
  /\ renewal' = [renewal EXCEPT ![w] = "waiting"]
  /\ timer' = [timer EXCEPT ![w] = 0]
  /\ UNCHANGED <<age, errors, crashes>>
Lead(w) ==
  /\ holder' = w
  /\ left' = ExpiresAfter - age[w]
  /\ pc' = [pc EXCEPT ![w] = "leading"]
  /\ renewal' = [renewal EXCEPT ![w] = "waiting"]
  /\ timer' = [timer EXCEPT ![w] = 0]
  /\ UNCHANGED <<age, errors, crashes>>

(* INSERT OR IGNORE.                                                       *)
AcquireInsert(w) ==
  /\ pc[w] = "insert"
  /\ \/ /\ holder = NoRow
        /\ Lead(w)
     \/ /\ holder # NoRow
        /\ pc' = [pc EXCEPT ![w] = "update"]
        /\ UNCHANGED <<holder, left, renewal, age, timer, errors, crashes>>

(* The WHERE clause of the UPDATE: expires_at < now, with the now that was *)
(* read before, or the row is already this process's own.                  *)
ClaimableOwn(w) == holder = w
ClaimableEarly(w) == holder # NoRow /\ (left <= -age[w] \/ holder = w)
Claimable(w) == holder # NoRow /\ (left < -age[w] \/ holder = w)

(* The UPDATE; a worker that did not get the lease exits.                  *)
AcquireUpdate(w) ==
  /\ pc[w] = "update"
  /\ \/ /\ Claimable(w)
        /\ Lead(w)
     \/ /\ ~Claimable(w)
        /\ pc' = [pc EXCEPT ![w] = "down"]
        /\ UNCHANGED <<holder, left, renewal, age, timer, errors, crashes>>

-----------------------------------------------------------------------------
(* The renewal task *)

(* The interval ticks and renew reads the clock.                           *)
RenewStart(w) ==
  /\ renewal[w] = "waiting"
  /\ timer[w] >= RenewEvery
  /\ renewal' = [renewal EXCEPT ![w] = "renewing"]
  /\ age' = [age EXCEPT ![w] = 0]
  /\ UNCHANGED <<holder, left, pc, timer, errors, crashes>>

(* UPDATE ... WHERE holder = self, even if the lease has expired; no row   *)
(* updated means that the leadership is lost, and the task ends.           *)
Renew(w) ==
  /\ renewal[w] = "renewing"
  /\ left' = IF holder = w THEN ExpiresAfter - age[w] ELSE left
  /\ renewal' = [renewal EXCEPT ![w] = IF holder = w THEN "waiting" ELSE "off"]
  /\ timer' = [timer EXCEPT ![w] = IF holder = w THEN @ - RenewEvery ELSE 0]
  /\ UNCHANGED <<holder, pc, age, errors, crashes>>

(* A storage error also ends the task; main does not watch it.             *)
RenewErrorReleases(w) ==
  /\ renewal[w] = "renewing"
  /\ errors < MaxErrors
  /\ errors' = errors + 1
  /\ renewal' = [renewal EXCEPT ![w] = "off"]
  /\ timer' = [timer EXCEPT ![w] = 0]
  /\ holder' = IF holder = w THEN NoRow ELSE holder
  /\ UNCHANGED <<left, pc, age, crashes>>
RenewError(w) ==
  /\ renewal[w] = "renewing"
  /\ errors < MaxErrors
  /\ errors' = errors + 1
  /\ renewal' = [renewal EXCEPT ![w] = "off"]
  /\ timer' = [timer EXCEPT ![w] = 0]
  /\ UNCHANGED <<holder, left, pc, age, crashes>>

-----------------------------------------------------------------------------
(* Stopping *)

(* SIGTERM, the drain is over: sweep, purge and renewal are aborted.  (A   *)
(* renewal already waiting for the connection runs before the DELETE, which *)
(* undoes it, or finds no row.)                                             *)
Shutdown(w) ==
  /\ pc[w] = "leading"
  /\ pc' = [pc EXCEPT ![w] = "stopping"]
  /\ renewal' = [renewal EXCEPT ![w] = "off"]
  /\ timer' = [timer EXCEPT ![w] = 0]
  /\ UNCHANGED <<holder, left, age, errors, crashes>>

(* DELETE ... WHERE holder = self.                                         *)
Release(w) ==
  /\ pc[w] = "stopping"
  /\ pc' = [pc EXCEPT ![w] = "down"]
  /\ holder' = IF holder = w THEN NoRow ELSE holder
  /\ UNCHANGED <<left, renewal, age, timer, errors, crashes>>

(* The process is killed, or its release fails and it exits: what it wrote *)
(* stays in the table until it expires.                                    *)
Die(w) ==
  /\ pc[w] # "down"
  /\ crashes < MaxCrashes
  /\ crashes' = crashes + 1
  /\ pc' = [pc EXCEPT ![w] = "down"]
  /\ renewal' = [renewal EXCEPT ![w] = "off"]
  /\ timer' = [timer EXCEPT ![w] = 0]
  /\ holder' = IF holder = w THEN Ghost ELSE holder
  /\ UNCHANGED <<left, age, errors>>

-----------------------------------------------------------------------------
(* One unit of time passes.  A process is never late by more than MaxDelay *)
(* with a statement that is due.                                           *)
Clocked(w) == pc[w] \in {"insert", "update"} \/ renewal[w] = "renewing"

Tick ==
  /\ \A w \in Workers :
       /\ Clocked(w) => age[w] < MaxDelay
       /\ renewal[w] # "off" => timer[w] < RenewEvery + MaxDelay
  /\ left' = IF left > Floor THEN left - 1 ELSE left
  /\ age' = [w \in Workers |-> IF Clocked(w) THEN age[w] + 1 ELSE age[w]]
  /\ timer' = [w \in Workers |-> IF renewal[w] # "off" THEN timer[w] + 1 ELSE timer[w]]
  /\ UNCHANGED <<holder, pc, renewal, errors, crashes>>

Acquire(w) == AcquireInsert(w) \/ AcquireUpdate(w)
Renewal(w) == RenewStart(w) \/ Renew(w)

Next ==
  \/ \E w \in Workers : Boot(w) \/ Acquire(w) \/ Renewal(w) \/ RenewError(w)
                          \/ Shutdown(w) \/ Release(w) \/ Die(w)
  \/ Tick

Spec == Init /\ [][Next]_vars

(* Time passes, systemd restarts a worker that has stopped, and a statement *)
(* that is due is executed.  Nothing is assumed of stops, crashes, errors.  *)
Fairness ==
  /\ WF_vars(Tick)
  /\ \A w \in Workers :
       WF_vars(Boot(w)) /\ WF_vars(Acquire(w)) /\ WF_vars(Renewal(w)) /\ WF_vars(Release(w))

FairSpec == Spec /\ Fairness

-----------------------------------------------------------------------------
(* A worker whose renewal task is alive holds the row, and the lease has    *)
(* not expired, so that nobody may take it: one renewal always comes before *)
(* the lease of the last is over, however the clock readings, the two       *)
(* statements of try_acquire, late renewals, crashes, stops and the errors  *)
(* of other workers interleave.                                             *)
LeaseCoversLeader ==
  \A w \in Workers : renewal[w] # "off" => holder = w /\ left >= 0

(* The row of a living leader is not taken before it has expired, and is    *)
(* deleted by nobody but its holder, even when renewals fail.               *)
LeaseIsRespected ==
  [][\A w \in Workers :
       holder = w /\ left >= 0 /\ holder' # w => pc[w] # "down" /\ pc'[w] = "down"]_vars

(* main.rs: the process "holds the leadership lease -- so exactly one purge *)
(* runs at a time".  Two processes sweep, purge and run jobs at once only   *)
(* after a renewal has met a storage error, and one of them is then the     *)
(* process whose renewal task has ended and that nobody watches.            *)
OneActive ==
  \A v, w \in Workers :
    pc[v] = "leading" /\ pc[w] = "leading" /\ v # w
      => errors > 0 /\ (renewal[v] = "off" \/ renewal[w] = "off")

(* Leadership does not stay vacant: after a crash, a stop or a failed       *)
(* release, a restarted worker gets the lease in the end.                   *)
LeadershipIsFilled == []<>(\E w \in Workers : pc[w] = "leading")
=============================================================================

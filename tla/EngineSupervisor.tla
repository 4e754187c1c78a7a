-------------------------- MODULE EngineSupervisor --------------------------
(***************************************************************************)
(* The engine process and its llama-server child                            *)
(* (crates/gradatum-engine: supervisor.rs, bin/gradatum-engine.rs): the     *)
(* first start, the supervision loop with its restart budget, the shutdown  *)
(* call that shares the child's mutex with the loop, and systemd, which     *)
(* starts the process again after it exits with an error.                   *)
(*                                                                          *)
(* A child is loading, serving or dead and may die at any time.  Time is    *)
(* abstracted: a startup timeout may expire and the last readiness may      *)
(* become min_stable_uptime_secs old at any moment.  The length of the      *)
(* backoff is left out, the sleep is not.                                   *)
(***************************************************************************)
EXTENDS Naturals

CONSTANTS
  ChildRestartMax,  \* config child_restart_max
  WaitErrors        \* whether child.wait() may fail

ASSUME EngineAssumption == ChildRestartMax \in Nat /\ WaitErrors \in BOOLEAN

VARIABLES
  child,      \* the process behind the mutex: "none", "loading", "serving", "dead"
  fresh,      \* the one that spawn_child has started and not stored yet
  lock,       \* who holds the mutex across an await: "free", "loop", "shutdown"
  pc,         \* of main and then of supervise_loop
  booting,    \* main has not launched supervise_loop yet
  budget,     \* restart_budget
  lastReady,  \* last_ready_at: "none", "recent" or "old"
  health,     \* HealthState
  requested,  \* shutdown_requested
  stopper,    \* of shutdown(): "idle", "lock", "reap", "done"
  proven,     \* history: the child has been seen ready, and its death not judged yet
  lasted,     \* history: some readiness of this process has become old
  streak,     \* history: restarts since a child that had lasted died, capped
  unsure      \* history: wait() has failed on the child behind the mutex

mutex == <<child, fresh, lock>>
policy == <<budget, lastReady, health>>
ghosts == <<proven, lasted, streak, unsure>>
vars == <<mutex, pc, booting, policy, requested, stopper, ghosts>>

Alive == {"loading", "serving"}
Stopped == pc \in {"ended", "exited"}

TypeOK ==
  /\ child \in Alive \cup {"none", "dead"}
  /\ fresh \in Alive \cup {"none", "dead"}
  /\ lock \in {"free", "loop", "shutdown"}
  /\ pc \in {"spawn", "store", "poll", "top", "lock", "wait", "judge", "sleep",
             "ended", "exited"}
  /\ booting \in BOOLEAN
  /\ budget \in 0..ChildRestartMax
  /\ lastReady \in {"none", "recent", "old"}
  /\ health \in {"starting", "ready", "unhealthy"}
  /\ requested \in BOOLEAN
  /\ stopper \in {"idle", "lock", "reap", "done"}
  /\ proven \in BOOLEAN /\ lasted \in BOOLEAN /\ unsure \in BOOLEAN
  /\ streak \in 0..(ChildRestartMax + 1)

Init ==
  /\ child = "none" /\ fresh = "none" /\ lock = "free"
  /\ pc = "spawn" /\ booting = TRUE
  /\ budget = ChildRestartMax /\ lastReady = "none" /\ health = "starting"
  /\ requested = FALSE /\ stopper = "idle"
  /\ proven = FALSE /\ lasted = FALSE /\ streak = 0 /\ unsure = FALSE

-----------------------------------------------------------------------------
(* spawn_child: the process is started first and stored under the mutex     *)
(* afterwards, which drops (and kills) whatever was stored before.          *)
Spawn ==
  /\ pc = "spawn"
  /\ fresh' = "loading"
  /\ pc' = "store"
  /\ UNCHANGED <<child, lock, booting, policy, requested, stopper, ghosts>>

(* main gives up on an error, the loop tries again within its budget.       *)
SpawnFails ==
  /\ pc = "spawn"
  /\ pc' = IF booting THEN "exited" ELSE "top"
  /\ UNCHANGED <<mutex, booting, policy, requested, stopper, ghosts>>

Store ==
  /\ pc = "store"
  /\ lock = "free"
  /\ child' = fresh
  /\ fresh' = "none"
  /\ pc' = "poll"
  /\ proven' = FALSE /\ unsure' = FALSE
  /\ UNCHANGED <<lock, booting, policy, requested, stopper, lasted, streak>>

(* wait_ready: /health answers 200 ...                                      *)
PollReady ==
  /\ pc = "poll"
  /\ child = "serving"
  /\ health' = "ready"
  /\ lastReady' = "recent"
  /\ proven' = TRUE
  /\ booting' = FALSE
  /\ pc' = "top"
  /\ UNCHANGED <<mutex, budget, requested, stopper, lasted, streak, unsure>>

(* Mutant: a timeout is taken for the child's death.                       *)
PollKeepsNoWatch ==
  /\ pc = "poll"
  /\ booting' = FALSE
  /\ pc' = "judge"
  /\ UNCHANGED <<mutex, policy, requested, stopper, ghosts>>

(* Mutant: a restart that does not get ready is final.                     *)
PollTerminal ==
  /\ pc = "poll"
  /\ pc' = IF booting THEN "top" ELSE "exited"
  /\ booting' = FALSE
  /\ UNCHANGED <<mutex, policy, requested, stopper, ghosts>>

(* ... or StartupTimeout: the child died, or the deadline passed although   *)
(* it may be alive.  Only main reports it.  last_ready_at keeps its value.  *)
PollGivesUp ==
  /\ pc = "poll"
  /\ health' = IF booting THEN "unhealthy" ELSE health
  /\ booting' = FALSE
  /\ pc' = "top"
  /\ UNCHANGED <<mutex, budget, lastReady, requested, stopper, ghosts>>

-----------------------------------------------------------------------------
(* Mutant: the flag is not looked at.                                      *)
TopUnchecked ==
  /\ pc = "top"
  /\ pc' = "lock"
  /\ UNCHANGED <<mutex, booting, policy, requested, stopper, ghosts>>

(* supervise_loop: the check of the flag, the mutex, which is held for as   *)
(* long as the child lives, and the child's end.                            *)
Top ==
  /\ pc = "top"
  /\ pc' = IF requested THEN "ended" ELSE "lock"
  /\ UNCHANGED <<mutex, booting, policy, requested, stopper, ghosts>>

LockChild ==
  /\ pc = "lock"
  /\ lock = "free"
  /\ lock' = IF child = "none" THEN "free" ELSE "loop"
  /\ pc' = IF child = "none" THEN "ended" ELSE "wait"
  /\ UNCHANGED <<child, fresh, booting, policy, requested, stopper, ghosts>>

(* Mutant: the guard of the mutex outlives the wait.                       *)
ChildExitedHoldsLock ==
  /\ pc = "wait"
  /\ child = "dead"
  /\ pc' = IF requested THEN "ended" ELSE "judge"
  /\ UNCHANGED <<mutex, booting, policy, requested, stopper, ghosts>>

ChildExited ==
  /\ pc = "wait"
  /\ child = "dead"
  /\ lock' = "free"
  /\ pc' = IF requested THEN "ended" ELSE "judge"
  /\ unsure' = FALSE
  /\ UNCHANGED <<child, fresh, booting, policy, requested, stopper, proven, lasted, streak>>

(* wait() fails: logged, and judged like a death.                           *)
WaitFails ==
  /\ WaitErrors
  /\ pc = "wait"
  /\ lock' = "free"
  /\ pc' = IF requested THEN "ended" ELSE "judge"
  /\ unsure' = TRUE
  /\ UNCHANGED <<child, fresh, booting, policy, requested, stopper, proven, lasted, streak>>

(* Mutant: no check of an empty budget.                                    *)
JudgeNeverStops ==
  /\ pc = "judge"
  /\ pc' = "sleep"
  /\ budget' = (IF lastReady = "old" THEN ChildRestartMax ELSE budget) - 1
  /\ proven' = FALSE
  /\ UNCHANGED <<mutex, booting, lastReady, health, requested, stopper, lasted, streak, unsure>>

(* Mutant: no readiness at all counts as stable uptime.                    *)
JudgeUnseeded ==
  /\ pc = "judge"
  /\ pc' = "sleep"
  /\ budget' = IF lastReady = "recent" /\ budget > 0 THEN budget - 1 ELSE ChildRestartMax
  /\ streak' = IF streak > ChildRestartMax THEN streak ELSE streak + 1
  /\ proven' = FALSE
  /\ UNCHANGED <<mutex, booting, lastReady, health, requested, stopper, lasted, unsure>>

(* The restart policy: a last readiness that is old enough refills the      *)
(* budget; an empty budget ends the process.                                *)
Judge ==
  LET left == IF lastReady = "old" THEN ChildRestartMax ELSE budget
      deserved == lastReady = "old" /\ proven
      streakNow == IF deserved THEN 0 ELSE streak
  IN /\ pc = "judge"
     /\ IF left = 0
          THEN /\ pc' = "exited"
               /\ health' = "unhealthy"
               /\ budget' = left
               /\ streak' = streakNow
          ELSE /\ pc' = "sleep"
               /\ budget' = left - 1
               /\ streak' = IF streakNow > ChildRestartMax THEN streakNow ELSE streakNow + 1
               /\ UNCHANGED health
     /\ proven' = FALSE
     /\ UNCHANGED <<mutex, booting, lastReady, requested, stopper, lasted, unsure>>

(* The backoff is over.                                                     *)
Wake ==
  /\ pc = "sleep"
  /\ pc' = IF requested THEN "ended" ELSE "spawn"
  /\ UNCHANGED <<mutex, booting, policy, requested, stopper, ghosts>>

-----------------------------------------------------------------------------
(* shutdown(): the flag, the mutex, SIGTERM, after the grace period SIGKILL,*)
(* and the child is gone.                                                   *)
RequestShutdown ==
  /\ ~booting /\ pc # "exited"
  /\ stopper = "idle"
  /\ requested' = TRUE
  /\ stopper' = "lock"
  /\ UNCHANGED <<mutex, pc, booting, policy, ghosts>>

ShutdownLock ==
  /\ stopper = "lock" /\ pc # "exited"
  /\ lock = "free"
  /\ lock' = IF child = "none" THEN "free" ELSE "shutdown"
  /\ stopper' = IF child = "none" THEN "done" ELSE "reap"
  /\ UNCHANGED <<child, fresh, pc, booting, policy, requested, ghosts>>

ShutdownReap ==
  /\ stopper = "reap" /\ pc # "exited"
  /\ child' = "none"
  /\ lock' = "free"
  /\ stopper' = "done"
  /\ UNCHANGED <<fresh, pc, booting, policy, requested, ghosts>>

-----------------------------------------------------------------------------
(* The child, the clock and systemd *)

Lives(p, q) ==
  \/ p = "loading" /\ q = "serving"
  \/ p \in Alive /\ q = "dead"

ChildMoves ==
  /\ pc # "exited"
  /\ \/ Lives(child, child') /\ UNCHANGED fresh
     \/ Lives(fresh, fresh') /\ UNCHANGED child
  /\ UNCHANGED <<lock, pc, booting, policy, requested, stopper, ghosts>>

(* min_stable_uptime_secs have passed since last_ready_at.                  *)
BecomesOld ==
  /\ lastReady = "recent"
  /\ lastReady' = "old"
  /\ lasted' = TRUE
  /\ UNCHANGED <<mutex, pc, booting, budget, health, requested, stopper, proven, streak, unsure>>

(* Restart=on-failure: a new process; the cgroup has taken the child along. *)
SystemdRestart ==
  /\ pc = "exited"
  /\ child' = "none" /\ fresh' = "none" /\ lock' = "free"
  /\ pc' = "spawn" /\ booting' = TRUE
  /\ budget' = ChildRestartMax /\ lastReady' = "none" /\ health' = "starting"
  /\ requested' = FALSE /\ stopper' = "idle"
  /\ proven' = FALSE /\ lasted' = FALSE /\ streak' = 0 /\ unsure' = FALSE

LoopStep ==
  \/ Spawn \/ SpawnFails \/ Store \/ PollReady \/ PollGivesUp
  \/ Top \/ LockChild \/ ChildExited \/ Judge \/ Wake

Next ==
  \/ LoopStep \/ WaitFails
  \/ RequestShutdown \/ ShutdownLock \/ ShutdownReap
  \/ ChildMoves \/ BecomesOld \/ SystemdRestart

Spec == Init /\ [][Next]_vars

(* The loop and a shutdown that has begun go on: every poll has a deadline, *)
(* every sleep ends, SIGKILL is certain.  Nothing is assumed of the child,  *)
(* of the clock, of systemd, or of which way a spawn or a poll goes.        *)
FairSpec ==
  /\ Spec
  /\ WF_vars(LoopStep)
  /\ WF_vars(ShutdownReap)

-----------------------------------------------------------------------------
(* A llama-server is never started while another one of this engine lives,  *)
(* unless wait() itself has failed on that one: two would compete for the   *)
(* port and for the memory of the GPU.  A startup timeout does not mean     *)
(* that the child is dead, and a shutdown may be killing it meanwhile.      *)
OneChild == fresh \in Alive /\ child \in Alive => unsure

(* A child that flaps (no readiness has lasted) is restarted at most        *)
(* child_restart_max times, however its failures mix crashes, timeouts and  *)
(* refused spawns.                                                          *)
FlappingIsBounded == ~lasted => streak <= ChildRestartMax

(* The supervisor does not give up early either: past the first start it    *)
(* exits only once the whole budget has been consumed.                      *)
GivesUpWhenSpent == pc = "exited" /\ ~booting => streak >= ChildRestartMax

(* An engine that has never been ready is not left with a dead child: the   *)
(* child is replaced, or the process stops and systemd takes over.          *)
DeadChildIsReplaced ==
  (child = "dead" /\ lastReady = "none") ~> (child # "dead" \/ Stopped)

(* Whatever the loop is doing when shutdown is requested (sleeping before a *)
(* restart, starting a child, polling it, waiting for one that is dead), it *)
(* ends.  Two things it does not promise: a loop in child.wait(), or about  *)
(* to be, keeps the mutex from shutdown() for as long as its child lives;   *)
(* and a child that was being started is stored all the same, after         *)
(* shutdown() has returned if it found no child.                            *)
ShutdownEndsLoop ==
  (requested /\ ~(pc \in {"lock", "wait"} /\ child \in Alive)) ~> Stopped

(* supervise_loop's documentation: child_restart_max is a "total budget",   *)
(* reset "ONLY if the child was stable" before the crash.  So there are at  *)
(* most that many restarts between two deaths of children that had lasted.  *)
RestartsAreBounded == streak <= ChildRestartMax
=============================================================================

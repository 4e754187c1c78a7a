---------------------------- MODULE NoteArchive ----------------------------
(***************************************************************************)
(* The end of a note's life: delete (move to .archive/), restore, retention *)
(* GC, purge of an archive and physical destruction, as sequences of file   *)
(* and database steps with no transaction around them, any of which may     *)
(* fail or be the last one before a crash (crates/gradatum-vault/src/       *)
(* lifecycle.rs, driven by gradatum-server: api_v1/delete.rs,               *)
(* internal/persist.rs, internal/admin.rs).                                 *)
(*                                                                          *)
(* One note.  A file is present or absent; what it says is module           *)
(* NoteVault.  Refusals that touch nothing (protected section, missing      *)
(* confirmation, tombstone not written) are left out.                       *)
(***************************************************************************)
EXTENDS Naturals, FiniteSets

CONSTANTS
  Procs,         \* calls in the server process
  Gc,            \* the interval task that runs the retention GC
  NoRow,         \* no active row in archive_index
  MaxInFlight,   \* how many of them may overlap
  MaxOps,        \* bound on calls, GC runs not counted; also on archives
  MaxFaults,     \* bound on I/O and SQL errors
  MaxCrashes

ASSUME NoteArchiveAssumption ==
  /\ Gc \notin Procs
  /\ IsFiniteSet(Procs)
  /\ {MaxInFlight, MaxOps, MaxFaults, MaxCrashes} \subseteq Nat

Tasks == Procs \cup {Gc}

(* Path 0 mirrors the note's path; a collision gets a fresh suffix.         *)
Paths == 0..MaxOps

VARIABLES
  md,          \* the .md is in the vault
  row,         \* index row: "none", "live" or "pending" (quarantine)
  vaultHist,   \* the vault has snapshots in .history/<id>/
  files,       \* archived .md files, by path
  archHist,    \* .archive/<tenant>/.history/<id>/ has snapshots
  active,      \* the active row of archive_index: NoRow or [path, due]
  call,        \* [Tasks -> [pc, path]]
  suffix,      \* the last suffix given out
  ops, faults, crashes,
  erased,      \* history: the last copy was destroyed on request
  condemned,   \* history: paths that a purge or the GC has erased
  crossed      \* history: a delete and a call that is to remove an archived
               \* file have held the same path at once

vault == <<md, row, vaultHist>>
archive == <<files, archHist, active>>
counters == <<suffix, ops, faults, crashes>>
ghosts == <<erased, condemned, crossed>>
vars == <<vault, archive, call, counters, ghosts>>

Pcs == {"idle",
        "writeFile", "writeIndex",                                 \* write
        "lookup", "resolve", "copy", "remove", "history",          \* delete
        "register", "deindex",
        "destroy", "destroyHist",                                  \* destroy
        "check", "restoreFile", "restoreIndex", "restoreMark",     \* restore
        "restoreClean", "restoreHist",
        "select", "eraseFile", "eraseHist", "eraseMark"}           \* purge, GC

TypeOK ==
  /\ {md, vaultHist, archHist, erased, crossed} \subseteq BOOLEAN
  /\ row \in {"none", "live", "pending"}
  /\ files \subseteq Paths /\ condemned \subseteq Paths
  /\ active \in [path : Paths, due : BOOLEAN] \cup {NoRow}
  /\ call \in [Tasks -> [pc : Pcs, path : Paths]]
  /\ suffix \in 0..MaxOps
  /\ ops \in 0..MaxOps
  /\ faults \in 0..MaxFaults
  /\ crashes \in 0..MaxCrashes

(* A note that has been written and updated.                                *)
Init ==
  /\ md = TRUE /\ row = "live" /\ vaultHist = TRUE
  /\ files = {} /\ archHist = FALSE /\ active = NoRow
  /\ call = [p \in Tasks |-> [pc |-> "idle", path |-> 0]]
  /\ suffix = 0 /\ ops = 0 /\ faults = 0 /\ crashes = 0
  /\ erased = FALSE /\ condemned = {} /\ crossed = FALSE

-----------------------------------------------------------------------------

At(p, pc) == call[p].pc = pc
Goto(p, pc) == call' = [call EXCEPT ![p].pc = pc]
GotoWith(p, pc, path) == call' = [call EXCEPT ![p] = [pc |-> pc, path |-> path]]
Return(p) == Goto(p, "idle")

Fault ==
  /\ faults < MaxFaults
  /\ faults' = faults + 1
  /\ UNCHANGED <<suffix, ops, crashes>>

CanStart(p) ==
  /\ At(p, "idle")
  /\ Cardinality({q \in Tasks : ~At(q, "idle")}) < MaxInFlight

(* Calls on their way to put a file at their path, to remove the one there, *)
(* and, of these, restores that have put the note back already.             *)
Depositing == {"copy", "remove", "history", "register"}
Removing == {"restoreFile", "restoreIndex", "restoreMark", "restoreClean", "eraseFile"}
Crosses(p, path, pcs) == \E q \in Tasks \ {p} : call[q].pc \in pcs /\ call[q].path = path
Doomed == {call[q].path : q \in {r \in Tasks :
             call[r].pc \in {"restoreIndex", "restoreMark", "restoreClean"}}}

(* Storage::delete of the .md: backends differ on a missing file.           *)
DeleteGoesTo(next) == IF md THEN {next} ELSE {next, "idle"}

(* Curate persist (write), vault_delete (lookup), the worker's purge of     *)
(* garbage (destroy), admin restore (check), admin purge (select).          *)
Start(p, pc) ==
  /\ CanStart(p)
  /\ ops < MaxOps
  /\ ops' = ops + 1
  /\ Goto(p, pc)
  /\ UNCHANGED <<vault, archive, suffix, faults, crashes, ghosts>>

(* The interval task: select_gc_due_archives finds an expired active row.   *)
GcStart ==
  /\ CanStart(Gc)
  /\ active # NoRow /\ active.due
  /\ GotoWith(Gc, "eraseFile", active.path)
  /\ crossed' = (crossed \/ Crosses(Gc, active.path, Depositing))
  /\ UNCHANGED <<vault, archive, counters, erased, condemned>>

(* A fatal I/O or SQL error: the call returns it, the step has no effect.   *)
Fatal == {"writeFile", "writeIndex", "lookup", "resolve", "copy", "remove", "register",
          "deindex", "destroy", "check", "restoreFile", "restoreIndex", "restoreMark",
          "select", "eraseMark"}
Fails(p) ==
  /\ call[p].pc \in Fatal
  /\ Fault
  /\ Return(p)
  /\ UNCHANGED <<vault, archive, ghosts>>

(* A best-effort step that fails is logged and the call goes on.            *)
AfterBestEffort == [history |-> "register", destroyHist |-> "deindex",
                    restoreClean |-> "restoreHist", restoreHist |-> "idle",
                    eraseFile |-> "eraseHist", eraseHist |-> "eraseMark"]
Skips(p) ==
  /\ call[p].pc \in DOMAIN AfterBestEffort
  /\ Fault
  /\ Goto(p, AfterBestEffort[call[p].pc])
  /\ UNCHANGED <<vault, archive, ghosts>>

-----------------------------------------------------------------------------
(* write_note_judged: the .md (over an indexed one, with a snapshot) and    *)
(* the row.  The index upsert makes the note live, or pending on a restore. *)

PutFile ==
  /\ vaultHist' = (vaultHist \/ (md /\ row # "none"))
  /\ md' = TRUE
  /\ erased' = FALSE

WriteFile(p) ==
  /\ At(p, "writeFile")
  /\ PutFile
  /\ Goto(p, "writeIndex")
  /\ UNCHANGED <<row, archive, counters, condemned, crossed>>

WriteIndex(p) ==
  /\ At(p, "writeIndex")
  /\ row' = "live"
  /\ Return(p)
  /\ UNCHANGED <<md, vaultHist, archive, counters, ghosts>>

-----------------------------------------------------------------------------
(* vault_delete: a note that is not in the index is a no-op ...             *)
DeleteLookup(p) ==
  /\ At(p, "lookup")
  /\ Goto(p, IF row = "none" THEN "idle" ELSE "resolve")
  /\ UNCHANGED <<vault, archive, counters, ghosts>>

(* ... archive_note_in resolves it once more (gone by now: the index is     *)
(* purged as drift) and picks the destination: the mirror path, if no file  *)
(* is there or it cannot be told whether one is ...                         *)
ArchiveTo(p, path) ==
  /\ GotoWith(p, "copy", path)
  /\ crossed' = (crossed \/ Crosses(p, path, Removing))

ArchiveResolve(p) ==
  /\ At(p, "resolve")
  /\ IF row = "none"
       THEN Goto(p, "deindex") /\ UNCHANGED <<suffix, crossed>>
       ELSE /\ suffix' = IF 0 \in files THEN suffix + 1 ELSE suffix
            /\ ArchiveTo(p, IF 0 \in files THEN suffix + 1 ELSE 0)
  /\ UNCHANGED <<vault, archive, ops, faults, crashes, erased, condemned>>

ArchiveResolveBlind(p) ==
  /\ At(p, "resolve")
  /\ row # "none"
  /\ Fault
  /\ ArchiveTo(p, 0)
  /\ UNCHANGED <<vault, archive, erased, condemned>>

(* ... move_file copies (a missing .md is an error) and then deletes ...    *)
(* Mutant: the result of the write to the archive is not looked at.        *)
ArchiveCopyUnchecked(p) ==
  /\ At(p, "copy")
  /\ IF md THEN Goto(p, "remove") ELSE Return(p)
  /\ \/ files' = files \cup {call[p].path} /\ condemned' = condemned \ {call[p].path} /\ UNCHANGED faults
     \/ faults < MaxFaults /\ faults' = faults + 1 /\ UNCHANGED <<files, condemned>>
  /\ UNCHANGED <<vault, archHist, active, suffix, ops, crashes, erased, crossed>>

ArchiveCopy(p) ==
  /\ At(p, "copy")
  /\ IF md
       THEN /\ files' = files \cup {call[p].path}
            /\ condemned' = condemned \ {call[p].path}
            /\ Goto(p, "remove")
       ELSE /\ Return(p)
            /\ UNCHANGED <<files, condemned>>
  /\ UNCHANGED <<vault, archHist, active, counters, erased, crossed>>

ArchiveRemove(p) ==
  /\ At(p, "remove")
  /\ md' = FALSE
  /\ \E next \in DeleteGoesTo("history") : Goto(p, next)
  /\ UNCHANGED <<row, vaultHist, archive, counters, ghosts>>

ArchiveHistory(p) ==
  /\ At(p, "history")
  /\ archHist' = (archHist \/ vaultHist)
  /\ vaultHist' = FALSE
  /\ Goto(p, "register")
  /\ UNCHANGED <<md, row, files, active, counters, ghosts>>

(* ... insert_archive_entry admits one active row per note ...              *)
ArchiveRegister(p) ==
  /\ At(p, "register")
  /\ active' = IF active = NoRow THEN [path |-> call[p].path, due |-> FALSE] ELSE active
  /\ Goto(p, IF active = NoRow THEN "deindex" ELSE "idle")
  /\ UNCHANGED <<vault, files, archHist, counters, ghosts>>

(* ... and the cascade removes the row of the index.                        *)
Deindex(p) ==
  /\ At(p, "deindex")
  /\ row' = "none"
  /\ Return(p)
  /\ UNCHANGED <<md, vaultHist, archive, counters, ghosts>>

-----------------------------------------------------------------------------
(* delete_note_in, for the worker's purge of garbage notes.                 *)
Destroy(p) ==
  /\ At(p, "destroy")
  /\ IF row = "none"
       THEN Return(p) /\ UNCHANGED <<md, erased>>
       ELSE /\ md' = FALSE
            /\ erased' = (erased \/ files \subseteq Doomed)
            /\ \E next \in DeleteGoesTo("destroyHist") : Goto(p, next)
  /\ UNCHANGED <<row, vaultHist, archive, counters, condemned, crossed>>

DestroyHistory(p) ==
  /\ At(p, "destroyHist")
  /\ vaultHist' = FALSE
  /\ Goto(p, "deindex")
  /\ UNCHANGED <<md, row, archive, counters, ghosts>>

-----------------------------------------------------------------------------
(* restore_archive: no active row is a 404, an indexed note a 409, a        *)
(* missing file an error ...                                                *)
RestoreCheck(p) ==
  /\ At(p, "check")
  /\ IF active # NoRow /\ row = "none" /\ active.path \in files
       THEN /\ GotoWith(p, "restoreFile", active.path)
            /\ crossed' = (crossed \/ Crosses(p, active.path, Depositing))
       ELSE Return(p) /\ UNCHANGED crossed
  /\ UNCHANGED <<vault, archive, counters, erased, condemned>>

(* ... then the write path, into quarantine ...                             *)
RestoreFile(p) ==
  /\ At(p, "restoreFile")
  /\ PutFile
  /\ Goto(p, "restoreIndex")
  /\ UNCHANGED <<row, archive, counters, condemned, crossed>>

(* Mutant: the restored note keeps the name of its transition as status.   *)
RestoreIndexUntyped(p) ==
  /\ At(p, "restoreIndex")
  /\ row' = "restored"
  /\ Goto(p, "restoreMark")
  /\ UNCHANGED <<md, vaultHist, archive, counters, ghosts>>

(* Mutant: the archived file goes before the registry is marked.           *)
RestoreIndexCleans(p) ==
  /\ At(p, "restoreIndex")
  /\ row' = "pending"
  /\ files' = files \ {call[p].path}
  /\ Goto(p, "restoreMark")
  /\ UNCHANGED <<md, vaultHist, archHist, active, counters, ghosts>>

RestoreIndex(p) ==
  /\ At(p, "restoreIndex")
  /\ row' = "pending"
  /\ Goto(p, "restoreMark")
  /\ UNCHANGED <<md, vaultHist, archive, counters, ghosts>>

(* ... the registry, and only then the archived file and history.           *)
RestoreMark(p) ==
  /\ At(p, "restoreMark")
  /\ active' = NoRow
  /\ Goto(p, "restoreClean")
  /\ UNCHANGED <<vault, files, archHist, counters, ghosts>>

RestoreClean(p) ==
  /\ At(p, "restoreClean")
  /\ files' = files \ {call[p].path}
  /\ Goto(p, "restoreHist")
  /\ UNCHANGED <<vault, archHist, active, counters, ghosts>>

RestoreHistory(p) ==
  /\ At(p, "restoreHist")
  /\ vaultHist' = (vaultHist \/ archHist)
  /\ archHist' = FALSE
  /\ Return(p)
  /\ UNCHANGED <<md, row, files, active, counters, ghosts>>

-----------------------------------------------------------------------------
(* purge_archive: the active row, if there is one, due or not; then, as in  *)
(* run_archive_gc, the archived .md (a missing one is tolerated), the       *)
(* archived history and the mark.                                           *)
PurgeSelect(p) ==
  /\ At(p, "select")
  /\ IF active = NoRow
       THEN Return(p) /\ UNCHANGED crossed
       ELSE /\ GotoWith(p, "eraseFile", active.path)
            /\ crossed' = (crossed \/ Crosses(p, active.path, Depositing))
  /\ UNCHANGED <<vault, archive, counters, erased, condemned>>

(* Mutant: a missing archived file ends the purge of that entry.           *)
EraseFileStrict(p) ==
  /\ At(p, "eraseFile")
  /\ files' = files \ {call[p].path}
  /\ condemned' = condemned \cup {call[p].path}
  /\ erased' = (erased \/ (~md /\ files' \subseteq Doomed))
  /\ Goto(p, IF call[p].path \in files THEN "eraseHist" ELSE "idle")
  /\ UNCHANGED <<vault, archHist, active, counters, crossed>>

EraseFile(p) ==
  /\ At(p, "eraseFile")
  /\ files' = files \ {call[p].path}
  /\ condemned' = condemned \cup {call[p].path}
  /\ erased' = (erased \/ (~md /\ files' \subseteq Doomed))
  /\ Goto(p, "eraseHist")
  /\ UNCHANGED <<vault, archHist, active, counters, crossed>>

EraseHistory(p) ==
  /\ At(p, "eraseHist")
  /\ archHist' = FALSE
  /\ Goto(p, "eraseMark")
  /\ UNCHANGED <<vault, files, active, counters, ghosts>>

(* mark_archive_gc: whatever row of the note is active now.                 *)
EraseMark(p) ==
  /\ At(p, "eraseMark")
  /\ active' = NoRow
  /\ Return(p)
  /\ UNCHANGED <<vault, files, archHist, counters, ghosts>>

-----------------------------------------------------------------------------
(* gc_due passes.                                                           *)
Expire ==
  /\ active # NoRow /\ ~active.due
  /\ active' = [active EXCEPT !.due = TRUE]
  /\ UNCHANGED <<vault, files, archHist, call, counters, ghosts>>

Crash ==
  /\ crashes < MaxCrashes
  /\ crashes' = crashes + 1
  /\ \E p \in Tasks : ~At(p, "idle")
  /\ call' = [p \in Tasks |-> [pc |-> "idle", path |-> 0]]
  /\ UNCHANGED <<vault, archive, suffix, ops, faults, ghosts>>

CallStep(p) ==
  \/ WriteFile(p) \/ WriteIndex(p)
  \/ DeleteLookup(p) \/ ArchiveResolve(p) \/ ArchiveCopy(p) \/ ArchiveRemove(p)
  \/ ArchiveHistory(p) \/ ArchiveRegister(p) \/ Deindex(p)
  \/ Destroy(p) \/ DestroyHistory(p)
  \/ RestoreCheck(p) \/ RestoreFile(p) \/ RestoreIndex(p) \/ RestoreMark(p)
  \/ RestoreClean(p) \/ RestoreHistory(p)
  \/ PurgeSelect(p) \/ EraseFile(p) \/ EraseHistory(p) \/ EraseMark(p)

Next ==
  \/ \E p \in Procs, pc \in {"writeFile", "lookup", "destroy", "check", "select"} : Start(p, pc)
  \/ GcStart
  \/ \E p \in Tasks : CallStep(p) \/ ArchiveResolveBlind(p) \/ Fails(p) \/ Skips(p)
  \/ Expire
  \/ Crash

Spec == Init /\ [][Next]_vars

(* A call that runs goes on, and the interval task of the GC comes round.   *)
(* Nothing is assumed of callers, of time, of faults or of crashes.         *)
FairSpec ==
  /\ Spec
  /\ \A p \in Tasks : WF_vars(CallStep(p))
  /\ WF_vars(GcStart)

-----------------------------------------------------------------------------
Quiet == \A p \in Tasks : At(p, "idle")

(* The note is not lost by accident: until its last copy is destroyed on    *)
(* request or past its retention, the vault or the archive has its .md,     *)
(* wherever a delete or a restore fails or crashes, whatever is retried and *)
(* however calls overlap.  One thing can lose it: a delete whose copy goes  *)
(* to a path that an overlapping restore, purge or GC is about to clear.    *)
NoteSurvives == crossed \/ erased \/ md \/ files # {}

(* An active row of the registry leads to a file, so that a restore finds   *)
(* it, unless a purge or the GC has erased that very archive and failed or  *)
(* crashed before the mark, or a delete and a removal have crossed.         *)
RegistryIsTruthful ==
  active # NoRow => crossed \/ active.path \in files \cup condemned

(* Retention ends in the registry: an expired row does not stay active,     *)
(* even when a crash came between the removal of its file and the mark.     *)
(* It says nothing of the file: one that could not be removed stays, and    *)
(* with gc_at set nothing comes back to it.                                 *)
ExpiredIsReconciled ==
  (active # NoRow /\ active.due) ~> (active = NoRow \/ ~active.due)

(* persist.rs on a crash between the archiving and the removal of the index *)
(* row: the note is "recuperable via `restore` (lit `archive_path`)".  So,   *)
(* once nothing runs, an archive whose note is gone from the vault can be   *)
(* restored: no index row stands in its way.                                *)
ArchiveIsRestorable ==
  Quiet /\ ~md /\ active # NoRow /\ active.path \in files => row = "none"
=============================================================================

----------------------------- MODULE NoteVault -----------------------------
(***************************************************************************)
(* The write and read paths of one note (crates/gradatum-vault): writers    *)
(* replace the note through write_if_match or the unconditional write, edit *)
(* its front matter, the privacy sweep rewrites it, readers go through the  *)
(* cache, and the server process crashes and restarts.  A write is a        *)
(* sequence of separate I/O steps with no lock and no transaction around    *)
(* them, and writes of the same note overlap (write.rs says so):            *)
(*    compare   read_note, when the caller gave an expected hash            *)
(*    judge     the privacy pass and the read-before-write                  *)
(*    snapshot  the decision: a copy in .history/, none, or the purge       *)
(*    copy      the copy is being written                                   *)
(*    list      the retention of .history/: which snapshots are too many    *)
(*    delete    one snapshot after the other, for retention or purge        *)
(*    file      the .md is about to be written                              *)
(*    write     ... is being written                                        *)
(*    index     the row of the index                                        *)
(* Files are written in place: from the truncation to the last byte, and    *)
(* for good after a crash or an error in between, the file is Torn, which   *)
(* stands for a note that does not parse.                                   *)
(* A version is a stamp (the `updated` field, which makes every content     *)
(* hash different) and a meaning (the body, which sha256_for_history hashes *)
(* together with the front matter).                                         *)
(* The index row and the cache entry stand for the version whose hash they  *)
(* hold.                                                                    *)
(*                                                                          *)
(* Left out: the drift checksums, the locus of the file (one path), the     *)
(* retention by age (history.ttl_days, which is off by default), and        *)
(* deletion, which is module NoteArchive.                                   *)
(***************************************************************************)
EXTENDS Naturals, FiniteSets

CONSTANTS
  Writers, Readers,   \* calls in the server process
  Bodies,             \* meanings that callers submit
  Secret,             \* the one that contains personal data
  Masked,             \* what masking makes of Secret
  None,               \* no version
  Torn,               \* a file that is only half written
  MaxHistory,         \* config history.max_versions (at least 1)
  MaxInFlight,        \* how many writes may overlap
  MaxWrites,          \* bound on the versions written
  MaxFaults,          \* bound on I/O errors
  MaxRestarts         \* bound on crashes

Stamps == 1..MaxWrites
Versions == [n : Stamps, meaning : Bodies \cup {Masked}]

ASSUME NoteVaultAssumption ==
  /\ Secret \in Bodies
  /\ Masked \notin Bodies
  /\ IsFiniteSet(Writers)
  /\ {None, Torn} \cap Versions = {} /\ None # Torn
  /\ MaxHistory \in Nat \ {0}
  /\ {MaxInFlight, MaxWrites, MaxFaults, MaxRestarts} \subseteq Nat

VARIABLES
  md,         \* the file: a version, None or Torn
  row,        \* the index row: a version or None
  history,    \* [Stamps -> Versions \cup {None, Torn}]: .history/<id>/<stamp>.md
  cache,      \* the entry of EffectiveNoteCache
  mode,       \* privacy policy of the process: "report" or "mask"
  writer,     \* [Writers -> Calls]
  reader,     \* [Readers -> Reads], floor being superseded when the read began
  stamp,      \* the last stamp given out
  faults, restarts,
  acked,      \* history: the versions whose write was answered Written
  superseded, \* history: the stamps whose writes ended before an answered write began
  hidden,     \* history: the last answered masking write
  won,        \* history: [Stamps -> Nat], answered conditional writes per base
  waived,     \* history: versions the write path decided not to keep
  residue     \* history: clear copies that a purge could not remove or that a
              \* write took while another one was under way

disk == <<md, row, history>>
ghosts == <<acked, superseded, hidden, won, waived, residue>>
vars == <<disk, cache, mode, writer, reader, stamp, faults, restarts, ghosts>>

(* doomed: the snapshots the call is going to delete; before (history): the *)
(* stamps of the writes that had ended when the call began.                 *)
Idle == [pc |-> "idle", expected |-> None, meaning |-> Masked, prev |-> None,
         new |-> None, masked |-> FALSE, edit |-> FALSE, got |-> None,
         doomed |-> {}, before |-> {}]
Points == {"idle", "compare", "judge", "snapshot", "copy", "list", "delete", "file",
           "write", "index"}
Calls == [pc : Points, expected : Versions \cup {None}, meaning : Bodies \cup {Masked},
          prev : Versions \cup {None}, new : Versions \cup {None}, masked : BOOLEAN,
          edit : BOOLEAN, got : Versions \cup {None, Torn},
          doomed : SUBSET Stamps, before : SUBSET Stamps]

NoRead == [pc |-> "idle", got |-> None, floor |-> {}]
Reads == [pc : {"idle", "load", "insert"}, got : Versions \cup {None},
          floor : SUBSET Stamps]

TypeOK ==
  /\ md \in Versions \cup {None, Torn}
  /\ row \in Versions \cup {None}
  /\ history \in [Stamps -> Versions \cup {None, Torn}]
  /\ cache \in Versions \cup {None}
  /\ mode \in {"report", "mask"}
  /\ writer \in [Writers -> Calls]
  /\ reader \in [Readers -> Reads]
  /\ stamp \in 0..MaxWrites
  /\ faults \in 0..MaxFaults
  /\ restarts \in 0..MaxRestarts
  /\ acked \subseteq Versions
  /\ superseded \subseteq Stamps
  /\ hidden \in 0..MaxWrites
  /\ won \in [Stamps -> Nat]
  /\ waived \subseteq Versions
  /\ residue \subseteq Versions

Init ==
  /\ md = None /\ row = None /\ cache = None
  /\ history = [i \in Stamps |-> None]
  /\ mode \in {"report", "mask"}
  /\ writer = [w \in Writers |-> Idle]
  /\ reader = [r \in Readers |-> NoRead]
  /\ stamp = 0 /\ faults = 0 /\ restarts = 0
  /\ acked = {} /\ superseded = {} /\ hidden = 0
  /\ won = [i \in Stamps |-> 0] /\ waived = {} /\ residue = {}

-----------------------------------------------------------------------------
(* Helpers *)

Whole(S) == S \ {None, Torn}
Stored == Whole({history[i] : i \in Stamps})
OnDisk == Stored \cup Whole({md})
Clear(S) == {v \in S : v.meaning = Secret}

InFlight == {w \in Writers : writer[w].pc # "idle"}
StampOf(w) == {writer[w].new.n : v \in {writer[w].new} \ {None}}

(* A write that is not alone: since it began, another one has taken a stamp *)
(* or was under way already.                                                *)
Overlaps(w) ==
  writer[w].pc # "idle" /\ ~((1..stamp) \subseteq writer[w].before \cup StampOf(w))

Fault == faults < MaxFaults /\ faults' = faults + 1

(* apply_history_trim without a TTL: all but the newest MaxHistory.         *)
Newer(i) == {k \in Stamps : k > i /\ history[k] # None}
Excess == {i \in Stamps : history[i] # None /\ Cardinality(Newer(i)) >= MaxHistory}

(* EffectiveNoteCache::get: the entry is served if the index row has its    *)
(* hash and dropped if it has another one.  A missing row makes the whole   *)
(* read answer NoteNotFound.                                                *)

(* Mutant: the entry is served without a look at the index.                *)
CacheHitUnvalidated == cache # None
CacheHit == cache # None /\ row # None /\ cache = row
ValidatorFails == cache # None /\ row = None

(* read_note_in: through the index row to the file.                         *)
NoteIsThere == row # None /\ md # None

-----------------------------------------------------------------------------
(* Writers *)

Enter(w, call) ==
  /\ writer[w].pc = "idle"
  /\ Cardinality(InFlight) < MaxInFlight
  /\ stamp < MaxWrites
  /\ writer' = [writer EXCEPT ![w] =
       [call EXCEPT !.before = (1..stamp) \ UNION {StampOf(x) : x \in InFlight}]]

Begin(w, call) ==
  /\ Enter(w, call)
  /\ UNCHANGED <<disk, cache, mode, reader, stamp, faults, restarts, ghosts>>

(* write_note_with_id, or write_if_match with no expected hash.             *)
WriteBegin(w, b) ==
  Begin(w, [Idle EXCEPT !.pc = "judge", !.meaning = b])

(* write_if_match with the hash of a version the caller once saw written.   *)
WriteIfMatchBegin(w, b, v) ==
  Begin(w, [Idle EXCEPT !.pc = "compare", !.meaning = b, !.expected = v])

(* rescan_privacy_in: the sweep writes back the body it has read.           *)
RescanBegin(w) ==
  /\ NoteIsThere /\ md # Torn
  /\ Begin(w, [Idle EXCEPT !.pc = "judge", !.meaning = md.meaning])

(* update_status and add_tags: read_note, then the same body goes back with *)
(* another front matter.  Not found, unreadable, nothing to change or a     *)
(* forbidden transition: the call ends there.                               *)
EditBegin(w) ==
  /\ CacheHit \/ (~ValidatorFails /\ NoteIsThere /\ md # Torn)
  /\ LET base == IF CacheHit THEN cache ELSE md
     IN /\ cache' = base
        /\ Enter(w, [Idle EXCEPT !.pc = "judge", !.meaning = base.meaning,
                                 !.expected = base, !.edit = TRUE])
  /\ UNCHANGED <<disk, mode, reader, stamp, faults, restarts, ghosts>>

(* The call returns, whatever its answer.                                   *)
Return(w) == writer' = [writer EXCEPT ![w] = Idle]

(* Mutant: the comparison is not acted upon.                               *)
CompareIgnored(w) ==
  /\ writer[w].pc = "compare"
  /\ writer' = [writer EXCEPT ![w].pc = "judge"]
  /\ UNCHANGED <<disk, cache, mode, reader, stamp, faults, restarts, ghosts>>

(* Mutant: what was read is cached before it is parsed.                    *)
CompareCachesUnparsed(w) ==
  /\ writer[w].pc = "compare"
  /\ cache' = IF NoteIsThere THEN md ELSE cache
  /\ IF ~NoteIsThere \/ md = writer[w].expected
       THEN writer' = [writer EXCEPT ![w].pc = "judge"]
       ELSE Return(w)
  /\ UNCHANGED <<disk, mode, reader, stamp, faults, restarts, ghosts>>

(* read_note and the comparison: NoteNotFound counts as "no current         *)
(* version" and lets the write through, a file that does not parse is an    *)
(* error, another hash is a Conflict.                                       *)
Compare(w) ==
  LET fromFile == ~CacheHit /\ ~ValidatorFails /\ NoteIsThere
      current == IF CacheHit THEN cache ELSE IF fromFile THEN md ELSE None
  IN /\ writer[w].pc = "compare"
     /\ cache' = IF CacheHit \/ ValidatorFails THEN cache
                 ELSE IF fromFile /\ md # Torn THEN md ELSE None
     /\ IF current \in {None, writer[w].expected}
          THEN writer' = [writer EXCEPT ![w].pc = "judge"]
          ELSE Return(w)
     /\ UNCHANGED <<disk, mode, reader, stamp, faults, restarts, ghosts>>

(* The privacy pass, the read-before-write and the stamp of the new         *)
(* version.  Under "mask" a detector that does not answer refuses the write,*)
(* as does a previous version that does not parse.                          *)
Judge(w, detectorUp) ==
  LET hides == mode = "mask" /\ writer[w].meaning = Secret
      meaning == IF hides THEN Masked ELSE writer[w].meaning
  IN /\ writer[w].pc = "judge"
     /\ stamp < MaxWrites
     /\ IF (mode = "mask" /\ ~detectorUp) \/ (NoteIsThere /\ md = Torn)
          THEN Return(w) /\ UNCHANGED stamp
          ELSE /\ stamp' = stamp + 1
               /\ writer' = [writer EXCEPT
                    ![w].pc = "snapshot",
                    ![w].prev = IF NoteIsThere THEN md ELSE None,
                    ![w].new = [n |-> stamp + 1, meaning |-> meaning],
                    ![w].masked = hides]
     /\ UNCHANGED <<disk, cache, mode, reader, faults, restarts, ghosts>>

(* A masking write over an indexed note.                                    *)
Masks(w) == writer[w].masked /\ writer[w].prev # None

(* sha256_for_history of the previous and the new content.  Another body    *)
(* differs, and so does an edit of the version that is on disk.  The same   *)
(* body may come with another front matter, or not: the index row lags      *)
(* behind the file after an error, and an edit is then made once more.      *)
MayDiffer(w) == writer[w].prev # None
Differs(w) ==
  /\ writer[w].prev # None
  /\ \/ writer[w].edit /\ writer[w].prev = writer[w].expected
     \/ writer[w].prev.meaning # writer[w].new.meaning

(* Mutant: the new content is copied.                                      *)
SnapshotOfNew(w) ==
  /\ writer[w].pc = "snapshot" /\ ~Masks(w) /\ MayDiffer(w)
  /\ history' = [history EXCEPT ![writer[w].prev.n] = Torn]
  /\ writer' = [writer EXCEPT ![w].pc = "copy", ![w].got = writer[w].new]
  /\ UNCHANGED <<md, row, cache, mode, reader, stamp, faults, restarts, ghosts>>

(* Copy-on-write: the file as it is now is read, and a snapshot under the   *)
(* stamp of the version that was read before is opened.                     *)
SnapshotBegin(w) ==
  /\ writer[w].pc = "snapshot" /\ ~Masks(w) /\ MayDiffer(w)
  /\ history' = [history EXCEPT ![writer[w].prev.n] = Torn]
  /\ writer' = [writer EXCEPT ![w].pc = "copy", ![w].got = md]
  /\ UNCHANGED <<md, row, cache, mode, reader, stamp, faults, restarts, ghosts>>

(* A write in place ends: with the whole content, unless another write of   *)
(* the same file has got in between.                                        *)
InPlace(old, alone, new) == IF old = Torn /\ alone THEN {new} ELSE {new, Torn}

(* The snapshot is there; or an I/O error leaves it half written, which is  *)
(* logged and no more.  A copy that was taken while another write was under *)
(* way is not one of the versions the history promises to keep.             *)
SnapshotEnd(w) ==
  LET i == writer[w].prev.n
      alone == ~\E x \in Writers \ {w} : writer[x].pc = "copy" /\ writer[x].prev.n = i
  IN /\ writer[w].pc = "copy"
     /\ \/ /\ \E c \in InPlace(history[i], alone, writer[w].got) :
               history' = [history EXCEPT ![i] = c]
           /\ writer' = [writer EXCEPT ![w].pc = "list", ![w].got = None]
           /\ waived' = waived \cup {v \in Whole({writer[w].got}) : Overlaps(w)}
           /\ UNCHANGED faults
        \/ /\ Fault
           /\ history' = [history EXCEPT ![i] = Torn]
           /\ writer' = [writer EXCEPT ![w].pc = "file", ![w].got = None]
           /\ waived' = waived \cup Whole({md})
     /\ residue' = residue \cup {v \in Clear(Whole({writer[w].got})) : Overlaps(w)}
     /\ UNCHANGED <<md, row, cache, mode, reader, stamp, restarts, acked, superseded,
                    hidden, won>>

(* No snapshot: no previous version in the index, or the same meaning, or   *)
(* an I/O error before the snapshot is opened, which is logged and no more. *)
NoSnapshot(w) ==
  /\ writer[w].pc = "snapshot" /\ ~Masks(w)
  /\ \/ ~Differs(w) /\ UNCHANGED faults
     \/ MayDiffer(w) /\ Fault
  /\ writer' = [writer EXCEPT ![w].pc = "file"]
  /\ waived' = waived \cup Whole({md})
  /\ UNCHANGED <<disk, cache, mode, reader, stamp, restarts, acked, superseded, hidden,
                 won, residue>>

(* What is to be deleted, if anything.                                      *)
Listed(w, S) ==
  writer' = [writer EXCEPT ![w].pc = IF S = {} THEN "file" ELSE "delete", ![w].doomed = S]

(* trim_history_to_max, after a successful snapshot only.  A directory that *)
(* cannot be listed stays as it is.                                         *)
TrimList(w) ==
  /\ writer[w].pc = "list"
  /\ \/ Listed(w, Excess) /\ UNCHANGED faults
     \/ Listed(w, {}) /\ Fault
  /\ UNCHANGED <<disk, cache, mode, reader, stamp, restarts, ghosts>>

(* Mutant: the masking write takes no snapshot and leaves the old ones.    *)
PurgeNothing(w) ==
  /\ writer[w].pc = "snapshot" /\ Masks(w)
  /\ Listed(w, {})
  /\ waived' = waived \cup Whole({md})
  /\ UNCHANGED <<disk, cache, mode, reader, stamp, faults, restarts, acked, superseded,
                 hidden, won, residue>>

(* purge_history_dir: a write that masked something keeps no copy of what   *)
(* it replaces and destroys every snapshot of the note, if it can list them.*)
PurgeList(w) ==
  /\ writer[w].pc = "snapshot" /\ Masks(w)
  /\ \/ /\ Listed(w, {i \in Stamps : history[i] # None})
        /\ UNCHANGED <<faults, residue>>
     \/ /\ Listed(w, {}) /\ Fault
        /\ residue' = residue \cup Clear(Stored)
  /\ waived' = waived \cup Whole({md})
  /\ UNCHANGED <<disk, cache, mode, reader, stamp, restarts, acked, superseded, hidden, won>>

(* The deletions: the purge takes the files in any order, the retention     *)
(* from the oldest on.  One that fails is logged and the snapshot stays.    *)
DeleteSnapshot(w, i) ==
  LET left == writer[w].doomed \ {i}
  IN /\ writer[w].pc = "delete" /\ i \in writer[w].doomed
     /\ writer[w].masked \/ \A k \in left : i < k
     /\ \/ /\ history' = [history EXCEPT ![i] = None]
           /\ waived' = waived \cup Whole({history[i]})
           /\ UNCHANGED <<faults, residue>>
        \/ /\ Fault
           /\ residue' = residue \cup {v \in Clear(Whole({history[i]})) : writer[w].masked}
           /\ UNCHANGED <<history, waived>>
     /\ Listed(w, left)
     /\ UNCHANGED <<md, row, cache, mode, reader, stamp, restarts, acked, superseded,
                    hidden, won>>

(* The .md is opened in place; an error is returned to the caller ...       *)
WriteFileBegin(w) ==
  /\ writer[w].pc = "file"
  /\ \/ /\ md' = Torn
        /\ writer' = [writer EXCEPT ![w].pc = "write"]
        /\ UNCHANGED faults
     \/ Fault /\ Return(w) /\ UNCHANGED md
  /\ UNCHANGED <<row, history, cache, mode, reader, stamp, restarts, ghosts>>

(* ... and so is one in the middle, which leaves the file half written.     *)
WriteFileEnd(w) ==
  LET alone == ~\E x \in Writers \ {w} : writer[x].pc = "write"
  IN /\ writer[w].pc = "write"
     /\ \/ /\ md' \in InPlace(md, alone, writer[w].new)
           /\ writer' = [writer EXCEPT ![w].pc = "index"]
           /\ UNCHANGED faults
        \/ Fault /\ Return(w) /\ md' = Torn
     /\ UNCHANGED <<row, history, cache, mode, reader, stamp, restarts, ghosts>>

(* The index row, and the answer.                                           *)
WriteIndex(w) ==
  /\ writer[w].pc = "index"
  /\ \/ /\ row' = writer[w].new
        /\ acked' = acked \cup {writer[w].new}
        /\ superseded' = superseded \cup writer[w].before
        /\ hidden' = IF writer[w].masked /\ hidden < writer[w].new.n
                       THEN writer[w].new.n ELSE hidden
        /\ won' = [i \in Stamps |->
             IF writer[w].expected # None /\ ~writer[w].edit /\ writer[w].expected.n = i
               THEN won[i] + 1 ELSE won[i]]
        /\ UNCHANGED faults
     \/ Fault /\ UNCHANGED <<row, acked, superseded, hidden, won>>
  /\ Return(w)
  /\ UNCHANGED <<md, history, cache, mode, reader, stamp, restarts, waived, residue>>

-----------------------------------------------------------------------------
(* Readers *)

(* read_note, first part: the cache and its validator.  A hit or a missing  *)
(* row is the answer, and nothing changes.                                  *)
ReadLookup(r) ==
  /\ reader[r].pc = "idle"
  /\ ~CacheHit /\ ~ValidatorFails
  /\ cache' = None
  /\ reader' = [reader EXCEPT ![r].pc = "load", ![r].floor = superseded]
  /\ UNCHANGED <<disk, mode, writer, stamp, faults, restarts, ghosts>>

ReadEnds(r) == reader' = [reader EXCEPT ![r] = NoRead]

(* The index row and the file: NoteNotFound, a parse error or a note ...    *)
ReadLoad(r) ==
  /\ reader[r].pc = "load"
  /\ IF NoteIsThere /\ md # Torn
       THEN reader' = [reader EXCEPT ![r].pc = "insert", ![r].got = md]
       ELSE ReadEnds(r)
  /\ UNCHANGED <<disk, cache, mode, writer, stamp, faults, restarts, ghosts>>

(* ... which goes into the cache before it is returned.                     *)
ReadInsert(r) ==
  /\ reader[r].pc = "insert"
  /\ cache' = reader[r].got
  /\ ReadEnds(r)
  /\ UNCHANGED <<disk, mode, writer, stamp, faults, restarts, ghosts>>

(* Moka's TTL, TTI or capacity.                                             *)
Evict ==
  /\ cache # None
  /\ cache' = None
  /\ UNCHANGED <<disk, mode, writer, reader, stamp, faults, restarts, ghosts>>

-----------------------------------------------------------------------------
(* The process dies and starts again with the configured privacy mode.      *)
(* Disk and index survive as they are, half-written files included.         *)
Restart(m) ==
  /\ restarts < MaxRestarts
  /\ restarts' = restarts + 1
  /\ mode' = m
  /\ cache' = None
  /\ writer' = [w \in Writers |-> Idle]
  /\ reader' = [r \in Readers |-> NoRead]
  /\ UNCHANGED <<disk, stamp, faults, ghosts>>

WriterStep(w) ==
  \/ \E b \in Bodies : WriteBegin(w, b) \/ \E v \in acked : WriteIfMatchBegin(w, b, v)
  \/ RescanBegin(w) \/ EditBegin(w)
  \/ Compare(w)
  \/ \E up \in BOOLEAN : Judge(w, up)
  \/ SnapshotBegin(w) \/ SnapshotEnd(w) \/ NoSnapshot(w)
  \/ TrimList(w) \/ PurgeList(w) \/ \E i \in Stamps : DeleteSnapshot(w, i)
  \/ WriteFileBegin(w) \/ WriteFileEnd(w)
  \/ WriteIndex(w)

ReaderStep(r) == ReadLookup(r) \/ ReadLoad(r) \/ ReadInsert(r)

Next ==
  \/ \E w \in Writers : WriterStep(w)
  \/ \E r \in Readers : ReaderStep(r)
  \/ Evict
  \/ \E m \in {"report", "mask"} : Restart(m)

Spec == Init /\ [][Next]_vars

-----------------------------------------------------------------------------
(* Properties; writes overlap as MaxInFlight allows, unless they say otherwise *)

(* The vault keeps versions as module NoteHistory promises: no crash, I/O   *)
(* error or restart in another mode, at whatever point of the write, lets a *)
(* version go that was neither kept nor waived, resurrects one, or drops a  *)
(* kept one while fewer than MaxHistory newer ones are there.  Nothing is   *)
(* promised at the steps taken while writes overlap: two of them write the  *)
(* same snapshot, and each replaces a file it has not read.                 *)
History == INSTANCE NoteHistory WITH
             NoVersion <- None,
             current <- md,
             slot <- history,
             contended <- \E w \in Writers : Overlaps(w),
             erasing <- \E w \in Writers : writer[w].pc = "delete" /\ writer[w].masked
KeepsHistory == History!Spec

(* The comparison sees every conflict that is there to be seen: no          *)
(* conditional write goes on, and no edit begins, from a version whose own  *)
(* write had ended before some answered write began, whatever the cache     *)
(* holds and however far crashes, errors and overlapping writes have taken  *)
(* the file and the index apart.                                            *)
ConflictIsSeen ==
  [][\A w \in Writers :
       (writer[w].pc \in {"idle", "compare"} /\ writer'[w].pc = "judge")
         => (writer'[w].expected # None => writer'[w].expected.n \notin superseded)]_vars

(* A read returns no version whose own write had ended before some write    *)
(* began that was answered before the read began: neither from the cache,   *)
(* whatever a slow reader has put there, nor from the file, however writes  *)
(* overlap.                                                                 *)
ReadsAreFresh ==
  /\ CacheHit => cache.n \notin superseded
  /\ \A r \in Readers : reader[r].pc = "insert" => reader[r].got.n \notin reader[r].floor

(* Masking is irreversible: once a masking write is answered, no older      *)
(* version is left in clear on disk, except the copies that its purge could *)
(* not list or remove and those that a write took while another one was     *)
(* under way.                                                               *)
MaskingErases ==
  {u \in Clear(OnDisk) : u.n < hidden} \subseteq residue

-----------------------------------------------------------------------------
(* write_if_match is a compare-and-swap: of the conditional writes that     *)
(* expect one version, overlapping or not, at most one is answered Written. *)
CompareAndSwap == \A i \in Stamps : won[i] <= 1
=============================================================================

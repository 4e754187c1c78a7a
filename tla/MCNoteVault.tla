---------------------------- MODULE MCNoteVault ----------------------------
(***************************************************************************)
(* One note for TLC: two bodies, one of which the privacy pass would mask.  *)
(* The writers are interchangeable, and no liveness is checked.             *)
(***************************************************************************)
EXTENDS NoteVault, TLC

CONSTANTS w1, w2, r1, plain, secret

(* What a call still looks at, and nothing of won: no property of the run   *)
(* `vault` depends on the rest, so states that differ in it are one.        *)
Live(c) ==
  [c EXCEPT
     !.expected = IF c.pc = "compare" \/ (c.edit /\ c.pc \in {"judge", "snapshot"})
                    THEN @ ELSE None,
     !.edit = @ /\ c.pc \in {"judge", "snapshot"},
     !.meaning = IF c.pc \in {"compare", "judge"} THEN @ ELSE Masked,
     !.prev = IF c.pc \in {"snapshot", "copy"} THEN @ ELSE None]
LiveState == <<disk, cache, mode, [w \in Writers |-> Live(writer[w])], reader, stamp,
               faults, restarts, acked, superseded, hidden, waived, residue>>

(* Writes overlap once the note is indexed: ids are fresh, and it takes two *)
(* callers that choose the same one to create a note twice.                 *)
CreatedAlone == Cardinality(InFlight) > 1 => row # None

WriterSymmetry == Permutations(Writers)
=============================================================================

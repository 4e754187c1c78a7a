--------------------------- MODULE MCNoteArchive ---------------------------
(***************************************************************************)
(* One note under the calls of a server process, for TLC.                   *)
(***************************************************************************)
EXTENDS NoteArchive

CONSTANTS p1, p2
=============================================================================

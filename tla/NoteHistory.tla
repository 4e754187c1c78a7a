---------------------------- MODULE NoteHistory ----------------------------
(***************************************************************************)
(* What the vault promises about the versions of one note, with no index,   *)
(* no cache, no process and no crash: the current version goes only when a  *)
(* snapshot of it is kept or the vault has waived it (it means the same as  *)
(* its successor, its text is to be destroyed, its snapshot could not be    *)
(* written or has been dropped again); a snapshot is only ever overwritten  *)
(* by one of the same version, and dropped only when MaxHistory newer ones  *)
(* are there, or when all are to be destroyed                               *)
(* (crates/gradatum-vault/src/lifecycle.rs, F-40 and F-32A).                *)
(* The environment decides when writes contend, in which case the current   *)
(* version and the snapshots are fair game, and when the text is erased.    *)
(***************************************************************************)
EXTENDS Naturals, FiniteSets

CONSTANTS Versions,    \* records with a stamp n
          Stamps,
          NoVersion, Torn,
          MaxHistory

VARIABLES current,     \* the current file: a version, NoVersion or Torn
          slot,        \* the snapshots, under their stamps
          waived,
          contended, erasing

vars == <<current, slot, waived>>

Kept == {slot[i] : i \in Stamps} \ {NoVersion, Torn}

Init ==
  /\ current = NoVersion
  /\ slot = [i \in Stamps |-> NoVersion]
  /\ waived = {}

MayGo == current \in Kept \cup waived \cup {NoVersion, Torn} \/ contended

(* Another version, never seen before, or half of one.                      *)
Replace ==
  /\ UNCHANGED <<slot, waived>>
  /\ current' \in {Torn} \cup (Versions \ (Kept \cup waived \cup {current}))
  /\ MayGo

(* The current version is copied, or half of it, and possibly waived.       *)
Keep(i) ==
  /\ current \in Versions
  /\ UNCHANGED current
  /\ slot[i] \in Kept \ waived => slot[i].n = current.n
  /\ \E c \in {Torn, current} : slot' = [slot EXCEPT ![i] = c]
  /\ waived' \in {waived, waived \cup {current}}

(* Writes that contend may copy a version that is no longer the current one *)
(* over another snapshot.                                                   *)
Scramble(i, v) ==
  /\ UNCHANGED current
  /\ \E c \in {Torn, v} : slot' = [slot EXCEPT ![i] = c]
  /\ waived' \in {waived, waived \cup {v}}

Drop(i) ==
  /\ UNCHANGED current
  /\ slot' = [slot EXCEPT ![i] = NoVersion]
  /\ waived' = waived \cup ({slot[i]} \ {NoVersion, Torn})
  /\ \/ Cardinality({k \in Stamps : k > i /\ slot[k] # NoVersion}) >= MaxHistory
     \/ erasing
     \/ contended

Waive ==
  /\ UNCHANGED <<current, slot>>
  /\ current \in Versions
  /\ waived' = waived \cup {current}

Next ==
  \/ Replace
  \/ \E i \in Stamps : Keep(i) \/ Drop(i)
  \/ contended /\ \E i \in Stamps, v \in Versions : Scramble(i, v)
  \/ Waive

Spec == Init /\ [][Next]_vars
=============================================================================

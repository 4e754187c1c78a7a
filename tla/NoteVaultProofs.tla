-------------------------- MODULE NoteVaultProofs --------------------------
(***************************************************************************)
(* Proofs about NoteVault for every number of callers, however their writes *)
(* overlap, and for every number of versions, faults and restarts and every *)
(* history length.                                                          *)
(***************************************************************************)
EXTENDS NoteVault, TLAPS

(* A write that has its new version, and one that has not put it on disk.   *)
Stamped(w) == writer[w].pc \in {"snapshot", "copy", "list", "delete", "file", "write", "index"}
Unwritten(w) == writer[w].pc \in {"snapshot", "copy", "list", "delete", "file", "write"}

-----------------------------------------------------------------------------
(* What the calls hold at which point; stamps are given out once, and a     *)
(* write that is under way ended before no other one began.                 *)
ShapeInv ==
  /\ \A w \in Writers :
       /\ writer[w].before \subseteq 1..stamp
       /\ Stamped(w) => writer[w].new \in Versions /\ writer[w].new.n \in 1..stamp
       /\ ~Stamped(w) => writer[w].new = None /\ ~writer[w].masked
       /\ writer[w].pc = "copy" => writer[w].prev # None /\ writer[w].got # None
       /\ writer[w].pc \in {"copy", "list"} => ~writer[w].masked
       /\ writer[w].prev # None => row # None
       /\ writer[w].expected # None => row # None
       /\ writer[w].pc = "index" => md # None
  /\ \A w \in Writers, x \in Writers : Stamped(w) /\ Stamped(x) /\ w # x =>
       writer[w].new.n # writer[x].new.n
  /\ \A w \in Writers, x \in Writers : Stamped(w) => writer[w].new.n \notin writer[x].before
  /\ row # None => md # None
  /\ row = None => acked = {}

(* Neither the file nor the index ever goes back to a version whose write   *)
(* had ended before an answered write began.                                *)
FreshInv ==
  /\ superseded \subseteq 1..stamp
  /\ \A w \in Writers : Stamped(w) => writer[w].new.n \notin superseded
  /\ md \in Versions => md.n \notin superseded
  /\ row \in Versions => row.n \notin superseded
  /\ \A w \in Writers : writer[w].pc = "index" /\ md \in Versions => md.n \notin writer[w].before

(* A read in progress holds its result against what was superseded before.  *)
ReadInv ==
  \A r \in Readers :
    /\ reader[r].floor \subseteq superseded
    /\ reader[r].pc = "insert" =>
         reader[r].got \in Versions /\ reader[r].got.n \notin reader[r].floor

(* Versions appear once, and a write that overlaps no other finds the file  *)
(* and the history as it has left them.                                     *)
SeenInv ==
  \A v \in Versions :
    (v = md \/ v \in waived \/ (\E i \in Stamps : history[i] = v)
       \/ (\E w \in Writers : writer[w].got = v))
    => v.n \in 1..stamp /\ \A w \in Writers : Unwritten(w) => writer[w].new.n # v.n
FiledInv ==
  \A i \in Stamps : history[i] \in Versions \ waived => history[i].n = i
Unhindered(w) ==
  /\ writer[w].pc = "snapshot" /\ writer[w].prev # None => md = writer[w].prev
  /\ writer[w].pc = "copy" =>
       /\ md = writer[w].prev /\ writer[w].got = md
       /\ history[writer[w].prev.n] = Torn
  /\ writer[w].pc \in {"list", "delete", "file"} =>
       md \in Stored \cup waived \cup {None, Torn}
  /\ writer[w].pc = "write" => md = Torn
  /\ writer[w].pc = "delete" /\ ~writer[w].masked =>
       \A i \in writer[w].doomed : Cardinality(Newer(i)) >= MaxHistory
AloneInv == \A w \in Writers : ~Overlaps(w) => Unhindered(w)

(* A masking write has destroyed the clear copies before it is answered, and*)
(* the file holds none since.                                               *)
IsClear(v) == v \in Versions /\ v.meaning = Secret
MaskInv ==
  /\ hidden <= stamp
  /\ row = None => \A i \in Stamps : history[i] = None
  /\ \A w \in Writers :
       /\ writer[w].masked => mode = "mask"
       /\ Stamped(w) /\ writer[w].new.meaning = Secret => mode = "report" /\ hidden < writer[w].new.n
       /\ writer[w].masked /\ writer[w].pc = "index" => ~IsClear(md)
       /\ writer[w].masked /\ (writer[w].pc # "snapshot" \/ writer[w].prev = None) =>
            \A i \in Stamps : IsClear(history[i]) =>
              history[i] \in residue \/ (writer[w].pc = "delete" /\ i \in writer[w].doomed)
  /\ IsClear(md) => hidden < md.n
  /\ \A i \in Stamps : IsClear(history[i]) /\ history[i].n < hidden => history[i] \in residue

Inv == TypeOK /\ ShapeInv /\ FreshInv /\ ReadInv /\ SeenInv /\ FiledInv /\ AloneInv /\ MaskInv

-----------------------------------------------------------------------------
(* What a step does to the calls, with the updates of records worked out.   *)
OthersStay(w) ==
  /\ writer' \in [Writers -> Calls]
  /\ \A x \in Writers : x # w => writer'[x] = writer[x]

(* w goes on to p and keeps what it has decided.                            *)
Moves(w, p) ==
  /\ OthersStay(w)
  /\ writer'[w].pc = p
  /\ writer'[w].prev = writer[w].prev
  /\ writer'[w].new = writer[w].new
  /\ writer'[w].masked = writer[w].masked
  /\ writer'[w].before = writer[w].before
  /\ writer'[w].expected = writer[w].expected

Ends(w) == OthersStay(w) /\ writer'[w] = Idle

Enters(w) ==
  /\ OthersStay(w)
  /\ writer[w].pc = "idle"
  /\ writer'[w].pc \in {"compare", "judge"}
  /\ writer'[w].new = None /\ writer'[w].prev = None /\ writer'[w].got = None
  /\ writer'[w].masked = FALSE
  /\ writer'[w].before = (1..stamp) \ UNION {StampOf(x) : x \in InFlight}

(* No version is None or Torn.                                              *)
LEMMA VersionsAreReal == None \notin Versions /\ Torn \notin Versions /\ None # Torn
BY NoteVaultAssumption

(* Versions have a stamp and a meaning.                                     *)
LEMMA VersionFields ==
  /\ \A v \in Versions : v.n \in Stamps /\ v.meaning \in Bodies \cup {Masked}
  /\ \A i \in Stamps, b \in Bodies \cup {Masked} :
       /\ [n |-> i, meaning |-> b] \in Versions
       /\ [n |-> i, meaning |-> b].n = i
       /\ [n |-> i, meaning |-> b].meaning = b
BY DEF Versions

LEMMA IdleFields ==
  /\ Idle \in Calls
  /\ Idle.pc = "idle" /\ Idle.expected = None /\ Idle.prev = None /\ Idle.new = None
  /\ Idle.masked = FALSE /\ Idle.got = None /\ Idle.doomed = {} /\ Idle.before = {}
BY NoteVaultAssumption DEF Idle, Calls, Points

(* The types of the fields of a call.                                       *)
LEMMA CallFields ==
  ASSUME NEW c \in Calls
  PROVE  /\ c.pc \in Points /\ c.expected \in Versions \cup {None}
         /\ c.meaning \in Bodies \cup {Masked}
         /\ c.prev \in Versions \cup {None} /\ c.new \in Versions \cup {None}
         /\ c.masked \in BOOLEAN /\ c.edit \in BOOLEAN
         /\ c.got \in Versions \cup {None, Torn}
         /\ c.doomed \subseteq Stamps /\ c.before \subseteq Stamps
BY DEF Calls

(* Updates of a call.                                                       *)
LEMMA CallMove ==
  ASSUME NEW c \in Calls, NEW p \in Points
  PROVE  LET d == [c EXCEPT !.pc = p]
         IN /\ d \in Calls /\ d.pc = p /\ d.prev = c.prev /\ d.new = c.new
            /\ d.masked = c.masked /\ d.before = c.before /\ d.expected = c.expected
            /\ d.got = c.got /\ d.doomed = c.doomed
BY DEF Calls

(* One call goes on.                                                        *)
LEMMA GoesOn ==
  ASSUME TypeOK, NEW w \in Writers, NEW p \in Points, writer' = [writer EXCEPT ![w].pc = p]
  PROVE  Moves(w, p) /\ writer'[w].got = writer[w].got /\ writer'[w].doomed = writer[w].doomed
<1>1. writer[w] \in Calls /\ writer \in [Writers -> Calls]
  BY DEF TypeOK
<1>2. writer' = [writer EXCEPT ![w] = [writer[w] EXCEPT !.pc = p]]
  BY <1>1
<1>3. writer'[w] = [writer[w] EXCEPT !.pc = p] /\ OthersStay(w)
  BY <1>1, <1>2, CallMove DEF OthersStay
<1> QED BY <1>1, <1>3, CallMove DEF Moves

LEMMA GoesOnWith ==
  ASSUME TypeOK, NEW w \in Writers, NEW p \in Points, NEW g \in Versions \cup {None, Torn},
         writer' = [writer EXCEPT ![w].pc = p, ![w].got = g]
  PROVE  Moves(w, p) /\ writer'[w].got = g /\ writer'[w].doomed = writer[w].doomed
<1>1. writer[w] \in Calls /\ writer \in [Writers -> Calls]
  BY DEF TypeOK
<1> DEFINE d == [writer[w] EXCEPT !.pc = p, !.got = g]
<1>2. writer' = [writer EXCEPT ![w] = d]
  BY <1>1
<1>3. /\ d \in Calls /\ d.pc = p /\ d.prev = writer[w].prev /\ d.new = writer[w].new
      /\ d.masked = writer[w].masked /\ d.before = writer[w].before
      /\ d.expected = writer[w].expected
  BY <1>1 DEF Calls
<1>4. d.got = g /\ d.doomed = writer[w].doomed
  BY <1>1 DEF Calls
<1> HIDE DEF d
<1>5. writer'[w] = d /\ OthersStay(w)
  BY <1>1, <1>2, <1>3 DEF OthersStay
<1> QED BY <1>3, <1>4, <1>5 DEF Moves

LEMMA GoesOnListed ==
  ASSUME TypeOK, NEW w \in Writers, NEW D \in SUBSET Stamps, Listed(w, D)
  PROVE  /\ Moves(w, IF D = {} THEN "file" ELSE "delete")
         /\ writer'[w].got = writer[w].got /\ writer'[w].doomed = D
<1> DEFINE p == IF D = {} THEN "file" ELSE "delete"
<1>1. writer[w] \in Calls /\ writer \in [Writers -> Calls] /\ p \in Points
  BY DEF TypeOK, Points
<1> DEFINE d == [writer[w] EXCEPT !.pc = p, !.doomed = D]
<1>2. writer' = [writer EXCEPT ![w] = d]
  BY <1>1 DEF Listed
<1> HIDE DEF p
<1>3. /\ d \in Calls /\ d.pc = p /\ d.prev = writer[w].prev /\ d.new = writer[w].new
      /\ d.masked = writer[w].masked /\ d.before = writer[w].before
      /\ d.expected = writer[w].expected
  BY <1>1 DEF Calls
<1>4. d.got = writer[w].got /\ d.doomed = D
  BY <1>1 DEF Calls
<1> HIDE DEF d
<1>5. writer'[w] = d /\ OthersStay(w)
  BY <1>1, <1>2, <1>3 DEF OthersStay
<1>6. Moves(w, p) /\ writer'[w].got = writer[w].got /\ writer'[w].doomed = D
  BY <1>3, <1>4, <1>5 DEF Moves
<1> QED BY <1>6 DEF p

LEMMA GoesEnd ==
  ASSUME TypeOK, NEW w \in Writers, Return(w)
  PROVE  Ends(w)
BY IdleFields DEF TypeOK, Return, Ends, OthersStay

(* A call begins.                                                           *)
LEMMA CallEnters ==
  ASSUME NEW c \in Calls, NEW B \in SUBSET Stamps
  PROVE  LET d == [c EXCEPT !.before = B]
         IN /\ d \in Calls /\ d.pc = c.pc /\ d.prev = c.prev /\ d.new = c.new
            /\ d.masked = c.masked /\ d.before = B /\ d.expected = c.expected
            /\ d.got = c.got
BY DEF Calls

LEMMA GoesIn ==
  ASSUME TypeOK, NEW w \in Writers, NEW c \in Calls, Enter(w, c),
         c.pc \in {"compare", "judge"}, c.new = None, c.prev = None, c.got = None,
         c.masked = FALSE
  PROVE  Enters(w) /\ writer'[w].pc = c.pc /\ writer'[w].expected = c.expected
<1> DEFINE B == (1..stamp) \ UNION {StampOf(x) : x \in InFlight}
<1>1. B \in SUBSET Stamps
  BY NoteVaultAssumption DEF TypeOK, Stamps
<1> HIDE DEF B
<1>2. writer' = [writer EXCEPT ![w] = [c EXCEPT !.before = B]] /\ writer[w].pc = "idle"
  BY DEF Enter, B
<1>3. writer'[w] = [c EXCEPT !.before = B] /\ OthersStay(w)
  BY <1>1, <1>2, CallEnters DEF OthersStay, TypeOK
<1>4. writer'[w].before = B /\ writer'[w].pc = c.pc /\ writer'[w].expected = c.expected
      /\ writer'[w].new = None /\ writer'[w].prev = None /\ writer'[w].got = None
      /\ writer'[w].masked = FALSE
  BY <1>1, <1>3, CallEnters
<1> QED BY <1>2, <1>3, <1>4 DEF Enters, B

LEMMA WriteCall ==
  ASSUME NEW b \in Bodies \cup {Masked}
  PROVE  LET c == [Idle EXCEPT !.pc = "judge", !.meaning = b]
         IN c \in Calls /\ c.pc = "judge" /\ c.new = None /\ c.prev = None /\ c.got = None
            /\ c.masked = FALSE /\ c.expected = None
BY NoteVaultAssumption DEF Idle, Calls, Points

LEMMA MatchCall ==
  ASSUME NEW b \in Bodies \cup {Masked}, NEW v \in Versions
  PROVE  LET c == [Idle EXCEPT !.pc = "compare", !.meaning = b, !.expected = v]
         IN c \in Calls /\ c.pc = "compare" /\ c.new = None /\ c.prev = None /\ c.got = None
            /\ c.masked = FALSE /\ c.expected = v
BY NoteVaultAssumption DEF Idle, Calls, Points

LEMMA EditCall ==
  ASSUME NEW b \in Bodies \cup {Masked}, NEW v \in Versions
  PROVE  LET c == [Idle EXCEPT !.pc = "judge", !.meaning = b, !.expected = v, !.edit = TRUE]
         IN c \in Calls /\ c.pc = "judge" /\ c.new = None /\ c.prev = None /\ c.got = None
            /\ c.masked = FALSE /\ c.expected = v
BY NoteVaultAssumption DEF Idle, Calls, Points

-----------------------------------------------------------------------------
(* The steps, by what they do to the files, the row and the ghosts.         *)
files == <<md, row, history, mode, acked, superseded, hidden, waived, residue>>

Entering(w) ==
  /\ Enters(w)
  /\ writer'[w].pc = "compare" => writer'[w].expected \in acked
  /\ writer'[w].pc = "judge" /\ writer'[w].expected # None =>
       row # None /\ writer'[w].expected \in {row, md}
  /\ UNCHANGED <<files, reader, stamp>>

Comparing(w) ==
  /\ writer[w].pc = "compare"
  /\ \/ Ends(w)
     \/ /\ Moves(w, "judge")
        /\ writer'[w].got = writer[w].got /\ writer'[w].doomed = writer[w].doomed
        /\ writer[w].expected \in {row, md} \/ row = None \/ md = None
  /\ UNCHANGED <<files, reader, stamp>>

Judging(w) ==
  /\ writer[w].pc = "judge"
  /\ \/ Ends(w) /\ UNCHANGED stamp
     \/ /\ stamp' = stamp + 1
        /\ OthersStay(w)
        /\ writer'[w].pc = "snapshot"
        /\ writer'[w].prev = IF NoteIsThere THEN md ELSE None
        /\ writer'[w].new \in Versions /\ writer'[w].new.n = stamp + 1
        /\ writer'[w].masked => mode = "mask"
        /\ writer'[w].new.meaning = Secret => mode = "report"
        /\ writer'[w].before = writer[w].before
        /\ writer'[w].expected = writer[w].expected
        /\ writer'[w].got = writer[w].got
  /\ UNCHANGED <<files, reader>>

Copying(w) ==
  /\ writer[w].pc = "snapshot" /\ writer[w].prev # None /\ ~writer[w].masked
  /\ Moves(w, "copy") /\ writer'[w].got = md
  /\ history' = [history EXCEPT ![writer[w].prev.n] = Torn]
  /\ UNCHANGED <<md, row, mode, acked, superseded, hidden, waived, residue, reader, stamp>>

Copied(w) ==
  LET i == writer[w].prev.n
  IN /\ writer[w].pc = "copy" /\ writer'[w].got = None
     /\ \/ /\ Moves(w, "list")
           /\ \/ history' = [history EXCEPT ![i] = writer[w].got]
              \/ /\ history' = [history EXCEPT ![i] = Torn]
                 /\ history[i] # Torn
                    \/ \E x \in Writers : x # w /\ writer[x].pc = "copy"
           /\ waived' = waived \cup {v \in Whole({writer[w].got}) : Overlaps(w)}
        \/ /\ Moves(w, "file")
           /\ history' = [history EXCEPT ![i] = Torn]
           /\ waived' = waived \cup Whole({md})
     /\ residue' = residue \cup {v \in Clear(Whole({writer[w].got})) : Overlaps(w)}
     /\ UNCHANGED <<md, row, mode, acked, superseded, hidden, reader, stamp>>

Waiving(w) ==
  /\ writer[w].pc = "snapshot" /\ ~(writer[w].masked /\ writer[w].prev # None)
  /\ Moves(w, "file") /\ writer'[w].got = writer[w].got
  /\ waived' = waived \cup Whole({md})
  /\ UNCHANGED <<md, row, history, mode, acked, superseded, hidden, residue, reader, stamp>>

Trimming(w) ==
  /\ writer[w].pc = "list" /\ writer'[w].got = writer[w].got
  /\ \/ Moves(w, "delete") /\ writer'[w].doomed = Excess
     \/ Moves(w, "file")
  /\ UNCHANGED <<files, reader, stamp>>

Purging(w) ==
  /\ writer[w].pc = "snapshot" /\ writer[w].masked /\ writer[w].prev # None
  /\ writer'[w].got = writer[w].got
  /\ \/ /\ Moves(w, "delete")
        /\ writer'[w].doomed = {i \in Stamps : history[i] # None}
        /\ UNCHANGED residue
     \/ /\ Moves(w, "file")
        /\ \A i \in Stamps : IsClear(history[i]) => history[i] \in residue'
        /\ residue \subseteq residue'
  /\ waived' = waived \cup Whole({md})
  /\ UNCHANGED <<md, row, history, mode, acked, superseded, hidden, reader, stamp>>

Deleting(w, i) ==
  /\ writer[w].pc = "delete" /\ i \in writer[w].doomed
  /\ writer[w].masked \/ \A k \in writer[w].doomed \ {i} : i < k
  /\ writer'[w].got = writer[w].got
  /\ \/ Moves(w, "delete")
     \/ Moves(w, "file") /\ writer'[w].doomed = {}
  /\ writer'[w].doomed = writer[w].doomed \ {i}
  /\ \/ /\ history' = [history EXCEPT ![i] = None]
        /\ waived' = waived \cup Whole({history[i]})
        /\ UNCHANGED residue
     \/ /\ writer[w].masked /\ IsClear(history[i]) => history[i] \in residue'
        /\ residue \subseteq residue'
        /\ UNCHANGED <<history, waived>>
  /\ UNCHANGED <<md, row, mode, acked, superseded, hidden, reader, stamp>>

Opening(w) ==
  /\ writer[w].pc = "file"
  /\ \/ Moves(w, "write") /\ writer'[w].got = writer[w].got /\ md' = Torn
     \/ Ends(w) /\ UNCHANGED md
  /\ UNCHANGED <<row, history, mode, acked, superseded, hidden, waived, residue, reader, stamp>>

Writing(w) ==
  /\ writer[w].pc = "write"
  /\ \/ /\ Moves(w, "index") /\ writer'[w].got = writer[w].got
        /\ md' \in {writer[w].new, Torn}
     \/ Ends(w) /\ md' = Torn
  /\ UNCHANGED <<row, history, mode, acked, superseded, hidden, waived, residue, reader, stamp>>

Answering(w) ==
  /\ writer[w].pc = "index"
  /\ Ends(w)
  /\ \/ /\ row' = writer[w].new
        /\ acked' = acked \cup {writer[w].new}
        /\ superseded' = superseded \cup writer[w].before
        /\ hidden' = IF writer[w].masked /\ hidden < writer[w].new.n
                       THEN writer[w].new.n ELSE hidden
     \/ UNCHANGED <<row, acked, superseded, hidden>>
  /\ UNCHANGED <<md, history, mode, waived, residue, reader, stamp>>

Reading == UNCHANGED <<files, writer, stamp>>

Restarting ==
  /\ writer' = [w \in Writers |-> Idle]
  /\ reader' = [r \in Readers |-> NoRead]
  /\ UNCHANGED <<md, row, history, acked, superseded, hidden, waived, residue, stamp>>

CallStep(w) ==
  \/ Entering(w) \/ Comparing(w) \/ Judging(w) \/ Copying(w) \/ Copied(w) \/ Waiving(w)
  \/ Trimming(w) \/ Purging(w) \/ (\E i \in Stamps : Deleting(w, i))
  \/ Opening(w) \/ Writing(w) \/ Answering(w)

(* Every step of a call is one of those.                                    *)
LEMMA BeginEffect ==
  ASSUME TypeOK, NEW w \in Writers, NEW c \in Calls, Begin(w, c),
         c.pc \in {"compare", "judge"}, c.new = None, c.prev = None, c.got = None,
         c.masked = FALSE, c.pc = "compare" => c.expected \in acked,
         c.pc = "judge" => c.expected = None
  PROVE  Entering(w)
<1>1. Enters(w) /\ writer'[w].pc = c.pc /\ writer'[w].expected = c.expected
  BY GoesIn DEF Begin
<1>2. UNCHANGED <<files, reader, stamp>>
  BY DEF Begin, files, disk, ghosts
<1> QED BY <1>1, <1>2 DEF Entering

LEMMA CallEffects ==
  ASSUME TypeOK, NEW w \in Writers, WriterStep(w)
  PROVE  CallStep(w)
<1>0. writer[w] \in Calls /\ md \in Versions \cup {None, Torn}
  BY DEF TypeOK
<1>p. /\ "judge" \in Points /\ "snapshot" \in Points /\ "copy" \in Points /\ "list" \in Points
      /\ "file" \in Points /\ "write" \in Points /\ "index" \in Points
  BY DEF Points
<1>1. ASSUME NEW b \in Bodies, WriteBegin(w, b) PROVE Entering(w)
  BY <1>1, WriteCall, BeginEffect DEF WriteBegin
<1>2. ASSUME NEW b \in Bodies, NEW v \in acked, WriteIfMatchBegin(w, b, v) PROVE Entering(w)
  <2>1. v \in Versions
    BY DEF TypeOK
  <2> DEFINE c == [Idle EXCEPT !.pc = "compare", !.meaning = b, !.expected = v]
  <2>2. c \in Calls /\ c.pc = "compare" /\ c.new = None /\ c.prev = None /\ c.got = None
        /\ c.masked = FALSE /\ c.expected = v
    BY <2>1, MatchCall
  <2>3. Begin(w, c)
    BY <1>2 DEF WriteIfMatchBegin
  <2> HIDE DEF c
  <2> QED BY <2>2, <2>3, BeginEffect
<1>3. ASSUME RescanBegin(w) PROVE Entering(w)
  <2>1. md \in Versions /\ md.meaning \in Bodies \cup {Masked}
    BY <1>0, <1>3, VersionFields DEF RescanBegin, NoteIsThere
  <2> DEFINE c == [Idle EXCEPT !.pc = "judge", !.meaning = md.meaning]
  <2>2. c \in Calls /\ c.pc = "judge" /\ c.new = None /\ c.prev = None /\ c.got = None
        /\ c.masked = FALSE /\ c.expected = None
    BY <2>1, WriteCall
  <2>3. Begin(w, c)
    BY <1>3 DEF RescanBegin
  <2> HIDE DEF c
  <2> QED BY <2>2, <2>3, BeginEffect
<1>4. ASSUME EditBegin(w) PROVE Entering(w)
  <2> DEFINE base == IF CacheHit THEN cache ELSE md
             c == [Idle EXCEPT !.pc = "judge", !.meaning = base.meaning,
                               !.expected = base, !.edit = TRUE]
  <2>1. base \in Versions /\ base \in {row, md} /\ row # None
    BY <1>0, <1>4 DEF EditBegin, CacheHit, NoteIsThere, TypeOK
  <2>2. Enter(w, c) /\ UNCHANGED <<files, reader, stamp>>
    BY <1>4 DEF EditBegin, files, disk, ghosts
  <2>3. base.meaning \in Bodies \cup {Masked}
    BY <2>1, VersionFields
  <2> HIDE DEF base
  <2>4. c \in Calls /\ c.pc = "judge" /\ c.new = None /\ c.prev = None /\ c.got = None
        /\ c.masked = FALSE /\ c.expected = base
    BY <2>1, <2>3, EditCall
  <2> HIDE DEF c
  <2>5. Enters(w) /\ writer'[w].pc = "judge" /\ writer'[w].expected = base
    BY <2>2, <2>4, GoesIn
  <2>6. writer'[w].pc # "compare"
    BY <2>5
  <2> QED BY <2>1, <2>2, <2>5, <2>6 DEF Entering
<1>5. ASSUME Compare(w) PROVE Comparing(w)
  <2>1. writer[w].pc = "compare" /\ UNCHANGED <<files, reader, stamp>>
    BY <1>5 DEF Compare, files, disk, ghosts
  <2>2. CASE Return(w)
    <3>1. Ends(w)
      BY <2>2, GoesEnd
    <3> QED BY <2>1, <3>1 DEF Comparing
  <2>3. CASE writer' = [writer EXCEPT ![w].pc = "judge"] /\ ~Return(w)
    <3>1. writer[w].expected \in {row, md} \/ row = None \/ md = None
      BY <1>5, <2>3 DEF Compare, CacheHit, ValidatorFails, NoteIsThere
    <3>2. Moves(w, "judge") /\ writer'[w].got = writer[w].got
          /\ writer'[w].doomed = writer[w].doomed
      BY <1>p, <2>3, GoesOn
    <3> QED BY <2>1, <3>1, <3>2 DEF Comparing
  <2> QED BY <1>5, <2>2, <2>3 DEF Compare
<1>6. ASSUME NEW up \in BOOLEAN, Judge(w, up) PROVE Judging(w)
  <2> DEFINE hides == mode = "mask" /\ writer[w].meaning = Secret
             new == [n |-> stamp + 1, meaning |-> IF hides THEN Masked ELSE writer[w].meaning]
             prev == IF NoteIsThere THEN md ELSE None
             d == [writer[w] EXCEPT !.pc = "snapshot", !.prev = prev, !.new = new,
                                    !.masked = hides]
  <2>1. writer[w].pc = "judge" /\ UNCHANGED <<files, reader>> /\ stamp < MaxWrites
    BY <1>6 DEF Judge, files, disk, ghosts
  <2>2. CASE Return(w) /\ UNCHANGED stamp
    <3>1. Ends(w)
      BY <2>2, GoesEnd
    <3> QED BY <2>1, <2>2, <3>1 DEF Judging
  <2>3. CASE ~(Return(w) /\ UNCHANGED stamp)
    <3>1. /\ ~(NoteIsThere /\ md = Torn)
          /\ stamp' = stamp + 1
          /\ writer' = [writer EXCEPT ![w] = d]
      BY <1>0, <1>6, <2>3 DEF Judge, TypeOK
    <3>2. stamp + 1 \in Stamps
      BY <2>1, NoteVaultAssumption DEF TypeOK, Stamps
    <3>3. writer[w].meaning \in Bodies \cup {Masked}
      BY <1>0, CallFields
    <3>4. new \in Versions /\ new.n = stamp + 1
      BY <3>2, <3>3, VersionFields
    <3>5. new.meaning = IF hides THEN Masked ELSE writer[w].meaning
      BY <3>2, <3>3, VersionFields
    <3>6. new.meaning = Secret => mode = "report"
      BY <3>5, NoteVaultAssumption DEF TypeOK
    <3>7. prev \in Versions \cup {None} /\ hides \in BOOLEAN
      BY <1>0, <3>1 DEF NoteIsThere
    <3>8. hides => mode = "mask"
      OBVIOUS
    <3> HIDE DEF new, hides, prev
    <3>9. /\ d \in Calls /\ d.pc = "snapshot" /\ d.prev = prev /\ d.new = new
          /\ d.masked = hides /\ d.before = writer[w].before
      BY <1>0, <1>p, <3>4, <3>7 DEF Calls
    <3>10. d.expected = writer[w].expected /\ d.got = writer[w].got
      BY <1>0 DEF Calls
    <3> HIDE DEF d
    <3>11. writer'[w] = d /\ OthersStay(w)
      BY <3>1, <3>9 DEF TypeOK, OthersStay
    <3>12. writer'[w].prev = IF NoteIsThere THEN md ELSE None
      BY <3>9, <3>11 DEF prev
    <3> QED BY <2>1, <3>1, <3>4, <3>6, <3>8, <3>9, <3>10, <3>11, <3>12 DEF Judging
  <2> QED BY <2>2, <2>3
<1>7. ASSUME SnapshotBegin(w) PROVE Copying(w)
  <2>1. Moves(w, "copy") /\ writer'[w].got = md
    BY <1>0, <1>p, <1>7, GoesOnWith DEF SnapshotBegin
  <2>2. writer[w].pc = "snapshot" /\ writer[w].prev # None /\ ~writer[w].masked
    BY <1>7 DEF SnapshotBegin, Masks, MayDiffer
  <2>3. /\ history' = [history EXCEPT ![writer[w].prev.n] = Torn]
        /\ UNCHANGED <<md, row, mode, acked, superseded, hidden, waived, residue, reader, stamp>>
    BY <1>7 DEF SnapshotBegin, ghosts
  <2> QED BY <2>1, <2>2, <2>3 DEF Copying
<1>8. ASSUME SnapshotEnd(w) PROVE Copied(w)
  <2> DEFINE i == writer[w].prev.n
             alone == ~\E x \in Writers \ {w} : writer[x].pc = "copy" /\ writer[x].prev.n = i
  <2>1. /\ writer[w].pc = "copy"
        /\ residue' = residue \cup {v \in Clear(Whole({writer[w].got})) : Overlaps(w)}
        /\ UNCHANGED <<md, row, mode, acked, superseded, hidden, reader, stamp>>
    BY <1>8 DEF SnapshotEnd
  <2>2. CASE /\ \E c \in InPlace(history[i], alone, writer[w].got) :
                   history' = [history EXCEPT ![i] = c]
             /\ writer' = [writer EXCEPT ![w].pc = "list", ![w].got = None]
             /\ waived' = waived \cup {v \in Whole({writer[w].got}) : Overlaps(w)}
    <3>1. Moves(w, "list") /\ writer'[w].got = None
      BY <1>p, <2>2, GoesOnWith
    <3>2. \/ history' = [history EXCEPT ![i] = writer[w].got]
          \/ /\ history' = [history EXCEPT ![i] = Torn]
             /\ history[i] # Torn \/ \E x \in Writers : x # w /\ writer[x].pc = "copy"
      BY <2>2 DEF InPlace
    <3> QED BY <2>1, <2>2, <3>1, <3>2 DEF Copied
  <2>3. CASE /\ history' = [history EXCEPT ![i] = Torn]
             /\ writer' = [writer EXCEPT ![w].pc = "file", ![w].got = None]
             /\ waived' = waived \cup Whole({md})
    <3>1. Moves(w, "file") /\ writer'[w].got = None
      BY <1>p, <2>3, GoesOnWith
    <3> QED BY <2>1, <2>3, <3>1 DEF Copied
  <2> QED BY <1>8, <2>2, <2>3 DEF SnapshotEnd
<1>9. ASSUME NoSnapshot(w) PROVE Waiving(w)
  <2>1. Moves(w, "file") /\ writer'[w].got = writer[w].got
    BY <1>p, <1>9, GoesOn DEF NoSnapshot
  <2>2. /\ writer[w].pc = "snapshot" /\ ~(writer[w].masked /\ writer[w].prev # None)
        /\ waived' = waived \cup Whole({md})
        /\ UNCHANGED <<md, row, history, mode, acked, superseded, hidden, residue, reader, stamp>>
    BY <1>9 DEF NoSnapshot, Masks, disk
  <2> QED BY <2>1, <2>2 DEF Waiving
<1>10. ASSUME TrimList(w) PROVE Trimming(w)
  <2>1. Excess \in SUBSET Stamps /\ {} \in SUBSET Stamps
    BY DEF Excess
  <2>2. writer[w].pc = "list" /\ UNCHANGED <<files, reader, stamp>>
    BY <1>10 DEF TrimList, files, disk, ghosts
  <2>3. ASSUME Listed(w, Excess) PROVE Trimming(w)
    <3>1. /\ Moves(w, IF Excess = {} THEN "file" ELSE "delete")
          /\ writer'[w].got = writer[w].got /\ writer'[w].doomed = Excess
      BY <2>1, <2>3, GoesOnListed
    <3> QED BY <2>2, <3>1 DEF Trimming
  <2>4. ASSUME Listed(w, {}) PROVE Trimming(w)
    <3>1. /\ Moves(w, IF {} = {} THEN "file" ELSE "delete")
          /\ writer'[w].got = writer[w].got
      BY <2>1, <2>4, GoesOnListed
    <3> QED BY <2>2, <3>1 DEF Trimming
  <2> QED BY <1>10, <2>3, <2>4 DEF TrimList
<1>11. ASSUME PurgeList(w) PROVE Purging(w)
  <2> DEFINE D == {i \in Stamps : history[i] # None}
  <2>1. D \in SUBSET Stamps /\ {} \in SUBSET Stamps
    OBVIOUS
  <2>2. /\ writer[w].pc = "snapshot" /\ writer[w].masked /\ writer[w].prev # None
        /\ waived' = waived \cup Whole({md})
        /\ UNCHANGED <<md, row, history, mode, acked, superseded, hidden, reader, stamp>>
    BY <1>11 DEF PurgeList, Masks, disk
  <2>3. ASSUME Listed(w, D), UNCHANGED residue PROVE Purging(w)
    <3>1. /\ Moves(w, IF D = {} THEN "file" ELSE "delete")
          /\ writer'[w].got = writer[w].got /\ writer'[w].doomed = D
      BY <2>1, <2>3, GoesOnListed
    <3>2. CASE D = {}
      <4>1. \A i \in Stamps : history[i] = None
        BY <3>2
      <4>2. \A i \in Stamps : ~IsClear(history[i])
        BY <4>1, VersionsAreReal DEF IsClear
      <4> QED BY <2>2, <2>3, <3>1, <3>2, <4>2 DEF Purging
    <3> QED BY <2>2, <2>3, <3>1, <3>2 DEF Purging
  <2>4. ASSUME Listed(w, {}), residue' = residue \cup Clear(Stored) PROVE Purging(w)
    <3>1. /\ Moves(w, IF {} = {} THEN "file" ELSE "delete")
          /\ writer'[w].got = writer[w].got
      BY <2>1, <2>4, GoesOnListed
    <3>2. \A i \in Stamps : IsClear(history[i]) => history[i] \in residue'
      BY <2>4, VersionsAreReal DEF IsClear, Clear, Stored, Whole
    <3> QED BY <2>2, <2>4, <3>1, <3>2 DEF Purging
  <2> QED BY <1>11, <2>3, <2>4 DEF PurgeList
<1>12. ASSUME NEW i \in Stamps, DeleteSnapshot(w, i) PROVE Deleting(w, i)
  <2> DEFINE left == writer[w].doomed \ {i}
  <2>1. left \in SUBSET Stamps
    BY <1>0, CallFields
  <2>2. /\ writer[w].pc = "delete" /\ i \in writer[w].doomed
        /\ writer[w].masked \/ \A k \in left : i < k
        /\ UNCHANGED <<md, row, mode, acked, superseded, hidden, reader, stamp>>
    BY <1>12 DEF DeleteSnapshot
  <2>3. /\ Moves(w, IF left = {} THEN "file" ELSE "delete")
        /\ writer'[w].got = writer[w].got /\ writer'[w].doomed = left
    BY <1>12, <2>1, GoesOnListed DEF DeleteSnapshot
  <2>4. \/ /\ history' = [history EXCEPT ![i] = None]
           /\ waived' = waived \cup Whole({history[i]})
           /\ UNCHANGED residue
        \/ /\ writer[w].masked /\ IsClear(history[i]) => history[i] \in residue'
           /\ residue \subseteq residue'
           /\ UNCHANGED <<history, waived>>
    BY <1>12, VersionsAreReal DEF DeleteSnapshot, IsClear, Clear, Whole
  <2> QED BY <2>2, <2>3, <2>4 DEF Deleting
<1>13. ASSUME WriteFileBegin(w) PROVE Opening(w)
  <2>1. /\ writer[w].pc = "file"
        /\ UNCHANGED <<row, history, mode, acked, superseded, hidden, waived, residue, reader, stamp>>
    BY <1>13 DEF WriteFileBegin, ghosts
  <2>2. ASSUME md' = Torn, writer' = [writer EXCEPT ![w].pc = "write"] PROVE Opening(w)
    <3>1. Moves(w, "write") /\ writer'[w].got = writer[w].got
      BY <1>p, <2>2, GoesOn
    <3> QED BY <2>1, <2>2, <3>1 DEF Opening
  <2>3. ASSUME Return(w), UNCHANGED md PROVE Opening(w)
    <3>1. Ends(w)
      BY <2>3, GoesEnd
    <3> QED BY <2>1, <2>3, <3>1 DEF Opening
  <2> QED BY <1>13, <2>2, <2>3 DEF WriteFileBegin
<1>14. ASSUME WriteFileEnd(w) PROVE Writing(w)
  <2>1. /\ writer[w].pc = "write"
        /\ UNCHANGED <<row, history, mode, acked, superseded, hidden, waived, residue, reader, stamp>>
    BY <1>14 DEF WriteFileEnd, ghosts
  <2>2. ASSUME md' \in {writer[w].new, Torn}, writer' = [writer EXCEPT ![w].pc = "index"]
        PROVE  Writing(w)
    <3>1. Moves(w, "index") /\ writer'[w].got = writer[w].got
      BY <1>p, <2>2, GoesOn
    <3> QED BY <2>1, <2>2, <3>1 DEF Writing
  <2>3. ASSUME Return(w), md' = Torn PROVE Writing(w)
    <3>1. Ends(w)
      BY <2>3, GoesEnd
    <3> QED BY <2>1, <2>3, <3>1 DEF Writing
  <2> QED BY <1>14, <2>2, <2>3 DEF WriteFileEnd, InPlace
<1>15. ASSUME WriteIndex(w) PROVE Answering(w)
  <2>1. Ends(w)
    BY <1>15, GoesEnd DEF WriteIndex
  <2> QED BY <1>15, <2>1 DEF WriteIndex, Answering
<1> QED BY <1>1, <1>2, <1>3, <1>4, <1>5, <1>6, <1>7, <1>8, <1>9, <1>10, <1>11, <1>12, <1>13,
           <1>14, <1>15 DEF WriterStep, CallStep

(* Every step is a step of a call, a step of a reader or of the cache, or a *)
(* restart.                                                                 *)
LEMMA StepEffects ==
  ASSUME TypeOK, [Next]_vars
  PROVE  (\E w \in Writers : CallStep(w)) \/ Reading \/ Restarting
<1>1. ASSUME NEW w \in Writers, WriterStep(w) PROVE CallStep(w)
  BY <1>1, CallEffects
<1>2. ASSUME NEW r \in Readers, ReaderStep(r) PROVE Reading
  BY <1>2 DEF ReaderStep, ReadLookup, ReadLoad, ReadInsert, Reading, files, disk, ghosts
<1>3. ASSUME Evict \/ UNCHANGED vars PROVE Reading
  BY <1>3 DEF Evict, Reading, vars, files, disk, ghosts
<1>4. ASSUME NEW m \in {"report", "mask"}, Restart(m) PROVE Restarting
  BY <1>4 DEF Restart, Restarting, disk, ghosts
<1> QED BY <1>1, <1>2, <1>3, <1>4 DEF Next

-----------------------------------------------------------------------------
(* Types.                                                                   *)
LEMMA HistoryTypes ==
  ASSUME TypeOK, NEW i, NEW c \in Versions \cup {None, Torn}
  PROVE  [history EXCEPT ![i] = c] \in [Stamps -> Versions \cup {None, Torn}]
BY DEF TypeOK

LEMMA DiskTypes ==
  ASSUME TypeOK, ShapeInv, NEW w \in Writers, CallStep(w)
  PROVE  /\ md' \in Versions \cup {None, Torn}
         /\ row' \in Versions \cup {None}
         /\ history' \in [Stamps -> Versions \cup {None, Torn}]
         /\ writer' \in [Writers -> Calls]
         /\ stamp' \in 0..MaxWrites
         /\ mode' = mode /\ reader' = reader
<1>0. /\ md \in Versions \cup {None, Torn} /\ row \in Versions \cup {None}
      /\ history \in [Stamps -> Versions \cup {None, Torn}] /\ stamp \in 0..MaxWrites
      /\ writer[w] \in Calls
  BY DEF TypeOK
<1>00. /\ writer[w].new \in Versions \cup {None} /\ writer[w].got \in Versions \cup {None, Torn}
       /\ writer[w].before \subseteq Stamps
  BY <1>0, CallFields
<1>1. writer' \in [Writers -> Calls]
  BY DEF CallStep, Entering, Comparing, Judging, Copying, Copied, Waiving, Trimming, Purging,
         Deleting, Opening, Writing, Answering, Enters, Moves, Ends, OthersStay
<1>2. md' \in Versions \cup {None, Torn}
  BY <1>0, <1>00 DEF CallStep, Entering, Comparing, Judging, Copying, Copied, Waiving, Trimming,
         Purging, Deleting, Opening, Writing, Answering, files
<1>3. row' \in Versions \cup {None}
  BY <1>0, <1>00 DEF CallStep, Entering, Comparing, Judging, Copying, Copied, Waiving, Trimming,
         Purging, Deleting, Opening, Writing, Answering, files
<1>4. history' \in [Stamps -> Versions \cup {None, Torn}]
  <2>1. CASE Copied(w)
    BY <1>00, <2>1, HistoryTypes DEF Copied
  <2>2. CASE Copying(w)
    BY <2>2, HistoryTypes DEF Copying
  <2>3. ASSUME NEW i \in Stamps, Deleting(w, i)
        PROVE  history' \in [Stamps -> Versions \cup {None, Torn}]
    BY <1>0, <2>3, HistoryTypes DEF Deleting
  <2>4. ASSUME UNCHANGED history PROVE history' \in [Stamps -> Versions \cup {None, Torn}]
    BY <1>0, <2>4
  <2> QED BY <2>1, <2>2, <2>3, <2>4 DEF CallStep, Entering, Comparing, Judging, Waiving,
             Trimming, Purging, Opening, Writing, Answering, files
<1>5. stamp' \in 0..MaxWrites
  <2>1. CASE Judging(w) /\ stamp' = stamp + 1
    <3>1. /\ writer'[w].new \in Versions /\ writer'[w].new.n = stamp + 1
      BY <2>1, <1>0 DEF Judging
    <3>2. stamp + 1 \in Stamps
      BY <3>1, VersionFields
    <3> QED BY <1>0, <2>1, <3>2 DEF Stamps
  <2>2. ASSUME UNCHANGED stamp PROVE stamp' \in 0..MaxWrites
    BY <1>0, <2>2
  <2> QED BY <2>1, <2>2 DEF CallStep, Entering, Comparing, Judging, Copying, Copied, Waiving,
             Trimming, Purging, Deleting, Opening, Writing, Answering
<1>6. mode' = mode /\ reader' = reader
  BY DEF CallStep, Entering, Comparing, Judging, Copying, Copied, Waiving, Trimming, Purging,
         Deleting, Opening, Writing, Answering, files
<1> QED BY <1>1, <1>2, <1>3, <1>4, <1>5, <1>6

LEMMA GhostTypes ==
  ASSUME TypeOK, ShapeInv, NEW w \in Writers, WriterStep(w)
  PROVE  /\ acked' \subseteq Versions
         /\ superseded' \subseteq Stamps
         /\ hidden' \in 0..MaxWrites
         /\ waived' \subseteq Versions
         /\ residue' \subseteq Versions
         /\ won' \in [Stamps -> Nat]
<1>0. /\ acked \subseteq Versions /\ superseded \subseteq Stamps /\ hidden \in 0..MaxWrites
      /\ waived \subseteq Versions /\ residue \subseteq Versions /\ won \in [Stamps -> Nat]
      /\ md \in Versions \cup {None, Torn} /\ history \in [Stamps -> Versions \cup {None, Torn}]
      /\ writer[w] \in Calls
  BY DEF TypeOK
<1>00. /\ writer[w].got \in Versions \cup {None, Torn} /\ writer[w].before \subseteq Stamps
       /\ Whole({md}) \subseteq Versions /\ Whole({writer[w].got}) \subseteq Versions
       /\ Stored \subseteq Versions
       /\ \A S \in SUBSET Versions : Clear(S) \subseteq Versions
       /\ \A i \in Stamps : Whole({history[i]}) \subseteq Versions
  BY <1>0, CallFields DEF Whole, Clear, Stored
<1>1. CASE WriteIndex(w)
  <2>1. writer[w].new \in Versions /\ writer[w].new.n \in Stamps
    BY <1>1, VersionFields DEF ShapeInv, Stamped, WriteIndex
  <2>2. writer[w].new.n \in 0..MaxWrites
    BY <2>1, NoteVaultAssumption DEF Stamps
  <2>3. won' \in [Stamps -> Nat]
    BY <1>0, <1>1 DEF WriteIndex
  <2> QED BY <1>0, <1>00, <1>1, <2>1, <2>2, <2>3 DEF WriteIndex
<1>2. CASE SnapshotEnd(w)
  BY <1>0, <1>00, <1>2 DEF SnapshotEnd
<1>3. CASE NoSnapshot(w) \/ PurgeList(w)
  BY <1>0, <1>00, <1>3 DEF NoSnapshot, PurgeList
<1>4. ASSUME NEW i \in Stamps, DeleteSnapshot(w, i)
      PROVE  /\ waived' \subseteq Versions /\ residue' \subseteq Versions
             /\ UNCHANGED <<acked, superseded, hidden, won>>
  BY <1>0, <1>00, <1>4 DEF DeleteSnapshot
<1>5. ASSUME UNCHANGED ghosts
      PROVE  /\ acked' \subseteq Versions /\ superseded' \subseteq Stamps
             /\ hidden' \in 0..MaxWrites /\ waived' \subseteq Versions
             /\ residue' \subseteq Versions /\ won' \in [Stamps -> Nat]
  BY <1>0, <1>5 DEF ghosts
<1>6. ASSUME ~WriteIndex(w), ~SnapshotEnd(w), ~NoSnapshot(w), ~PurgeList(w),
             \A i \in Stamps : ~DeleteSnapshot(w, i)
      PROVE  UNCHANGED ghosts
  BY <1>6 DEF WriterStep, WriteBegin, WriteIfMatchBegin, RescanBegin, Begin, EditBegin, Compare,
         Judge, SnapshotBegin, TrimList, WriteFileBegin, WriteFileEnd
<1> QED BY <1>0, <1>1, <1>2, <1>3, <1>4, <1>5, <1>6

(* The cache, the readers and the bounds.                                   *)
LEMMA RestTypes ==
  ASSUME TypeOK, [Next]_vars
  PROVE  /\ cache' \in Versions \cup {None}
         /\ reader' \in [Readers -> Reads]
         /\ faults' \in 0..MaxFaults
         /\ restarts' \in 0..MaxRestarts
         /\ mode' \in {"report", "mask"}
<1>0. /\ cache \in Versions \cup {None} /\ reader \in [Readers -> Reads]
      /\ faults \in 0..MaxFaults /\ restarts \in 0..MaxRestarts /\ mode \in {"report", "mask"}
      /\ md \in Versions \cup {None, Torn} /\ superseded \subseteq Stamps
      /\ MaxFaults \in Nat /\ MaxRestarts \in Nat
  BY NoteVaultAssumption DEF TypeOK
<1>1. ASSUME NEW w \in Writers, WriterStep(w)
      PROVE  /\ cache' \in Versions \cup {None} /\ faults' \in 0..MaxFaults
             /\ UNCHANGED <<reader, restarts, mode>>
  <2>1. CASE EditBegin(w)
    BY <1>0, <2>1 DEF EditBegin, CacheHit, NoteIsThere
  <2>2. CASE Compare(w)
    BY <1>0, <2>2 DEF Compare, CacheHit, NoteIsThere
  <2>3. ASSUME Fault PROVE faults' \in 0..MaxFaults
    BY <1>0, <2>3 DEF Fault
  <2>4. ASSUME ~EditBegin(w), ~Compare(w)
        PROVE  UNCHANGED <<cache, reader, restarts, mode>> /\ (UNCHANGED faults \/ Fault)
    BY <1>1, <2>4 DEF WriterStep, WriteBegin, WriteIfMatchBegin, RescanBegin, Begin, Judge,
         SnapshotBegin, SnapshotEnd, NoSnapshot, TrimList, PurgeList, DeleteSnapshot,
         WriteFileBegin, WriteFileEnd, WriteIndex
  <2> QED BY <1>0, <2>1, <2>2, <2>3, <2>4
<1>2. ASSUME NEW r \in Readers, ReaderStep(r)
      PROVE  /\ cache' \in Versions \cup {None} /\ reader' \in [Readers -> Reads]
             /\ UNCHANGED <<faults, restarts, mode>>
  <2>0. reader[r] \in Reads
    BY <1>0
  <2>00. NoRead \in Reads /\ (\A c \in Reads : c.got \in Versions \cup {None})
    BY DEF NoRead, Reads
  <2>1. ReadEnds(r) => reader' \in [Readers -> Reads]
    BY <1>0, <2>00 DEF ReadEnds
  <2>2. CASE ReadLookup(r)
    <3>1. [reader[r] EXCEPT !.pc = "load", !.floor = superseded] \in Reads
      BY <1>0, <2>0 DEF Reads
    <3>2. reader' = [reader EXCEPT ![r] = [reader[r] EXCEPT !.pc = "load", !.floor = superseded]]
      BY <1>0, <2>2 DEF ReadLookup
    <3>3. reader' \in [Readers -> Reads]
      BY <1>0, <3>1, <3>2
    <3> QED BY <1>0, <2>2, <3>3 DEF ReadLookup
  <2>3. CASE ReadLoad(r)
    <3>1. CASE NoteIsThere /\ md # Torn
      <4>1. md \in Versions
        BY <1>0, <3>1 DEF NoteIsThere
      <4>2. [reader[r] EXCEPT !.pc = "insert", !.got = md] \in Reads
        BY <4>1, <2>0 DEF Reads
      <4>3. reader' = [reader EXCEPT ![r] = [reader[r] EXCEPT !.pc = "insert", !.got = md]]
        BY <1>0, <2>3, <3>1 DEF ReadLoad
      <4>4. reader' \in [Readers -> Reads]
        BY <1>0, <4>2, <4>3
      <4> QED BY <1>0, <2>3, <4>4 DEF ReadLoad
    <3> QED BY <1>0, <2>1, <2>3, <3>1 DEF ReadLoad
  <2>4. CASE ReadInsert(r)
    BY <2>0, <2>00, <2>1, <2>4 DEF ReadInsert
  <2> QED BY <1>2, <2>2, <2>3, <2>4 DEF ReaderStep
<1>3. CASE Evict \/ UNCHANGED vars
  BY <1>0, <1>3 DEF Evict, vars
<1>4. ASSUME NEW m \in {"report", "mask"}, Restart(m)
      PROVE  /\ cache' \in Versions \cup {None} /\ reader' \in [Readers -> Reads]
             /\ faults' \in 0..MaxFaults /\ restarts' \in 0..MaxRestarts
             /\ mode' \in {"report", "mask"}
  <2>1. NoRead \in Reads
    BY DEF NoRead, Reads
  <2> QED BY <1>0, <1>4, <2>1 DEF Restart
<1> QED BY <1>0, <1>1, <1>2, <1>3, <1>4 DEF Next

LEMMA TypeStep ==
  ASSUME TypeOK, ShapeInv, [Next]_vars
  PROVE  TypeOK'
<1>1. /\ cache' \in Versions \cup {None}
      /\ reader' \in [Readers -> Reads]
      /\ faults' \in 0..MaxFaults
      /\ restarts' \in 0..MaxRestarts
      /\ mode' \in {"report", "mask"}
  BY RestTypes
<1>2. ASSUME NEW w \in Writers, WriterStep(w) PROVE TypeOK'
  <2>1. /\ md' \in Versions \cup {None, Torn}
        /\ row' \in Versions \cup {None}
        /\ history' \in [Stamps -> Versions \cup {None, Torn}]
        /\ writer' \in [Writers -> Calls]
        /\ stamp' \in 0..MaxWrites
    BY <1>2, CallEffects, DiskTypes
  <2>2. /\ acked' \subseteq Versions /\ superseded' \subseteq Stamps
        /\ hidden' \in 0..MaxWrites /\ waived' \subseteq Versions
        /\ residue' \subseteq Versions /\ won' \in [Stamps -> Nat]
    BY <1>2, GhostTypes
  <2> QED BY <1>1, <2>1, <2>2 DEF TypeOK
<1>3. ASSUME UNCHANGED <<disk, stamp, ghosts>>, writer' \in [Writers -> Calls] PROVE TypeOK'
  BY <1>1, <1>3 DEF TypeOK, disk, ghosts
<1>4. ASSUME NEW r \in Readers, ReaderStep(r)
      PROVE  UNCHANGED <<disk, stamp, ghosts>> /\ writer' \in [Writers -> Calls]
  BY <1>4 DEF ReaderStep, ReadLookup, ReadLoad, ReadInsert, TypeOK
<1>5. ASSUME Evict \/ UNCHANGED vars
      PROVE  UNCHANGED <<disk, stamp, ghosts>> /\ writer' \in [Writers -> Calls]
  BY <1>5 DEF Evict, vars, TypeOK
<1>6. ASSUME NEW m \in {"report", "mask"}, Restart(m)
      PROVE  UNCHANGED <<disk, stamp, ghosts>> /\ writer' \in [Writers -> Calls]
  BY <1>6, IdleFields DEF Restart
<1> QED BY <1>2, <1>3, <1>4, <1>5, <1>6 DEF Next

-----------------------------------------------------------------------------
(* The shape of the calls.                                                  *)
LEMMA ShapeMove ==
  ASSUME ShapeInv, NEW w \in Writers, Stamped(w), NEW p, Moves(w, p),
         p \in {"copy", "list", "delete", "file", "write", "index"},
         UNCHANGED <<row, stamp, acked>>, md # None => md' # None,
         p = "copy" => writer[w].prev # None /\ writer'[w].got # None /\ ~writer[w].masked,
         p = "list" => ~writer[w].masked,
         p = "index" => md' # None
  PROVE  ShapeInv'
<1>1. \A x \in Writers : /\ (Stamped(x))' <=> Stamped(x)
                         /\ writer'[x].new = writer[x].new
                         /\ writer'[x].before = writer[x].before
                         /\ writer'[x].masked = writer[x].masked
                         /\ writer'[x].prev = writer[x].prev
                         /\ writer'[x].expected = writer[x].expected
  BY DEF Stamped, Moves, OthersStay
<1>2. \A x \in Writers :
        /\ writer'[x].pc = "copy" => writer'[x].prev # None /\ writer'[x].got # None
        /\ writer'[x].pc \in {"copy", "list"} => ~writer'[x].masked
        /\ writer'[x].pc = "index" => md' # None
  BY DEF Moves, OthersStay, ShapeInv
<1> QED BY <1>1, <1>2 DEF ShapeInv

LEMMA ShapeEnd ==
  ASSUME ShapeInv, NEW w \in Writers, Ends(w), UNCHANGED stamp, md # None => md' # None,
         row # None => row' # None, row' # None => md' # None,
         row' = None => acked' = {}
  PROVE  ShapeInv'
<1>1. /\ writer'[w].new = None /\ writer'[w].before = {} /\ ~writer'[w].masked
      /\ writer'[w].prev = None /\ writer'[w].expected = None /\ writer'[w].pc = "idle"
  BY IdleFields DEF Ends
<1>2. ~(Stamped(w))'
  BY <1>1 DEF Stamped
<1>3. \A x \in Writers : x # w => writer'[x] = writer[x] /\ ((Stamped(x))' <=> Stamped(x))
  BY DEF Ends, OthersStay, Stamped
<1> QED BY <1>1, <1>2, <1>3 DEF ShapeInv

LEMMA ShapeEnter ==
  ASSUME ShapeInv, NEW w \in Writers, Entering(w), stamp \in Nat
  PROVE  ShapeInv'
<1>1. /\ writer'[w].new = None /\ ~writer'[w].masked /\ writer'[w].prev = None
      /\ writer'[w].pc \in {"compare", "judge"}
      /\ writer'[w].before \subseteq 1..stamp /\ ~(Stamped(w))'
      /\ UNCHANGED <<md, row, acked, stamp>>
  BY DEF Entering, Enters, Stamped, files
<1>2. \A x \in Writers : x # w => writer'[x] = writer[x] /\ ((Stamped(x))' <=> Stamped(x))
  BY DEF Entering, Enters, OthersStay, Stamped
<1>3. writer'[w].expected # None => row # None
  BY <1>1 DEF Entering, ShapeInv
<1>4. \A x \in Writers : Stamped(x) => writer[x].new.n \notin writer'[w].before
  <2> SUFFICES ASSUME NEW x \in Writers, Stamped(x)
               PROVE  writer[x].new.n \notin writer'[w].before
    OBVIOUS
  <2>1. x \in InFlight /\ writer[x].new # None
    BY VersionsAreReal DEF InFlight, Stamped, ShapeInv
  <2>2. writer[x].new.n \in StampOf(x)
    BY <2>1 DEF StampOf
  <2> QED BY <2>1, <2>2 DEF Entering, Enters
<1> QED BY <1>1, <1>2, <1>3, <1>4 DEF ShapeInv

LEMMA ShapeJudge ==
  ASSUME ShapeInv, NEW w \in Writers, writer[w].pc = "judge", stamp \in Nat,
         stamp' = stamp + 1, OthersStay(w), writer'[w].pc = "snapshot",
         writer'[w].prev = IF NoteIsThere THEN md ELSE None,
         writer'[w].new \in Versions, writer'[w].new.n = stamp + 1,
         writer'[w].before = writer[w].before, writer'[w].expected = writer[w].expected,
         UNCHANGED <<md, row, acked>>
  PROVE  ShapeInv'
<1>1. \A x \in Writers : x # w => writer'[x] = writer[x] /\ ((Stamped(x))' <=> Stamped(x))
  BY DEF OthersStay, Stamped
<1>2. (Stamped(w))' /\ stamp + 1 \in 1..stamp' /\ 1..stamp \subseteq 1..stamp'
      /\ stamp + 1 \notin 1..stamp
  BY DEF Stamped
<1>3. writer'[w].prev # None => row # None
  BY DEF NoteIsThere
<1>4. \A x \in Writers : writer'[x].before = writer[x].before /\ writer[x].before \subseteq 1..stamp
  BY <1>1 DEF ShapeInv
<1>5. \A x \in Writers : x # w /\ Stamped(x) => writer[x].new.n \in 1..stamp
  BY DEF ShapeInv
<1>6. \A x \in Writers, y \in Writers : (Stamped(x))' => writer'[x].new.n \notin writer'[y].before
  BY <1>1, <1>2, <1>4 DEF ShapeInv
<1>7. \A x \in Writers, y \in Writers : (Stamped(x))' /\ (Stamped(y))' /\ x # y =>
        writer'[x].new.n # writer'[y].new.n
  BY <1>1, <1>2, <1>5 DEF ShapeInv
<1>8. \A x \in Writers :
       /\ writer'[x].before \subseteq 1..stamp'
       /\ (Stamped(x))' => writer'[x].new \in Versions /\ writer'[x].new.n \in 1..stamp'
       /\ ~(Stamped(x))' => writer'[x].new = None /\ ~writer'[x].masked
       /\ writer'[x].pc = "copy" => writer'[x].prev # None /\ writer'[x].got # None
       /\ writer'[x].pc \in {"copy", "list"} => ~writer'[x].masked
       /\ writer'[x].prev # None => row # None
       /\ writer'[x].expected # None => row # None
       /\ writer'[x].pc = "index" => md # None
  BY <1>1, <1>2, <1>3, <1>4, <1>5 DEF ShapeInv
<1> QED BY <1>6, <1>7, <1>8 DEF ShapeInv

LEMMA ShapeStep ==
  ASSUME TypeOK, ShapeInv, [Next]_vars
  PROVE  ShapeInv'
<1>0. stamp \in Nat /\ Torn # None
  BY NoteVaultAssumption DEF TypeOK
<1>1. ASSUME NEW w \in Writers, CallStep(w) PROVE ShapeInv'
  <2>0. Stamped(w) => writer[w].new \in Versions /\ writer[w].new # None
    BY VersionsAreReal DEF ShapeInv
  <2>1. CASE Entering(w)
    BY <1>0, <2>1, ShapeEnter
  <2>2. CASE Comparing(w)
    <3>1. CASE Ends(w)
      <4>1. UNCHANGED <<md, row, acked, stamp>>
        BY <2>2 DEF Comparing, files
      <4> QED BY <3>1, <4>1, ShapeEnd DEF ShapeInv
    <3>2. CASE Moves(w, "judge")
      <4>1. UNCHANGED <<md, row, acked, stamp>> /\ writer[w].pc = "compare"
        BY <2>2 DEF Comparing, files
      <4>2. \A x \in Writers : /\ (Stamped(x))' <=> Stamped(x)
                               /\ writer'[x].new = writer[x].new
                               /\ writer'[x].before = writer[x].before
                               /\ writer'[x].masked = writer[x].masked
                               /\ writer'[x].prev = writer[x].prev
                               /\ writer'[x].expected = writer[x].expected
        BY <3>2, <4>1 DEF Stamped, Moves, OthersStay
      <4>3. \A x \in Writers :
              /\ writer'[x].pc = "copy" => writer'[x].prev # None /\ writer'[x].got # None
              /\ writer'[x].pc \in {"copy", "list"} => ~writer'[x].masked
              /\ writer'[x].pc = "index" => md' # None
        BY <3>2, <4>1 DEF Moves, OthersStay, ShapeInv
      <4> QED BY <4>1, <4>2, <4>3 DEF ShapeInv
    <3> QED BY <2>2, <3>1, <3>2 DEF Comparing
  <2>3. CASE Judging(w)
    <3>1. CASE Ends(w) /\ UNCHANGED stamp
      <4>1. UNCHANGED <<md, row, acked>>
        BY <2>3 DEF Judging, files
      <4> QED BY <3>1, <4>1, ShapeEnd DEF ShapeInv
    <3>2. CASE ~(Ends(w) /\ UNCHANGED stamp)
      BY <1>0, <2>3, <3>2, ShapeJudge DEF Judging, files
    <3> QED BY <3>1, <3>2
  <2>4. CASE Copying(w)
    <3>1. md # None
      BY <2>4 DEF Copying, ShapeInv
    <3> QED BY <2>4, <3>1, ShapeMove DEF Copying, Stamped
  <2>5. CASE Copied(w)
    <3>1. ~writer[w].masked /\ Stamped(w)
      BY <2>5 DEF Copied, ShapeInv, Stamped
    <3> QED BY <2>5, <3>1, ShapeMove DEF Copied
  <2>6. CASE Waiving(w)
    BY <2>6, ShapeMove DEF Waiving, Stamped
  <2>7. CASE Trimming(w)
    BY <2>7, ShapeMove DEF Trimming, Stamped, files
  <2>8. CASE Purging(w)
    BY <2>8, ShapeMove DEF Purging, Stamped
  <2>9. ASSUME NEW i \in Stamps, Deleting(w, i) PROVE ShapeInv'
    BY <2>9, ShapeMove DEF Deleting, Stamped
  <2>10. CASE Opening(w)
    <3>1. CASE Ends(w)
      BY <1>0, <2>10, <3>1, ShapeEnd DEF Opening, ShapeInv
    <3>2. CASE Moves(w, "write") /\ md' = Torn
      BY <1>0, <2>10, <3>2, ShapeMove DEF Opening, Stamped
    <3> QED BY <2>10, <3>1, <3>2 DEF Opening
  <2>11. CASE Writing(w)
    <3>0. md' # None
      BY <1>0, <2>0, <2>11 DEF Writing, Stamped
    <3>1. CASE Ends(w)
      BY <3>0, <2>11, <3>1, ShapeEnd DEF Writing, ShapeInv
    <3>2. CASE Moves(w, "index")
      BY <3>0, <2>11, <3>2, ShapeMove DEF Writing, Stamped
    <3> QED BY <2>11, <3>1, <3>2 DEF Writing
  <2>12. CASE Answering(w)
    <3>1. writer[w].new # None /\ md # None
      BY <2>0, <2>12 DEF Answering, Stamped, ShapeInv
    <3> QED BY <2>12, <3>1, ShapeEnd DEF Answering, ShapeInv
  <2> QED BY <1>1, <2>1, <2>2, <2>3, <2>4, <2>5, <2>6, <2>7, <2>8, <2>9, <2>10, <2>11, <2>12
             DEF CallStep
<1>2. CASE Reading
  BY <1>2 DEF Reading, ShapeInv, Stamped, files
<1>3. CASE Restarting
  <2>1. \A x \in Writers : /\ writer'[x].new = None /\ writer'[x].before = {}
                           /\ ~writer'[x].masked /\ writer'[x].prev = None
                           /\ writer'[x].expected = None /\ writer'[x].pc = "idle"
    BY <1>3, IdleFields DEF Restarting
  <2>2. \A x \in Writers : ~(Stamped(x))'
    BY <2>1 DEF Stamped
  <2> QED BY <1>3, <2>1, <2>2 DEF Restarting, ShapeInv
<1> QED BY <1>1, <1>2, <1>3, StepEffects

-----------------------------------------------------------------------------
(* Freshness.                                                               *)

(* A step that supersedes nothing and leaves the row alone.                 *)
LEMMA FreshKept ==
  ASSUME FreshInv, UNCHANGED <<row, superseded>>, 1..stamp \subseteq 1..stamp',
         \A x \in Writers : (Stamped(x))' => writer'[x].new.n \notin superseded,
         md' \in Versions => md'.n \notin superseded,
         \A x \in Writers : writer'[x].pc = "index" /\ md' \in Versions =>
                              md'.n \notin writer'[x].before
  PROVE  FreshInv'
BY DEF FreshInv

(* The file stays too, and no call comes to its answer.                     *)
LEMMA FreshSame ==
  ASSUME FreshInv, NEW w \in Writers, OthersStay(w), UNCHANGED <<md, row, superseded>>,
         1..stamp \subseteq 1..stamp', writer'[w].pc # "index",
         (Stamped(w))' => writer'[w].new.n \notin superseded
  PROVE  FreshInv'
<1>1. \A x \in Writers : x # w => writer'[x] = writer[x] /\ ((Stamped(x))' <=> Stamped(x))
  BY DEF OthersStay, Stamped
<1> QED BY <1>1, FreshKept DEF FreshInv

LEMMA FreshStep ==
  ASSUME TypeOK, ShapeInv, FreshInv, [Next]_vars
  PROVE  FreshInv'
<1>0. stamp \in Nat /\ Torn \notin Versions /\ None \notin Versions
  BY NoteVaultAssumption DEF TypeOK
<1>00. 1..stamp \subseteq 1..stamp
  OBVIOUS
<1>1. ASSUME NEW w \in Writers, CallStep(w) PROVE FreshInv'
  <2>0. ASSUME Ends(w) PROVE writer'[w].pc = "idle" /\ ~(Stamped(w))' /\ OthersStay(w)
    BY <2>0, IdleFields DEF Ends, Stamped
  <2>1. CASE Entering(w)
    BY <1>00, <2>1, FreshSame DEF Entering, Enters, Stamped, files
  <2>2. CASE Comparing(w)
    BY <1>00, <2>0, <2>2, FreshSame DEF Comparing, Moves, Stamped, files
  <2>3. CASE Judging(w)
    <3>1. CASE Ends(w) /\ UNCHANGED stamp
      BY <1>00, <2>0, <2>3, <3>1, FreshSame DEF Judging, files
    <3>2. CASE ~(Ends(w) /\ UNCHANGED stamp)
      <4>1. /\ stamp' = stamp + 1 /\ OthersStay(w) /\ writer'[w].pc = "snapshot"
            /\ writer'[w].new.n = stamp + 1 /\ UNCHANGED <<md, row, superseded>>
        BY <2>3, <3>2 DEF Judging, files
      <4>2. 1..stamp \subseteq 1..stamp' /\ stamp + 1 \notin superseded
        BY <1>0, <4>1 DEF FreshInv
      <4> QED BY <4>1, <4>2, FreshSame
    <3> QED BY <3>1, <3>2
  <2>4. ASSUME NEW p, Moves(w, p), p # "index", Stamped(w), UNCHANGED <<md, row, superseded, stamp>>
        PROVE  FreshInv'
    <3>1. writer'[w].pc # "index" /\ OthersStay(w) /\ writer'[w].new.n \notin superseded
      BY <2>4 DEF Moves, FreshInv
    <3> QED BY <1>00, <2>4, <3>1, FreshSame
  <2>5. CASE Copying(w)
    BY <2>4, <2>5 DEF Copying, Stamped
  <2>6. CASE Copied(w)
    BY <2>4, <2>6 DEF Copied, Stamped
  <2>7. CASE Waiving(w)
    BY <2>4, <2>7 DEF Waiving, Stamped
  <2>8. CASE Trimming(w)
    BY <2>4, <2>8 DEF Trimming, Stamped, files
  <2>9. CASE Purging(w)
    BY <2>4, <2>9 DEF Purging, Stamped
  <2>10. ASSUME NEW i \in Stamps, Deleting(w, i) PROVE FreshInv'
    BY <2>4, <2>10 DEF Deleting, Stamped
  <2>11. CASE Opening(w)
    <3>1. CASE Ends(w) /\ UNCHANGED md
      BY <1>00, <2>0, <2>11, <3>1, FreshSame DEF Opening
    <3>2. CASE Moves(w, "write") /\ md' = Torn
      <4>1. \A x \in Writers : (Stamped(x))' => Stamped(x) /\ writer'[x].new = writer[x].new
        BY <2>11, <3>2 DEF Opening, Moves, OthersStay, Stamped
      <4> QED BY <1>0, <1>00, <2>11, <3>2, <4>1, FreshKept DEF Opening, FreshInv
    <3> QED BY <2>11, <3>1, <3>2 DEF Opening
  <2>12. CASE Writing(w)
    <3>1. UNCHANGED <<row, superseded, stamp>> /\ Stamped(w)
      BY <2>12 DEF Writing, Stamped
    <3>2. CASE Ends(w) /\ md' = Torn
      <4>1. \A x \in Writers : (Stamped(x))' => Stamped(x) /\ writer'[x].new = writer[x].new
        BY <2>0, <3>2 DEF OthersStay, Stamped
      <4> QED BY <1>0, <1>00, <3>1, <3>2, <4>1, FreshKept DEF FreshInv
    <3>3. CASE Moves(w, "index") /\ md' \in {writer[w].new, Torn}
      <4>1. \A x \in Writers : /\ (Stamped(x))' => Stamped(x) /\ writer'[x].new = writer[x].new
                               /\ writer'[x].before = writer[x].before
        BY <3>1, <3>3 DEF Moves, OthersStay, Stamped
      <4>2. \A x \in Writers : writer[w].new.n \notin writer[x].before
        BY <3>1 DEF ShapeInv
      <4>3. writer[w].new.n \notin superseded
        BY <3>1 DEF FreshInv
      <4>4. \A x \in Writers : (Stamped(x))' => writer'[x].new.n \notin superseded
        BY <4>1 DEF FreshInv
      <4>5. \A x \in Writers : md' \in Versions => md'.n \notin writer'[x].before
        BY <1>0, <3>3, <4>1, <4>2
      <4>6. md' \in Versions => md'.n \notin superseded
        BY <1>0, <3>3, <4>3
      <4> QED BY <1>00, <3>1, <4>4, <4>5, <4>6, FreshKept
    <3> QED BY <2>12, <3>2, <3>3 DEF Writing
  <2>13. CASE Answering(w)
    <3>1. CASE UNCHANGED <<row, superseded>>
      BY <1>00, <2>0, <2>13, <3>1, FreshSame DEF Answering
    <3>2. CASE row' = writer[w].new /\ superseded' = superseded \cup writer[w].before
      <4>1. Stamped(w) /\ UNCHANGED <<md, stamp>> /\ Ends(w) /\ writer[w].pc = "index"
        BY <2>13 DEF Answering, Stamped
      <4>2. \A x \in Writers : (Stamped(x))' => Stamped(x) /\ writer'[x] = writer[x]
        BY <2>0, <4>1 DEF OthersStay, Stamped
      <4>3. \A x \in Writers : Stamped(x) => writer[x].new.n \notin superseded'
        BY <3>2 DEF FreshInv, ShapeInv
      <4>4. superseded' \subseteq 1..stamp'
        BY <3>2, <4>1 DEF FreshInv, ShapeInv
      <4>5. md \in Versions => md.n \notin superseded'
        BY <3>2, <4>1 DEF FreshInv
      <4>6. row' \in Versions => row'.n \notin superseded'
        BY <3>2, <4>1, <4>3
      <4>7. \A x \in Writers : writer'[x].pc = "index" => writer'[x] = writer[x]
        BY <2>0, <4>1 DEF OthersStay
      <4>8. \A x \in Writers : writer'[x].pc = "index" /\ md' \in Versions =>
              md'.n \notin writer'[x].before
        BY <4>1, <4>7 DEF FreshInv
      <4>9. \A x \in Writers : (Stamped(x))' => writer'[x].new.n \notin superseded'
        BY <4>2, <4>3
      <4> QED BY <4>1, <4>4, <4>5, <4>6, <4>8, <4>9 DEF FreshInv
    <3> QED BY <2>13, <3>1, <3>2 DEF Answering
  <2> QED BY <1>1, <2>1, <2>2, <2>3, <2>5, <2>6, <2>7, <2>8, <2>9, <2>10, <2>11, <2>12, <2>13
             DEF CallStep
<1>2. CASE Reading
  BY <1>2 DEF Reading, FreshInv, Stamped, files
<1>3. CASE Restarting
  <2>1. \A x \in Writers : writer'[x].pc = "idle"
    BY <1>3, IdleFields DEF Restarting
  <2>2. \A x \in Writers : ~(Stamped(x))' /\ writer'[x].pc # "index"
    BY <2>1 DEF Stamped
  <2> QED BY <1>3, <2>2 DEF Restarting, FreshInv
<1> QED BY <1>1, <1>2, <1>3, StepEffects

LEMMA ReadStep ==
  ASSUME TypeOK, FreshInv, ReadInv, [Next]_vars
  PROVE  ReadInv'
<1>0. reader \in [Readers -> Reads] /\ md \in Versions \cup {None, Torn}
  BY DEF TypeOK
<1>1. ASSUME NEW w \in Writers, WriterStep(w) PROVE ReadInv'
  <2>1. superseded \subseteq superseded' /\ reader' = reader
    BY <1>1, CallEffects DEF CallStep, Entering, Comparing, Judging, Copying, Copied, Waiving,
       Trimming, Purging, Deleting, Opening, Writing, Answering, files
  <2> QED BY <2>1 DEF ReadInv
<1>2. ASSUME NEW r \in Readers, ReaderStep(r) PROVE ReadInv'
  <2>1. reader[r] \in Reads /\ UNCHANGED superseded
    BY <1>0, <1>2 DEF ReaderStep, ReadLookup, ReadLoad, ReadInsert, ghosts
  <2>2. CASE ReadEnds(r)
    <3>1. reader'[r].floor = {} /\ reader'[r].pc = "idle"
      BY <1>0, <2>2 DEF ReadEnds, NoRead
    <3>2. \A x \in Readers : x # r => reader'[x] = reader[x]
      BY <1>0, <2>2 DEF ReadEnds
    <3> QED BY <2>1, <3>1, <3>2 DEF ReadInv
  <2>3. CASE ReadLookup(r)
    <3>1. reader' = [reader EXCEPT ![r] = [reader[r] EXCEPT !.pc = "load", !.floor = superseded]]
      BY <1>0, <2>3 DEF ReadLookup
    <3>2. reader'[r].floor = superseded /\ reader'[r].pc = "load"
      BY <1>0, <2>1, <3>1 DEF Reads
    <3>3. \A x \in Readers : x # r => reader'[x] = reader[x]
      BY <1>0, <3>1
    <3> QED BY <2>1, <3>2, <3>3 DEF ReadInv
  <2>4. CASE ReadLoad(r) /\ ~ReadEnds(r)
    <3>1. reader' = [reader EXCEPT ![r] = [reader[r] EXCEPT !.pc = "insert", !.got = md]]
          /\ md \in Versions
      BY <1>0, <2>4 DEF ReadLoad, NoteIsThere
    <3>2. reader'[r].floor = reader[r].floor /\ reader'[r].got = md
      BY <1>0, <2>1, <3>1 DEF Reads
    <3>3. \A x \in Readers : x # r => reader'[x] = reader[x]
      BY <1>0, <3>1
    <3> QED BY <2>1, <3>1, <3>2, <3>3 DEF ReadInv, FreshInv
  <2> QED BY <1>2, <2>2, <2>3, <2>4 DEF ReaderStep, ReadInsert
<1>3. CASE Evict \/ UNCHANGED vars
  BY <1>3 DEF Evict, vars, ghosts, ReadInv
<1>4. ASSUME NEW m \in {"report", "mask"}, Restart(m) PROVE ReadInv'
  BY <1>4 DEF Restart, NoRead, ReadInv
<1> QED BY <1>1, <1>2, <1>3, <1>4 DEF Next

-----------------------------------------------------------------------------
(* Writes that overlap.                                                     *)

(* A write that has its stamp overlaps every other one under way.           *)
LEMMA StampedContends ==
  ASSUME ShapeInv, NEW w \in Writers, NEW x \in Writers, w # x, Stamped(x),
         writer[w].pc # "idle"
  PROVE  Overlaps(w)
<1>1. writer[x].new.n \in 1..stamp /\ writer[x].new.n \notin writer[w].before
  BY DEF ShapeInv
<1>2. writer[x].new.n \notin StampOf(w)
  BY DEF StampOf, ShapeInv, Stamped
<1> QED BY <1>1, <1>2 DEF Overlaps

(* A write that overlaps none after a step of another call did not before,  *)
(* and that call has no stamp yet.                                          *)
LEMMA AloneBefore ==
  ASSUME TypeOK, ShapeInv, NEW w \in Writers, NEW x \in Writers, w # x, CallStep(x),
         writer[w].pc # "idle", ~(Overlaps(w))'
  PROVE  ~Overlaps(w) /\ ~Stamped(x) /\ UNCHANGED <<md, history, waived>>
<1>0. stamp \in Nat
  BY NoteVaultAssumption DEF TypeOK
<1>1. OthersStay(x)
  BY DEF CallStep, Entering, Comparing, Judging, Copying, Copied, Waiving, Trimming, Purging,
         Deleting, Opening, Writing, Answering, Enters, Moves, Ends
<1>2. 1..stamp \subseteq 1..stamp'
  <2>1. stamp' = stamp \/ stamp' = stamp + 1
    BY DEF CallStep, Entering, Comparing, Judging, Copying, Copied, Waiving, Trimming, Purging,
           Deleting, Opening, Writing, Answering
  <2> QED BY <1>0, <2>1
<1>3. writer'[w] = writer[w]
  BY <1>1 DEF OthersStay
<1>4. (StampOf(w))' = StampOf(w)
  BY <1>3 DEF StampOf
<1>5. ~Overlaps(w)
  BY <1>2, <1>3, <1>4 DEF Overlaps
<1>6. ~Stamped(x)
  BY <1>5, StampedContends
<1> QED BY <1>5, <1>6 DEF CallStep, Entering, Comparing, Judging, Copying, Copied, Waiving, Trimming,
           Purging, Deleting, Opening, Writing, Answering, Stamped, files

(* A call that goes on overlaps others after the step iff it did before.    *)
LEMMA AloneMoves ==
  ASSUME ShapeInv, NEW w \in Writers, NEW p, Moves(w, p), writer[w].pc # "idle", p # "idle",
         UNCHANGED stamp
  PROVE  (Overlaps(w))' <=> Overlaps(w)
<1>1. (StampOf(w))' = StampOf(w)
  BY DEF StampOf, Moves
<1> QED BY <1>1 DEF Overlaps, Moves

-----------------------------------------------------------------------------
(* Versions appear once.                                                    *)
Seen(v) == v = md \/ v \in waived \/ (\E i \in Stamps : history[i] = v)
             \/ (\E w \in Writers : writer[w].got = v)

(* Nothing is seen that was not seen before.                                *)
LEMMA SeenKept ==
  ASSUME SeenInv, UNCHANGED stamp, \A v \in Versions : (Seen(v))' => Seen(v),
         \A x \in Writers : (Unwritten(x))' => Unwritten(x) /\ writer'[x].new = writer[x].new
  PROVE  SeenInv'
BY DEF SeenInv, Seen

LEMMA UnwrittenMoves ==
  ASSUME NEW w \in Writers, (\E p : Moves(w, p)) \/ Ends(w), Unwritten(w)
  PROVE  \A x \in Writers : (Unwritten(x))' => Unwritten(x) /\ writer'[x].new = writer[x].new
<1>1. ASSUME NEW p, Moves(w, p), NEW x \in Writers, (Unwritten(x))'
      PROVE  Unwritten(x) /\ writer'[x].new = writer[x].new
  BY <1>1 DEF Moves, OthersStay, Unwritten
<1>2. ASSUME Ends(w), NEW x \in Writers, (Unwritten(x))'
      PROVE  Unwritten(x) /\ writer'[x].new = writer[x].new
  BY <1>2, IdleFields DEF Ends, OthersStay, Unwritten
<1> QED BY <1>1, <1>2

LEMMA GotKept ==
  ASSUME NEW w \in Writers, OthersStay(w), NEW v \in Versions,
         writer'[w].got \in {writer[w].got, md, None, Torn}
  PROVE  (\E x \in Writers : writer'[x].got = v) => v = md \/ \E x \in Writers : writer[x].got = v
BY VersionsAreReal DEF OthersStay

LEMMA SeenStep ==
  ASSUME TypeOK, ShapeInv, SeenInv, [Next]_vars
  PROVE  SeenInv'
<1>0. /\ stamp \in Nat /\ history \in [Stamps -> Versions \cup {None, Torn}]
      /\ \A v \in Versions : v.n \in Stamps
  BY VersionFields, NoteVaultAssumption DEF TypeOK
<1>1. ASSUME NEW w \in Writers, CallStep(w) PROVE SeenInv'
  <2>0. ASSUME Ends(w)
        PROVE  /\ OthersStay(w) /\ writer'[w].got = None /\ ~(Unwritten(w))'
               /\ \A x \in Writers : (Unwritten(x))' => Unwritten(x) /\ writer'[x].new = writer[x].new
    BY <2>0, IdleFields DEF Ends, OthersStay, Unwritten
  <2>1. CASE Entering(w)
    <3>1. /\ OthersStay(w) /\ writer'[w].got = None /\ UNCHANGED <<md, history, waived, stamp>>
          /\ ~(Unwritten(w))'
      BY <2>1 DEF Entering, Enters, files, Unwritten
    <3>2. \A v \in Versions : (Seen(v))' => Seen(v)
      BY <3>1, GotKept DEF Seen
    <3>3. \A x \in Writers : (Unwritten(x))' => Unwritten(x) /\ writer'[x].new = writer[x].new
      BY <3>1 DEF OthersStay, Unwritten
    <3> QED BY <3>1, <3>2, <3>3, SeenKept
  <2>2. CASE Comparing(w)
    <3>1. /\ OthersStay(w) /\ writer'[w].got \in {writer[w].got, None}
          /\ UNCHANGED <<md, history, waived, stamp>> /\ ~(Unwritten(w))'
      BY <2>0, <2>2 DEF Comparing, Moves, files, Unwritten
    <3>2. \A v \in Versions : (Seen(v))' => Seen(v)
      BY <3>1, GotKept DEF Seen
    <3>3. \A x \in Writers : (Unwritten(x))' => Unwritten(x) /\ writer'[x].new = writer[x].new
      BY <3>1 DEF OthersStay, Unwritten
    <3> QED BY <3>1, <3>2, <3>3, SeenKept
  <2>3. CASE Judging(w)
    <3>1. CASE Ends(w) /\ UNCHANGED stamp
      <4>1. UNCHANGED <<md, history, waived>>
        BY <2>3 DEF Judging, files
      <4>2. \A v \in Versions : (Seen(v))' => Seen(v)
        BY <2>0, <3>1, <4>1, GotKept DEF Seen
      <4> QED BY <2>0, <3>1, <4>2, SeenKept
    <3>2. CASE ~(Ends(w) /\ UNCHANGED stamp)
      <4>1. /\ stamp' = stamp + 1 /\ OthersStay(w) /\ writer'[w].got = writer[w].got
            /\ writer'[w].new.n = stamp + 1 /\ UNCHANGED <<md, history, waived>>
        BY <2>3, <3>2 DEF Judging, files
      <4>2. \A v \in Versions : (Seen(v))' => Seen(v)
        BY <4>1, GotKept DEF Seen
      <4>3. \A x \in Writers : x # w => writer'[x].new = writer[x].new
                                        /\ ((Unwritten(x))' <=> Unwritten(x))
        BY <4>1 DEF OthersStay, Unwritten
      <4>4. 1..stamp \subseteq 1..stamp' /\ stamp + 1 \notin 1..stamp
        BY <1>0, <4>1
      <4>5. ASSUME NEW v \in Versions, (Seen(v))'
            PROVE  v.n \in 1..stamp' /\ \A x \in Writers : (Unwritten(x))' => writer'[x].new.n # v.n
        BY <4>1, <4>2, <4>3, <4>4, <4>5 DEF SeenInv, Seen
      <4> QED BY <4>5 DEF SeenInv, Seen
    <3> QED BY <3>1, <3>2
  <2>4. CASE Copying(w)
    <3>1. /\ OthersStay(w) /\ writer'[w].got = md /\ UNCHANGED <<md, waived, stamp>>
          /\ \A i \in Stamps : history'[i] \in {history[i], Torn}
      BY <1>0, <2>4 DEF Copying, Moves
    <3>2. \A v \in Versions : (Seen(v))' => Seen(v)
      BY <3>1, GotKept, VersionsAreReal DEF Seen
    <3>3. \A x \in Writers : (Unwritten(x))' => Unwritten(x) /\ writer'[x].new = writer[x].new
      BY <2>4, UnwrittenMoves DEF Copying, Unwritten
    <3> QED BY <3>1, <3>2, <3>3, SeenKept
  <2>5. CASE Copied(w)
    <3>1. /\ OthersStay(w) /\ writer'[w].got = None /\ UNCHANGED <<md, stamp>>
          /\ \A i \in Stamps : history'[i] \in {history[i], Torn, writer[w].got}
      BY <1>0, <2>5 DEF Copied, Moves
    <3>2. waived' \subseteq waived \cup {md, writer[w].got}
      BY <2>5 DEF Copied, Whole
    <3>3. \A v \in Versions : (Seen(v))' => Seen(v)
      BY <3>1, <3>2, GotKept, VersionsAreReal DEF Seen
    <3>4. \A x \in Writers : (Unwritten(x))' => Unwritten(x) /\ writer'[x].new = writer[x].new
      BY <2>5, UnwrittenMoves DEF Copied, Unwritten
    <3> QED BY <3>1, <3>3, <3>4, SeenKept
  <2>6. CASE Waiving(w)
    <3>1. /\ OthersStay(w) /\ writer'[w].got = writer[w].got /\ UNCHANGED <<md, history, stamp>>
          /\ waived' \subseteq waived \cup {md}
      BY <2>6 DEF Waiving, Moves, Whole
    <3>2. \A v \in Versions : (Seen(v))' => Seen(v)
      BY <3>1, GotKept DEF Seen
    <3>3. \A x \in Writers : (Unwritten(x))' => Unwritten(x) /\ writer'[x].new = writer[x].new
      BY <2>6, UnwrittenMoves DEF Waiving, Unwritten
    <3> QED BY <3>1, <3>2, <3>3, SeenKept
  <2>7. CASE Trimming(w)
    <3>1. /\ OthersStay(w) /\ writer'[w].got = writer[w].got
          /\ UNCHANGED <<md, history, waived, stamp>>
      BY <2>7 DEF Trimming, Moves, files
    <3>2. \A v \in Versions : (Seen(v))' => Seen(v)
      BY <3>1, GotKept DEF Seen
    <3>3. \A x \in Writers : (Unwritten(x))' => Unwritten(x) /\ writer'[x].new = writer[x].new
      BY <2>7, UnwrittenMoves DEF Trimming, Unwritten
    <3> QED BY <3>1, <3>2, <3>3, SeenKept
  <2>8. CASE Purging(w)
    <3>1. /\ OthersStay(w) /\ writer'[w].got = writer[w].got /\ UNCHANGED <<md, history, stamp>>
          /\ waived' \subseteq waived \cup {md}
      BY <2>8 DEF Purging, Moves, Whole
    <3>2. \A v \in Versions : (Seen(v))' => Seen(v)
      BY <3>1, GotKept DEF Seen
    <3>3. \A x \in Writers : (Unwritten(x))' => Unwritten(x) /\ writer'[x].new = writer[x].new
      BY <2>8, UnwrittenMoves DEF Purging, Unwritten
    <3> QED BY <3>1, <3>2, <3>3, SeenKept
  <2>9. ASSUME NEW i \in Stamps, Deleting(w, i) PROVE SeenInv'
    <3>1. /\ OthersStay(w) /\ writer'[w].got = writer[w].got /\ UNCHANGED <<md, stamp>>
          /\ \A k \in Stamps : history'[k] \in {history[k], None}
          /\ waived' \subseteq waived \cup {history[i]}
      BY <1>0, <2>9 DEF Deleting, Moves, Whole
    <3>2. \A v \in Versions : (Seen(v))' => Seen(v)
      BY <3>1, GotKept, VersionsAreReal DEF Seen
    <3>3. \A x \in Writers : (Unwritten(x))' => Unwritten(x) /\ writer'[x].new = writer[x].new
      BY <2>9, UnwrittenMoves DEF Deleting, Unwritten
    <3> QED BY <3>1, <3>2, <3>3, SeenKept
  <2>10. CASE Opening(w)
    <3>1. /\ OthersStay(w) /\ writer'[w].got \in {writer[w].got, None}
          /\ UNCHANGED <<history, waived, stamp>> /\ md' \in {md, Torn}
      BY <2>0, <2>10 DEF Opening, Moves
    <3>2. \A v \in Versions : (Seen(v))' => Seen(v)
      BY <3>1, GotKept, VersionsAreReal DEF Seen
    <3>3. \A x \in Writers : (Unwritten(x))' => Unwritten(x) /\ writer'[x].new = writer[x].new
      BY <2>10, UnwrittenMoves DEF Opening, Unwritten
    <3> QED BY <3>1, <3>2, <3>3, SeenKept
  <2>11. CASE Writing(w)
    <3>1. /\ OthersStay(w) /\ writer'[w].got \in {writer[w].got, None}
          /\ UNCHANGED <<history, waived, stamp>> /\ md' \in {writer[w].new, Torn}
          /\ ~(Unwritten(w))'
      BY <2>0, <2>11 DEF Writing, Moves, Unwritten
    <3>2. \A v \in Versions : (Seen(v))' => Seen(v) \/ v = writer[w].new
      BY <3>1, GotKept, VersionsAreReal DEF Seen
    <3>3. \A x \in Writers : (Unwritten(x))' => /\ Unwritten(x) /\ writer'[x].new = writer[x].new
                                                /\ x # w
      BY <3>1 DEF OthersStay, Unwritten
    <3>4. Stamped(w) /\ \A x \in Writers : Unwritten(x) => Stamped(x)
      BY <2>11 DEF Writing, Stamped, Unwritten
    <3>5. /\ writer[w].new.n \in 1..stamp
          /\ \A x \in Writers : Unwritten(x) /\ x # w => writer[x].new.n # writer[w].new.n
      BY <3>4 DEF ShapeInv
    <3>6. ASSUME NEW v \in Versions, (Seen(v))'
          PROVE  v.n \in 1..stamp' /\ \A x \in Writers : (Unwritten(x))' => writer'[x].new.n # v.n
      BY <3>1, <3>2, <3>3, <3>5, <3>6 DEF SeenInv, Seen
    <3> QED BY <3>6 DEF SeenInv, Seen
  <2>12. CASE Answering(w)
    <3>1. UNCHANGED <<md, history, waived, stamp>> /\ Ends(w)
      BY <2>12 DEF Answering
    <3>2. \A v \in Versions : (Seen(v))' => Seen(v)
      BY <2>0, <3>1, GotKept DEF Seen
    <3> QED BY <2>0, <3>1, <3>2, SeenKept
  <2> QED BY <1>1, <2>1, <2>2, <2>3, <2>4, <2>5, <2>6, <2>7, <2>8, <2>9, <2>10, <2>11, <2>12
             DEF CallStep
<1>2. CASE Reading
  BY <1>2 DEF Reading, SeenInv, Unwritten, files
<1>3. CASE Restarting
  <2>1. \A x \in Writers : writer'[x].pc = "idle" /\ writer'[x].got = None
    BY <1>3, IdleFields DEF Restarting
  <2>2. \A x \in Writers : ~(Unwritten(x))'
    BY <2>1 DEF Unwritten
  <2>3. \A v \in Versions : (Seen(v))' => Seen(v)
    BY <1>3, <2>1, VersionsAreReal DEF Restarting, Seen
  <2> QED BY <1>3, <2>2, <2>3, SeenKept DEF Restarting
<1> QED BY <1>1, <1>2, <1>3, StepEffects


-----------------------------------------------------------------------------
(* A write that overlaps no other.                                          *)
LEMMA PrevStamp ==
  ASSUME TypeOK, NEW w \in Writers, writer[w].prev # None
  PROVE  writer[w].prev \in Versions /\ writer[w].prev.n \in Stamps
<1>1. writer[w] \in Calls
  BY DEF TypeOK
<1>2. writer[w].prev \in Versions
  BY <1>1, CallFields
<1> QED BY <1>2, VersionFields

LEMMA FiledStep ==
  ASSUME TypeOK, ShapeInv, FiledInv, AloneInv, [Next]_vars
  PROVE  FiledInv'
<1>0. history \in [Stamps -> Versions \cup {None, Torn}]
  BY DEF TypeOK
<1>k. ASSUME waived \subseteq waived', \A k \in Stamps : history'[k] \in {history[k], None, Torn}
      PROVE  FiledInv'
  BY <1>k, VersionsAreReal DEF FiledInv
<1>1. ASSUME NEW w \in Writers, CallStep(w) PROVE FiledInv'
  <2>1. CASE Copying(w)
    <3>1. waived \subseteq waived' /\ \A k \in Stamps : history'[k] \in {history[k], None, Torn}
      BY <1>0, <2>1 DEF Copying
    <3> QED BY <1>k, <3>1
  <2>2. CASE Copied(w)
    <3> DEFINE i == writer[w].prev.n
    <3>0. waived \subseteq waived'
      BY <2>2 DEF Copied
    <3>1. CASE history' = [history EXCEPT ![i] = Torn]
      <4>1. \A k \in Stamps : history'[k] \in {history[k], None, Torn}
        BY <1>0, <3>1
      <4> QED BY <1>k, <3>0, <4>1
    <3>2. CASE history' # [history EXCEPT ![i] = Torn]
      <4>1. /\ history' = [history EXCEPT ![i] = writer[w].got]
            /\ waived' = waived \cup {v \in Whole({writer[w].got}) : Overlaps(w)}
            /\ writer[w].pc = "copy"
        BY <2>2, <3>2 DEF Copied
      <4>2. \A k \in Stamps : k # i => history'[k] = history[k]
        BY <1>0, <4>1
      <4>3. i \in Stamps => history'[i] = writer[w].got
        BY <1>0, <4>1
      <4>4. writer[w].got \in Versions \ waived' => ~Overlaps(w)
        BY <4>1, VersionsAreReal DEF Whole
      <4>5. writer[w].got \in Versions \ waived' => writer[w].got = writer[w].prev
        BY <4>1, <4>4 DEF AloneInv, Unhindered
      <4>6. writer[w].got \in Versions \ waived' => writer[w].got.n = i
        BY <4>5
      <4> QED BY <3>0, <4>2, <4>3, <4>6 DEF FiledInv
    <3> QED BY <3>1, <3>2
  <2>3. ASSUME NEW i \in Stamps, Deleting(w, i) PROVE FiledInv'
    <3>1. waived \subseteq waived' /\ \A k \in Stamps : history'[k] \in {history[k], None, Torn}
      BY <1>0, <2>3 DEF Deleting
    <3> QED BY <1>k, <3>1
  <2>4. ASSUME UNCHANGED history, waived \subseteq waived' PROVE FiledInv'
    BY <1>k, <2>4
  <2> QED BY <1>1, <2>1, <2>2, <2>3, <2>4 DEF CallStep, Entering, Comparing, Judging, Waiving,
             Trimming, Purging, Opening, Writing, Answering, files
<1>2. CASE Reading
  BY <1>2 DEF Reading, FiledInv, files
<1>3. CASE Restarting
  BY <1>3 DEF Restarting, FiledInv
<1> QED BY <1>1, <1>2, <1>3, StepEffects

(* The file is kept or waived once the snapshot is decided on.              *)
LEMMA AloneSelf ==
  ASSUME TypeOK, ShapeInv, AloneInv, NEW w \in Writers, CallStep(w), ~(Overlaps(w))'
  PROVE  (Unhindered(w))'
<1>0. /\ history \in [Stamps -> Versions \cup {None, Torn}]
      /\ md \in Versions \cup {None, Torn} /\ MaxHistory \in Nat
      /\ writer[w] \in Calls
  BY NoteVaultAssumption DEF TypeOK
<1>e. ASSUME Ends(w) PROVE (Unhindered(w))'
  BY <1>e, IdleFields DEF Ends, Unhindered
<1>m. ASSUME NEW p, Moves(w, p), writer[w].pc # "idle", p # "idle", UNCHANGED stamp
      PROVE  ~Overlaps(w) /\ Unhindered(w)
  BY <1>m, AloneMoves DEF AloneInv, Unhindered
<1>1. CASE Entering(w)
  BY <1>1 DEF Entering, Enters, Unhindered
<1>2. CASE Comparing(w)
  <2>1. ASSUME Moves(w, "judge") PROVE (Unhindered(w))'
    BY <2>1 DEF Moves, Unhindered
  <2> QED BY <1>2, <1>e, <2>1 DEF Comparing
<1>3. CASE Judging(w)
  <2>1. ASSUME ~Ends(w) PROVE (Unhindered(w))'
    BY <1>3, <2>1 DEF Judging, Unhindered, files
  <2> QED BY <1>e, <2>1
<1>4. CASE Copying(w)
  <2>1. /\ writer[w].pc = "snapshot" /\ writer[w].prev # None /\ Moves(w, "copy")
        /\ writer'[w].got = md /\ UNCHANGED <<md, stamp>>
        /\ history' = [history EXCEPT ![writer[w].prev.n] = Torn]
    BY <1>4 DEF Copying
  <2>2. ~Overlaps(w) /\ Unhindered(w)
    BY <1>m, <2>1
  <2>3. md = writer[w].prev
    BY <2>1, <2>2 DEF Unhindered
  <2>4. writer'[w].pc = "copy" /\ writer'[w].prev = writer[w].prev
    BY <2>1 DEF Moves
  <2>5. history'[writer[w].prev.n] = Torn
    BY <1>0, <2>1, PrevStamp
  <2> QED BY <2>1, <2>3, <2>4, <2>5 DEF Unhindered
<1>5. CASE Copied(w)
  <2> DEFINE i == writer[w].prev.n
  <2>1. writer[w].pc = "copy" /\ UNCHANGED <<md, stamp>>
        /\ (Moves(w, "list") \/ Moves(w, "file"))
    BY <1>5 DEF Copied
  <2>2. ~Overlaps(w) /\ Unhindered(w)
    BY <1>m, <2>1
  <2>3. md = writer[w].prev /\ writer[w].got = md /\ history[i] = Torn
    BY <2>1, <2>2 DEF Unhindered
  <2>4. i \in Stamps
    BY <2>1, PrevStamp DEF ShapeInv
  <2>5. ~\E x \in Writers : x # w /\ writer[x].pc = "copy"
    BY <2>1, <2>2, StampedContends DEF Stamped
  <2>6. md' \in (Stored)' \cup waived' \cup {None, Torn}
    <3>1. CASE Moves(w, "list")
      <4>1. writer'[w].pc = "list"
        BY <3>1 DEF Moves
      <4>2. writer'[w].pc # "file"
        BY <4>1
      <4>3. history' = [history EXCEPT ![i] = writer[w].got]
        BY <1>5, <2>3, <2>5, <4>2 DEF Copied, Moves
      <4>4. history'[i] = md'
        BY <1>0, <2>1, <2>3, <2>4, <4>3
      <4> QED BY <2>4, <4>4 DEF Stored, Whole
    <3>2. CASE Moves(w, "file")
      <4>1. writer'[w].pc = "file"
        BY <3>2 DEF Moves
      <4>2. writer'[w].pc # "list"
        BY <4>1
      <4>3. waived' = waived \cup Whole({md})
        BY <1>5, <4>2 DEF Copied, Moves
      <4> QED BY <2>1, <4>3 DEF Whole
    <3> QED BY <2>1, <3>1, <3>2
  <2>7. writer'[w].pc \in {"list", "file"}
    BY <2>1 DEF Moves
  <2> QED BY <2>6, <2>7 DEF Unhindered
<1>6. CASE Waiving(w)
  <2>1. writer'[w].pc = "file" /\ waived' = waived \cup Whole({md}) /\ UNCHANGED md
    BY <1>6 DEF Waiving, Moves
  <2>2. md' \in waived' \cup {None, Torn}
    BY <2>1 DEF Whole
  <2> QED BY <2>1, <2>2 DEF Unhindered
<1>7. CASE Trimming(w)
  <2>1. /\ writer[w].pc = "list" /\ UNCHANGED <<md, history, waived, stamp>>
        /\ \/ Moves(w, "delete") /\ writer'[w].doomed = Excess
           \/ Moves(w, "file")
    BY <1>7 DEF Trimming, files
  <2>2. Unhindered(w)
    BY <1>m, <2>1
  <2>3. md' \in (Stored)' \cup waived' \cup {None, Torn} /\ writer'[w].pc \in {"delete", "file"}
    BY <2>1, <2>2 DEF Unhindered, Stored, Moves
  <2>4. writer'[w].pc = "delete" => writer'[w].doomed = Excess
    BY <2>1 DEF Moves
  <2>5. \A i \in Excess : Cardinality((Newer(i))') >= MaxHistory
    <3>1. \A i \in Stamps : (Newer(i))' = Newer(i)
      BY <2>1 DEF Newer
    <3> QED BY <3>1 DEF Excess
  <2> QED BY <2>3, <2>4, <2>5 DEF Unhindered
<1>8. CASE Purging(w)
  <2>1. writer'[w].pc \in {"delete", "file"} /\ writer'[w].masked
        /\ waived' = waived \cup Whole({md}) /\ UNCHANGED md
    BY <1>8 DEF Purging, Moves
  <2>2. md' \in waived' \cup {None, Torn}
    BY <2>1 DEF Whole
  <2> QED BY <2>1, <2>2 DEF Unhindered
<1>9. ASSUME NEW i \in Stamps, Deleting(w, i) PROVE (Unhindered(w))'
  <2>1. /\ writer[w].pc = "delete" /\ UNCHANGED <<md, stamp>>
        /\ (Moves(w, "delete") \/ Moves(w, "file"))
        /\ writer'[w].doomed = writer[w].doomed \ {i}
        /\ writer[w].masked \/ \A k \in writer[w].doomed \ {i} : i < k
    BY <1>9 DEF Deleting
  <2>2. Unhindered(w)
    BY <1>m, <2>1
  <2>3. writer'[w].pc \in {"delete", "file"} /\ writer'[w].masked = writer[w].masked
    BY <2>1 DEF Moves
  <2>4. md \in Stored \cup waived \cup {None, Torn}
    BY <2>1, <2>2 DEF Unhindered
  <2>5. md' \in (Stored)' \cup waived' \cup {None, Torn}
    <3>1. CASE UNCHANGED <<history, waived>>
      BY <2>1, <2>4, <3>1 DEF Stored
    <3>2. CASE history' = [history EXCEPT ![i] = None] /\ waived' = waived \cup Whole({history[i]})
      <4>1. \A k \in Stamps : k # i => history'[k] = history[k]
        BY <1>0, <3>2
      <4> QED BY <2>1, <2>4, <3>2, <4>1 DEF Stored, Whole
    <3> QED BY <1>9, <3>1, <3>2 DEF Deleting
  <2>6. ASSUME ~writer[w].masked, NEW k \in writer[w].doomed \ {i}
        PROVE  Cardinality((Newer(k))') >= MaxHistory
    <3>1. i < k /\ k \in Stamps
      BY <1>0, <2>1, <2>6, CallFields
    <3>2. \A j \in Stamps : j > k => j # i
      BY <3>1 DEF Stamps
    <3>3. \A j \in Stamps : j > k => history'[j] = history[j]
      BY <1>0, <1>9, <3>2 DEF Deleting
    <3>4. (Newer(k))' = Newer(k)
      BY <3>3 DEF Newer
    <3> QED BY <2>1, <2>2, <2>6, <3>4 DEF Unhindered
  <2> QED BY <2>1, <2>3, <2>5, <2>6 DEF Unhindered
<1>10. CASE Opening(w)
  <2>1. ASSUME Moves(w, "write"), md' = Torn PROVE (Unhindered(w))'
    BY <2>1 DEF Moves, Unhindered
  <2> QED BY <1>10, <1>e, <2>1 DEF Opening
<1>11. CASE Writing(w)
  <2>1. ASSUME Moves(w, "index") PROVE (Unhindered(w))'
    BY <2>1 DEF Moves, Unhindered
  <2> QED BY <1>11, <1>e, <2>1 DEF Writing
<1>12. CASE Answering(w)
  BY <1>12, <1>e DEF Answering
<1> QED BY <1>1, <1>2, <1>3, <1>4, <1>5, <1>6, <1>7, <1>8, <1>9, <1>10, <1>11, <1>12 DEF CallStep

LEMMA AloneStep ==
  ASSUME TypeOK, ShapeInv, AloneInv, [Next]_vars
  PROVE  AloneInv'
<1>1. ASSUME NEW w \in Writers, CallStep(w), NEW x \in Writers, ~(Overlaps(x))'
      PROVE  (Unhindered(x))'
  <2>1. CASE x = w
    BY <1>1, <2>1, AloneSelf
  <2>2. CASE x # w
    <3>1. writer'[x] = writer[x]
      BY <1>1, <2>2 DEF CallStep, Entering, Comparing, Judging, Copying, Copied, Waiving, Trimming,
         Purging, Deleting, Opening, Writing, Answering, Enters, Moves, Ends, OthersStay
    <3>2. CASE writer[x].pc = "idle"
      BY <3>1, <3>2 DEF Unhindered
    <3>3. CASE writer[x].pc # "idle"
      <4>1. ~Overlaps(x) /\ UNCHANGED <<md, history, waived>>
        BY <1>1, <2>2, <3>3, AloneBefore
      <4>2. Unhindered(x)
        BY <4>1 DEF AloneInv, Unhindered
      <4> QED BY <3>1, <4>1, <4>2 DEF Unhindered, Stored, Newer
    <3> QED BY <3>2, <3>3
  <2> QED BY <2>1, <2>2
<1>2. CASE Reading
  <2>1. UNCHANGED <<md, history, waived, writer, stamp>>
    BY <1>2 DEF Reading, files
  <2>2. \A x \in Writers : (Overlaps(x))' <=> Overlaps(x)
    BY <2>1 DEF Overlaps, StampOf
  <2>3. \A x \in Writers : (Unhindered(x))' <=> Unhindered(x)
    BY <2>1 DEF Unhindered, Stored, Newer
  <2>4. \A x \in Writers : ~Overlaps(x) => Unhindered(x)
    BY DEF AloneInv, Unhindered
  <2>5. \A x \in Writers : ~(Overlaps(x))' => (Unhindered(x))'
    BY <2>2, <2>3, <2>4
  <2> QED BY <2>5 DEF AloneInv, Unhindered
<1>3. CASE Restarting
  <2>1. \A x \in Writers : writer'[x].pc = "idle"
    BY <1>3, IdleFields DEF Restarting
  <2> QED BY <2>1 DEF AloneInv, Unhindered
<1>4. ASSUME NEW w \in Writers, CallStep(w) PROVE AloneInv'
  <2>1. \A x \in Writers : ~(Overlaps(x))' => (Unhindered(x))'
    BY <1>1, <1>4
  <2> QED BY <2>1 DEF AloneInv, Unhindered
<1> QED BY <1>2, <1>3, <1>4, StepEffects

-----------------------------------------------------------------------------
(* Masking.                                                                 *)

(* The clear snapshots that the purge of w has left behind.                 *)
Purged(w) ==
  writer[w].masked /\ (writer[w].pc # "snapshot" \/ writer[w].prev = None) =>
    \A i \in Stamps : IsClear(history[i]) =>
      history[i] \in residue \/ (writer[w].pc = "delete" /\ i \in writer[w].doomed)

(* A call goes on with its version, or ends, and hidden stays.              *)
LEMMA MaskMove ==
  ASSUME MaskInv, NEW w \in Writers, Stamped(w), (\E p : Moves(w, p)) \/ Ends(w),
         UNCHANGED <<row, hidden, mode, stamp>>,
         row # None \/ UNCHANGED history,
         IsClear(md') => hidden < md'.n,
         \A x \in Writers : writer'[x].masked /\ writer'[x].pc = "index" => ~IsClear(md'),
         \A x \in Writers : (Purged(x))',
         \A i \in Stamps : IsClear(history'[i]) /\ history'[i].n < hidden => history'[i] \in residue'
  PROVE  MaskInv'
<1>1. \A x \in Writers : /\ writer'[x].masked => writer[x].masked
                         /\ (Stamped(x))' => Stamped(x) /\ writer'[x].new = writer[x].new
  BY IdleFields DEF Moves, Ends, OthersStay, Stamped
<1>2. \A x \in Writers :
        /\ writer'[x].masked => mode' = "mask"
        /\ (Stamped(x))' /\ writer'[x].new.meaning = Secret =>
             mode' = "report" /\ hidden' < writer'[x].new.n
  BY <1>1 DEF MaskInv
<1>3. hidden' <= stamp' /\ (row' = None => \A i \in Stamps : history'[i] = None)
  BY DEF MaskInv
<1> QED BY <1>2, <1>3 DEF MaskInv, Purged, IsClear

LEMMA PurgedKept ==
  ASSUME MaskInv, NEW x \in Writers, writer'[x] = writer[x], residue \subseteq residue',
         \A i \in Stamps : IsClear(history'[i]) =>
           history'[i] = history[i] \/ history'[i] \in residue'
  PROVE  (Purged(x))'
BY DEF MaskInv, Purged, IsClear

LEMMA MaskStep ==
  ASSUME TypeOK, ShapeInv, AloneInv, MaskInv, [Next]_vars
  PROVE  MaskInv'
<1>0. /\ history \in [Stamps -> Versions \cup {None, Torn}]
      /\ md \in Versions \cup {None, Torn} /\ stamp \in Nat /\ hidden \in Nat
      /\ writer \in [Writers -> Calls] /\ mode \in {"report", "mask"}
  BY NoteVaultAssumption DEF TypeOK
<1>c. ~IsClear(Torn) /\ ~IsClear(None)
  BY VersionsAreReal DEF IsClear
<1>1. ASSUME NEW w \in Writers, CallStep(w) PROVE MaskInv'
  <2>0. ASSUME Ends(w)
        PROVE  ~writer'[w].masked /\ ~(Stamped(w))' /\ writer'[w].pc = "idle" /\ OthersStay(w)
    BY <2>0, IdleFields DEF Ends, Stamped
  <2>e. ASSUME ~writer'[w].masked, ~(Stamped(w))', OthersStay(w),
               UNCHANGED <<md, row, history, mode, hidden, residue, stamp>>
        PROVE  MaskInv'
    <3>1. \A x \in Writers : x # w => writer'[x] = writer[x] /\ ((Stamped(x))' <=> Stamped(x))
      BY <2>e DEF OthersStay, Stamped
    <3> QED BY <2>e, <3>1 DEF MaskInv, IsClear
  <2>1. CASE Entering(w)
    <3>1. ~writer'[w].masked /\ ~(Stamped(w))' /\ OthersStay(w)
          /\ UNCHANGED <<md, row, history, mode, hidden, residue, stamp>>
      BY <2>1 DEF Entering, Enters, Stamped, files
    <3> QED BY <2>e, <3>1
  <2>2. CASE Comparing(w)
    <3>1. ~writer'[w].masked /\ ~(Stamped(w))' /\ OthersStay(w)
          /\ UNCHANGED <<md, row, history, mode, hidden, residue, stamp>>
      BY <2>0, <2>2 DEF Comparing, Moves, Stamped, files, ShapeInv
    <3> QED BY <2>e, <3>1
  <2>3. CASE Judging(w)
    <3>0. UNCHANGED <<md, row, history, mode, hidden, residue>> /\ writer[w].pc = "judge"
      BY <2>3 DEF Judging, files
    <3>1. CASE Ends(w) /\ UNCHANGED stamp
      BY <2>0, <2>e, <3>0, <3>1
    <3>2. CASE ~(Ends(w) /\ UNCHANGED stamp)
      <4>1. /\ stamp' = stamp + 1 /\ OthersStay(w) /\ writer'[w].pc = "snapshot"
            /\ writer'[w].prev = IF NoteIsThere THEN md ELSE None
            /\ writer'[w].new.n = stamp + 1
            /\ writer'[w].masked => mode = "mask"
            /\ writer'[w].new.meaning = Secret => mode = "report"
        BY <2>3, <3>2 DEF Judging
      <4>2. hidden <= stamp' /\ hidden < stamp + 1
        BY <1>0, <4>1 DEF MaskInv
      <4>3. \A x \in Writers : x # w => writer'[x] = writer[x] /\ ((Stamped(x))' <=> Stamped(x))
        BY <4>1 DEF OthersStay, Stamped
      <4>4. writer'[w].prev = None => \A i \in Stamps : history[i] = None
        BY <4>1 DEF NoteIsThere, ShapeInv, MaskInv
      <4>5. (Purged(w))'
        BY <1>c, <3>0, <4>1, <4>4 DEF Purged, IsClear
      <4>6. \A x \in Writers : (Purged(x))'
        BY <3>0, <4>3, <4>5, PurgedKept
      <4>7. \A x \in Writers :
              /\ writer'[x].masked => mode' = "mask"
              /\ (Stamped(x))' /\ writer'[x].new.meaning = Secret =>
                   mode' = "report" /\ hidden' < writer'[x].new.n
              /\ writer'[x].masked /\ writer'[x].pc = "index" => ~IsClear(md')
        BY <3>0, <4>1, <4>2, <4>3 DEF MaskInv, IsClear
      <4> QED BY <3>0, <4>2, <4>6, <4>7 DEF MaskInv, Purged, IsClear
    <3> QED BY <3>1, <3>2
  <2>m. ASSUME NEW p, Moves(w, p), p # "index", UNCHANGED md
        PROVE  \A x \in Writers : writer'[x].masked /\ writer'[x].pc = "index" => ~IsClear(md')
    BY <2>m DEF Moves, OthersStay, MaskInv, IsClear
  <2>4. CASE Copying(w)
    <3>1. /\ writer[w].pc = "snapshot" /\ Moves(w, "copy")
          /\ UNCHANGED <<md, row, mode, hidden, residue, stamp>>
          /\ ~writer[w].masked /\ row # None
      BY <2>4 DEF Copying, ShapeInv
    <3>2. \A i \in Stamps : IsClear(history'[i]) => history'[i] = history[i]
      BY <1>0, <1>c, <2>4 DEF Copying
    <3>3. \A x \in Writers : (Purged(x))'
      BY <3>1, <3>2, PurgedKept DEF Moves, OthersStay, Purged
    <3>4. \A x \in Writers : writer'[x].masked /\ writer'[x].pc = "index" => ~IsClear(md')
      BY <2>m, <3>1
    <3>5. IsClear(md') => hidden < md'.n
      BY <3>1 DEF MaskInv
    <3>6. \A i \in Stamps : IsClear(history'[i]) /\ history'[i].n < hidden => history'[i] \in residue'
      BY <3>1, <3>2 DEF MaskInv
    <3>7. Stamped(w)
      BY <3>1 DEF Stamped
    <3> QED BY <3>1, <3>3, <3>4, <3>5, <3>6, <3>7, MaskMove
  <2>5. CASE Copied(w)
    <3> DEFINE i == writer[w].prev.n
    <3>1. /\ writer[w].pc = "copy" /\ (\E p \in {"list", "file"} : Moves(w, p))
          /\ UNCHANGED <<md, row, mode, hidden, stamp>>
          /\ residue' = residue \cup {v \in Clear(Whole({writer[w].got})) : Overlaps(w)}
      BY <2>5 DEF Copied
    <3>2. ~writer[w].masked /\ row # None /\ Stamped(w)
      BY <3>1 DEF ShapeInv, Stamped
    <3>3. \A k \in Stamps : history'[k] \in {history[k], Torn, writer[w].got}
      BY <1>0, <2>5 DEF Copied
    <3>4. IsClear(writer[w].got) /\ Overlaps(w) => writer[w].got \in residue'
      BY <3>1, VersionsAreReal DEF IsClear, Clear, Whole
    <3>5. ~Overlaps(w) => writer[w].got = md
      BY <3>1 DEF AloneInv, Unhindered
    <3>6. \A x \in Writers : (Purged(x))'
      <4>1. ASSUME NEW x \in Writers, x # w, writer[x].masked PROVE Overlaps(w)
        <5>1. Stamped(x)
          BY <4>1 DEF ShapeInv
        <5> QED BY <3>1, <4>1, <5>1, StampedContends
      <4>2. \A x \in Writers : x # w => writer'[x] = writer[x]
        BY <3>1 DEF Moves, OthersStay
      <4>3. ~writer'[w].masked
        BY <3>1, <3>2 DEF Moves
      <4>4. ASSUME NEW x \in Writers, x # w, writer[x].masked PROVE (Purged(x))'
        <5>1. \A k \in Stamps : IsClear(history'[k]) =>
                history'[k] = history[k] \/ history'[k] \in residue'
          BY <1>c, <3>3, <3>4, <4>1, <4>4
        <5> QED BY <3>1, <4>2, <4>4, <5>1, PurgedKept
      <4> QED BY <4>2, <4>3, <4>4 DEF Purged
    <3>7. \A k \in Stamps : IsClear(history'[k]) /\ history'[k].n < hidden => history'[k] \in residue'
      <4> SUFFICES ASSUME NEW k \in Stamps, IsClear(history'[k]), history'[k].n < hidden
                   PROVE  history'[k] \in residue'
        OBVIOUS
      <4>1. CASE history'[k] = history[k]
        BY <3>1, <4>1 DEF MaskInv
      <4>2. CASE history'[k] = writer[w].got /\ ~Overlaps(w)
        <5>1. IsClear(md) /\ md.n < hidden
          BY <3>5, <4>2
        <5>2. hidden < md.n /\ md.n \in Nat
          BY <5>1, VersionFields DEF MaskInv, IsClear, Stamps
        <5> QED BY <1>0, <5>1, <5>2
      <4>3. CASE history'[k] = writer[w].got /\ Overlaps(w)
        BY <3>4, <4>3
      <4> QED BY <1>c, <3>3, <4>1, <4>2, <4>3
    <3>8. \A x \in Writers : writer'[x].masked /\ writer'[x].pc = "index" => ~IsClear(md')
      BY <2>m, <3>1
    <3>9. IsClear(md') => hidden < md'.n
      BY <3>1 DEF MaskInv
    <3> QED BY <3>1, <3>2, <3>6, <3>7, <3>8, <3>9, MaskMove
  <2>6. CASE Waiving(w)
    <3>1. /\ writer[w].pc = "snapshot" /\ ~(writer[w].masked /\ writer[w].prev # None)
          /\ Moves(w, "file") /\ UNCHANGED <<md, row, history, mode, hidden, residue, stamp>>
      BY <2>6 DEF Waiving
    <3>2. (Purged(w))'
      BY <3>1 DEF Purged, MaskInv, Moves, IsClear
    <3>3. \A x \in Writers : (Purged(x))'
      BY <3>1, <3>2, PurgedKept DEF Moves, OthersStay
    <3>4. \A x \in Writers : writer'[x].masked /\ writer'[x].pc = "index" => ~IsClear(md')
      BY <2>m, <3>1
    <3>5. Stamped(w)
      BY <3>1 DEF Stamped
    <3>6. /\ IsClear(md') => hidden < md'.n
          /\ \A i \in Stamps : IsClear(history'[i]) /\ history'[i].n < hidden => history'[i] \in residue'
      BY <3>1 DEF MaskInv
    <3> QED BY <3>1, <3>3, <3>4, <3>5, <3>6, MaskMove
  <2>7. CASE Trimming(w)
    <3>1. /\ writer[w].pc = "list" /\ (\E p \in {"delete", "file"} : Moves(w, p))
          /\ UNCHANGED <<md, row, history, mode, hidden, residue, stamp>>
      BY <2>7 DEF Trimming, files
    <3>2. ~writer'[w].masked /\ Stamped(w)
      BY <3>1 DEF ShapeInv, Moves, Stamped
    <3>3. \A x \in Writers : (Purged(x))'
      BY <3>1, <3>2, PurgedKept DEF Moves, OthersStay, Purged
    <3>4. \A x \in Writers : writer'[x].masked /\ writer'[x].pc = "index" => ~IsClear(md')
      BY <2>m, <3>1
    <3>6. /\ IsClear(md') => hidden < md'.n
          /\ \A i \in Stamps : IsClear(history'[i]) /\ history'[i].n < hidden => history'[i] \in residue'
      BY <3>1 DEF MaskInv
    <3> QED BY <3>1, <3>2, <3>3, <3>4, <3>6, MaskMove
  <2>8. CASE Purging(w)
    <3>1. /\ writer[w].pc = "snapshot" /\ (\E p \in {"delete", "file"} : Moves(w, p))
          /\ UNCHANGED <<md, row, history, mode, hidden, stamp>> /\ residue \subseteq residue'
      BY <2>8 DEF Purging
    <3>2. (Purged(w))'
      <4>1. CASE Moves(w, "delete") /\ writer'[w].doomed = {i \in Stamps : history[i] # None}
        <5>1. \A i \in Stamps : IsClear(history[i]) => i \in writer'[w].doomed
          BY <1>c, <4>1
        <5>2. writer'[w].pc = "delete"
          BY <4>1 DEF Moves
        <5> QED BY <3>1, <5>1, <5>2 DEF Purged, IsClear
      <4>2. CASE Moves(w, "file") /\ \A i \in Stamps : IsClear(history[i]) => history[i] \in residue'
        BY <3>1, <4>2 DEF Purged, IsClear
      <4> QED BY <2>8, <4>1, <4>2 DEF Purging
    <3>3. \A x \in Writers : (Purged(x))'
      BY <3>1, <3>2, PurgedKept DEF Moves, OthersStay
    <3>4. \A x \in Writers : writer'[x].masked /\ writer'[x].pc = "index" => ~IsClear(md')
      BY <2>m, <3>1
    <3>5. Stamped(w)
      BY <3>1 DEF Stamped
    <3>6. /\ IsClear(md') => hidden < md'.n
          /\ \A i \in Stamps : IsClear(history'[i]) /\ history'[i].n < hidden => history'[i] \in residue'
      BY <3>1 DEF MaskInv
    <3> QED BY <3>1, <3>3, <3>4, <3>5, <3>6, MaskMove
  <2>9. ASSUME NEW i \in Stamps, Deleting(w, i) PROVE MaskInv'
    <3>1. /\ writer[w].pc = "delete" /\ (\E p \in {"delete", "file"} : Moves(w, p))
          /\ UNCHANGED <<md, row, mode, hidden, stamp>> /\ residue \subseteq residue'
          /\ writer'[w].doomed = writer[w].doomed \ {i}
          /\ writer'[w].pc = "delete" \/ writer'[w].doomed = {}
      BY <2>9 DEF Deleting, Moves
    <3>2. \A k \in Stamps : IsClear(history'[k]) => history'[k] = history[k]
      BY <1>0, <1>c, <2>9 DEF Deleting
    <3>3. writer[w].masked /\ IsClear(history'[i]) => history[i] \in residue'
      BY <1>0, <1>c, <2>9 DEF Deleting
    <3>4. (Purged(w))'
      <4> SUFFICES ASSUME writer'[w].masked, NEW k \in Stamps, IsClear(history'[k])
                   PROVE  history'[k] \in residue' \/ (writer'[w].pc = "delete" /\ k \in writer'[w].doomed)
        BY DEF Purged, IsClear
      <4>1. writer[w].masked /\ history'[k] = history[k]
        BY <3>1, <3>2 DEF Moves
      <4>2. history[k] \in residue \/ k \in writer[w].doomed
        BY <3>1, <4>1 DEF MaskInv
      <4>3. CASE k = i
        BY <3>3, <4>1, <4>3
      <4>4. CASE k # i
        BY <3>1, <4>1, <4>2, <4>4
      <4> QED BY <4>3, <4>4
    <3>5. \A x \in Writers : (Purged(x))'
      BY <3>1, <3>2, <3>4, PurgedKept DEF Moves, OthersStay
    <3>6. \A x \in Writers : writer'[x].masked /\ writer'[x].pc = "index" => ~IsClear(md')
      BY <2>m, <3>1
    <3>7. Stamped(w) /\ (row # None \/ UNCHANGED history)
      <4>1. row = None => history[i] = None
        BY DEF MaskInv
      <4>2. history[i] = None => UNCHANGED history
        BY <1>0, <2>9 DEF Deleting
      <4> QED BY <3>1, <4>1, <4>2 DEF Stamped
    <3>8. /\ IsClear(md') => hidden < md'.n
          /\ \A k \in Stamps : IsClear(history'[k]) /\ history'[k].n < hidden => history'[k] \in residue'
      BY <3>1, <3>2 DEF MaskInv
    <3> QED BY <3>1, <3>5, <3>6, <3>7, <3>8, MaskMove
  <2>f. ASSUME writer[w].pc \in {"file", "write", "index"}, (\E p \in {"write", "index"} : Moves(w, p)) \/ Ends(w),
               UNCHANGED <<row, history, mode, hidden, residue, stamp>>,
               \/ md' = Torn
               \/ md' = md /\ Ends(w)
               \/ writer[w].pc = "write" /\ md' = writer[w].new
        PROVE  MaskInv'
    <3>1. Stamped(w)
      BY <2>f DEF Stamped
    <3>2. IsClear(md') => hidden < md'.n
      BY <1>c, <2>f, <3>1 DEF MaskInv, IsClear
    <3>3. \A x \in Writers : /\ writer'[x].masked => writer[x].masked
                             /\ x # w => writer'[x] = writer[x]
      BY <2>0, <2>f DEF Moves, OthersStay
    <3>4. ASSUME NEW x \in Writers, writer'[x].masked, writer'[x].pc = "index" PROVE ~IsClear(md')
      <4>1. CASE md' = Torn
        BY <1>c, <4>1
      <4>2. CASE md' = md /\ Ends(w)
        BY <2>0, <3>3, <3>4, <4>2 DEF MaskInv
      <4>3. CASE writer[w].pc = "write" /\ md' = writer[w].new
        BY <1>0, <3>1, <3>3, <3>4, <4>3 DEF MaskInv, IsClear
      <4> QED BY <2>f, <4>1, <4>2, <4>3
    <3>5. (Purged(w))'
      BY <2>0, <2>f DEF Purged, MaskInv, Moves, IsClear
    <3>6. \A x \in Writers : (Purged(x))'
      BY <2>f, <3>3, <3>5, PurgedKept
    <3>7. \A k \in Stamps : IsClear(history'[k]) /\ history'[k].n < hidden => history'[k] \in residue'
      BY <2>f DEF MaskInv
    <3>8. (\E p : Moves(w, p)) \/ Ends(w)
      BY <2>f
    <3> QED BY <2>f, <3>1, <3>2, <3>4, <3>6, <3>7, <3>8, MaskMove
  <2>10. CASE Opening(w)
    BY <2>10, <2>f DEF Opening
  <2>11. CASE Writing(w)
    BY <2>11, <2>f DEF Writing
  <2>12. CASE Answering(w)
    <3>1. /\ writer[w].pc = "index" /\ Ends(w)
          /\ UNCHANGED <<md, history, mode, residue, stamp>>
      BY <2>12 DEF Answering
    <3>2. CASE UNCHANGED <<row, hidden>>
      BY <2>0, <2>e, <3>1, <3>2
    <3>3. CASE /\ row' = writer[w].new
               /\ hidden' = IF writer[w].masked /\ hidden < writer[w].new.n
                              THEN writer[w].new.n ELSE hidden
      <4>1. Stamped(w)
        BY <3>1 DEF Stamped
      <4>2. writer[w].new \in Versions /\ writer[w].new.n \in 1..stamp
        BY <4>1 DEF ShapeInv
      <4>3. row' # None /\ hidden' <= stamp
        BY <1>0, <3>3, <4>2, VersionsAreReal DEF MaskInv
      <4>4. \A x \in Writers : /\ writer'[x].masked => writer[x].masked
                               /\ (Stamped(x))' => Stamped(x) /\ writer'[x].new = writer[x].new
                               /\ x # w => writer'[x] = writer[x]
        BY <2>0, <3>1 DEF OthersStay, Stamped
      <4>5. hidden' = hidden \/ writer[w].masked
        BY <3>3
      <4>6. \A x \in Writers :
              /\ writer'[x].masked => mode' = "mask"
              /\ (Stamped(x))' /\ writer'[x].new.meaning = Secret =>
                   mode' = "report" /\ hidden' < writer'[x].new.n
        BY <1>0, <3>1, <4>4, <4>5 DEF MaskInv
      <4>7. \A x \in Writers : writer'[x].masked /\ writer'[x].pc = "index" => ~IsClear(md')
        BY <2>0, <3>1, <4>4 DEF MaskInv
      <4>8. \A x \in Writers : (Purged(x))'
        BY <2>0, <3>1, <4>4, PurgedKept DEF Purged
      <4>9. IsClear(md') => hidden' < md'.n
        BY <3>1, <4>5 DEF MaskInv
      <4>10. \A k \in Stamps : IsClear(history'[k]) /\ history'[k].n < hidden' => history'[k] \in residue'
        BY <3>1, <4>5 DEF MaskInv
      <4> QED BY <3>1, <4>3, <4>6, <4>7, <4>8, <4>9, <4>10 DEF MaskInv, Purged, IsClear
    <3> QED BY <2>12, <3>2, <3>3 DEF Answering
  <2> QED BY <1>1, <2>1, <2>2, <2>3, <2>4, <2>5, <2>6, <2>7, <2>8, <2>9, <2>10, <2>11, <2>12
             DEF CallStep
<1>2. CASE Reading
  <2>1. UNCHANGED <<md, row, history, mode, hidden, residue, writer, stamp>>
    BY <1>2 DEF Reading, files
  <2> QED BY <2>1 DEF MaskInv, IsClear, Stamped
<1>3. CASE Restarting
  <2>1. \A x \in Writers : writer'[x].pc = "idle" /\ ~writer'[x].masked
    BY <1>3, IdleFields DEF Restarting
  <2>2. \A x \in Writers : ~(Stamped(x))'
    BY <2>1 DEF Stamped
  <2> QED BY <1>3, <2>1, <2>2 DEF Restarting, MaskInv, IsClear
<1> QED BY <1>1, <1>2, <1>3, StepEffects

-----------------------------------------------------------------------------
(* Together.                                                                *)
LEMMA InitInv == Init => Inv
<1> SUFFICES ASSUME Init PROVE Inv
  OBVIOUS
<1>0. /\ \A w \in Writers : writer[w] = Idle
      /\ md = None /\ row = None /\ stamp = 0 /\ hidden = 0
      /\ acked = {} /\ superseded = {} /\ waived = {} /\ residue = {}
      /\ \A i \in Stamps : history[i] = None
      /\ \A r \in Readers : reader[r] = NoRead
  BY DEF Init
<1>1. TypeOK
  <2>1. NoRead \in Reads
    BY DEF NoRead, Reads
  <2>2. 0 \in 0..MaxWrites /\ 0 \in 0..MaxFaults /\ 0 \in 0..MaxRestarts
    BY NoteVaultAssumption
  <2> QED BY <2>1, <2>2, IdleFields DEF Init, TypeOK
<1>2. \A w \in Writers : ~Stamped(w) /\ ~Unwritten(w) /\ writer[w].pc = "idle"
  BY <1>0, IdleFields DEF Stamped, Unwritten
<1>3. ShapeInv
  BY <1>0, <1>2, IdleFields DEF ShapeInv
<1>4. FreshInv
  BY <1>0, <1>2 DEF FreshInv
<1>5. ReadInv
  BY <1>0 DEF ReadInv, NoRead
<1>6. SeenInv
  BY <1>0, <1>2, IdleFields, VersionsAreReal DEF SeenInv
<1>7. FiledInv
  BY <1>0, VersionsAreReal DEF FiledInv
<1>8. AloneInv
  BY <1>2 DEF AloneInv, Unhindered
<1>9. MaskInv
  BY <1>0, <1>2, IdleFields, VersionsAreReal DEF MaskInv, IsClear
<1> QED BY <1>1, <1>3, <1>4, <1>5, <1>6, <1>7, <1>8, <1>9 DEF Inv

LEMMA StepInv == Inv /\ [Next]_vars => Inv'
<1> SUFFICES ASSUME Inv, [Next]_vars PROVE Inv'
  OBVIOUS
<1>0. TypeOK /\ ShapeInv /\ FreshInv /\ ReadInv /\ SeenInv /\ FiledInv /\ AloneInv /\ MaskInv
  BY DEF Inv
<1>1. TypeOK'
  BY <1>0, TypeStep
<1>2. ShapeInv'
  BY <1>0, ShapeStep
<1>3. FreshInv'
  BY <1>0, FreshStep
<1>4. ReadInv'
  BY <1>0, ReadStep
<1>5. SeenInv'
  BY <1>0, SeenStep
<1>6. FiledInv'
  BY <1>0, FiledStep
<1>7. AloneInv'
  BY <1>0, AloneStep
<1>8. MaskInv'
  BY <1>0, MaskStep
<1> QED BY <1>1, <1>2, <1>3, <1>4, <1>5, <1>6, <1>7, <1>8 DEF Inv

(* The inductive invariant holds in every behaviour of the vault.           *)
THEOREM InvCorrect == Spec => []Inv
BY InitInv, StepInv, PTL DEF Spec

(* The vault is type correct: file, row, snapshots, cache and calls hold    *)
(* what they are meant to hold, half-written files only where a write in    *)
(* place can leave one.                                                     *)
THEOREM TypeCorrect == Spec => []TypeOK
<1>1. Inv => TypeOK
  BY DEF Inv
<1> QED BY <1>1, InvCorrect, PTL

(* However writes, reads, crashes and errors interleave, a read returns no  *)
(* version whose write had ended before a write began that was answered     *)
(* before the read began: read_note's cache and its validator.              *)
THEOREM ReadsAreFreshCorrect == Spec => []ReadsAreFresh
<1>1. ASSUME Inv PROVE ReadsAreFresh
  <2>1. FreshInv /\ ReadInv /\ row \in Versions \cup {None}
    BY <1>1 DEF Inv, TypeOK
  <2>2. CacheHit => cache.n \notin superseded
    BY <2>1 DEF CacheHit, FreshInv
  <2> QED BY <2>1, <2>2 DEF ReadsAreFresh, ReadInv
<1> QED BY <1>1, InvCorrect, PTL

(* Once a masking write is answered, no older version is left in clear but  *)
(* the copies its purge could not remove and those taken by a write that    *)
(* overlapped another one: purge_history_dir and the privacy pass.          *)
THEOREM MaskingErasesCorrect == Spec => []MaskingErases
<1>1. ASSUME Inv PROVE MaskingErases
  <2>0. MaskInv /\ hidden \in Nat /\ md \in Versions \cup {None, Torn}
        /\ history \in [Stamps -> Versions \cup {None, Torn}]
    BY <1>1, NoteVaultAssumption DEF Inv, TypeOK
  <2> SUFFICES ASSUME NEW u \in Clear(OnDisk), u.n < hidden PROVE u \in residue
    BY DEF MaskingErases
  <2>1. IsClear(u) /\ (u = md \/ \E i \in Stamps : u = history[i])
    BY <2>0 DEF Clear, OnDisk, Stored, Whole, IsClear
  <2>2. u.n \in Nat
    BY <2>1, VersionFields DEF IsClear, Stamps
  <2>3. u # md
    <3>1. u = md => hidden < u.n
      BY <2>0, <2>1 DEF MaskInv
    <3> QED BY <2>0, <2>2, <3>1
  <2> QED BY <2>0, <2>1, <2>3 DEF MaskInv
<1> QED BY <1>1, InvCorrect, PTL

(* The comparison of write_if_match and the read of an edit never let pass a*)
(* version whose write had ended before some answered write began.          *)
THEOREM ConflictIsSeenCorrect == Spec => ConflictIsSeen
<1> DEFINE Sees ==
      \A w \in Writers :
        (writer[w].pc \in {"idle", "compare"} /\ writer'[w].pc = "judge")
          => (writer'[w].expected # None => writer'[w].expected.n \notin superseded)
<1>1. ASSUME Inv, [Next]_vars PROVE Sees
  <2>0. ShapeInv /\ FreshInv /\ TypeOK /\ row \in Versions \cup {None}
        /\ md \in Versions \cup {None, Torn}
    BY <1>1 DEF Inv, TypeOK
  <2>1. ASSUME NEW w \in Writers, writer[w].pc \in {"idle", "compare"}, writer'[w].pc = "judge",
               writer'[w].expected # None
        PROVE  writer'[w].expected.n \notin superseded
    <3>1. ~Reading /\ ~Restarting
      BY <2>1, IdleFields DEF Reading, Restarting
    <3>2. PICK x \in Writers : CallStep(x)
      BY <1>1, <2>0, <3>1, StepEffects
    <3>3. x = w
      BY <2>1, <3>2 DEF CallStep, Entering, Comparing, Judging, Copying, Copied, Waiving, Trimming,
         Purging, Deleting, Opening, Writing, Answering, Enters, Moves, Ends, OthersStay
    <3>4. writer'[w] \in Calls
      BY <2>0, <3>2, DiskTypes
    <3>5. writer'[w].expected \in Versions
      BY <2>1, <3>4, CallFields
    <3>6. writer'[w].expected \in {row, md}
      <4>1. CASE Entering(w)
        BY <2>1, <4>1 DEF Entering
      <4>2. CASE Comparing(w)
        <5>1. ~Ends(w)
          BY <2>1, IdleFields DEF Ends
        <5>2. /\ writer'[w].expected = writer[w].expected
              /\ writer[w].expected \in {row, md} \/ row = None \/ md = None
          BY <4>2, <5>1 DEF Comparing, Moves
        <5>3. row # None /\ md # None
          BY <2>0, <2>1, <5>2 DEF ShapeInv
        <5> QED BY <5>2, <5>3
      <4> QED BY <2>1, <3>2, <3>3, <4>1, <4>2 DEF CallStep, Judging, Copying, Copied, Waiving,
                 Trimming, Purging, Deleting, Opening, Writing, Answering
    <3> QED BY <2>0, <3>5, <3>6 DEF FreshInv
  <2> QED BY <2>1
<1>2. ASSUME Inv, [Next]_vars PROVE [Sees]_vars
  BY <1>1, <1>2
<1>3. Inv /\ [Next]_vars => [Sees]_vars
  BY <1>2
<1> HIDE DEF Sees
<1>4. Spec => [][Sees]_vars
  BY <1>3, InvCorrect, PTL DEF Spec
<1> QED BY <1>4 DEF Sees, ConflictIsSeen

-----------------------------------------------------------------------------
(* The versions that are kept.                                              *)
LEMMA SameCount == \A S : History!Cardinality(S) = Cardinality(S)
BY DEF History!Cardinality, Cardinality

contends == \E x \in Writers : Overlaps(x)

LEMMA SnapshotKeeps ==
  ASSUME Inv, NEW w \in Writers, Copying(w) \/ Copied(w)
  PROVE  [History!Next]_(History!vars)
<1>0. /\ history \in [Stamps -> Versions \cup {None, Torn}] /\ md \in Versions \cup {None, Torn}
      /\ ShapeInv /\ AloneInv /\ FiledInv /\ TypeOK /\ writer[w] \in Calls
  BY DEF Inv, TypeOK
<1> DEFINE i == writer[w].prev.n
<1>1. /\ writer[w].prev \in Versions /\ i \in Stamps /\ UNCHANGED md
      /\ writer[w].pc \in {"snapshot", "copy"}
  BY <1>0, PrevStamp DEF Copying, Copied, ShapeInv
<1>2. writer[w].pc = "copy" => writer[w].got \in Versions \cup {Torn}
  BY <1>0, CallFields DEF ShapeInv
<1>3. ASSUME ~contends
      PROVE  /\ ~Overlaps(w) /\ md = writer[w].prev
             /\ writer[w].pc = "copy" => writer[w].got = md
  BY <1>0, <1>1, <1>3, VersionsAreReal DEF contends, AloneInv, Unhindered
<1>4. \E c \in Versions \cup {Torn} :
        /\ history' = [history EXCEPT ![i] = c]
        /\ c # Torn => writer[w].pc = "copy" /\ c = writer[w].got
        /\ \/ waived' = waived
           \/ c \in {writer[w].got, Torn} /\ waived' = waived \cup {writer[w].got}
              /\ writer[w].got \in Versions /\ contends
           \/ c = Torn /\ waived' = waived \cup {md} /\ md \in Versions
  <2>1. CASE Copying(w)
    BY <2>1 DEF Copying
  <2>2. CASE Copied(w)
    <3>1. Overlaps(w) => contends
      BY DEF contends
    <3>2. {v \in Whole({writer[w].got}) : Overlaps(w)} = {}
          \/ ({v \in Whole({writer[w].got}) : Overlaps(w)} = {writer[w].got}
                /\ writer[w].got \in Versions /\ contends)
      BY <1>2, <2>2, <3>1 DEF Whole, Copied
    <3>3. Whole({md}) = {} \/ (Whole({md}) = {md} /\ md \in Versions)
      BY <1>0 DEF Whole
    <3>4. writer[w].got \in Versions \cup {Torn} /\ writer[w].pc = "copy"
      BY <1>2, <2>2 DEF Copied
    <3>5. ASSUME waived' = waived \cup {v \in Whole({writer[w].got}) : Overlaps(w)}
          PROVE  \/ waived' = waived
                 \/ waived' = waived \cup {writer[w].got} /\ writer[w].got \in Versions /\ contends
      BY <3>2, <3>5
    <3>6. ASSUME waived' = waived \cup Whole({md})
          PROVE  waived' = waived \/ (waived' = waived \cup {md} /\ md \in Versions)
      BY <3>3, <3>6
    <3> QED BY <2>2, <3>4, <3>5, <3>6 DEF Copied
  <2> QED BY <2>1, <2>2
<1>5. PICK c \in Versions \cup {Torn} :
        /\ history' = [history EXCEPT ![i] = c]
        /\ c # Torn => writer[w].pc = "copy" /\ c = writer[w].got
        /\ \/ waived' = waived
           \/ c \in {writer[w].got, Torn} /\ waived' = waived \cup {writer[w].got}
              /\ writer[w].got \in Versions /\ contends
           \/ c = Torn /\ waived' = waived \cup {md} /\ md \in Versions
  BY <1>4
<1>6. CASE contends
  <2>1. \E v \in Versions : c \in {Torn, v} /\ waived' \in {waived, waived \cup {v}}
    BY <1>1, <1>5
  <2>2. \E v \in Versions : History!Scramble(i, v)
    BY <1>1, <1>5, <2>1 DEF History!Scramble
  <2> QED BY <1>1, <1>6, <2>2 DEF History!Next, contends
<1>7. CASE ~contends
  <2>1. md \in Versions /\ md.n = i
    BY <1>1, <1>3, <1>7
  <2>2. c \in {Torn, md} /\ waived' \in {waived, waived \cup {md}}
    BY <1>3, <1>5, <1>7
  <2>3. history[i] \in History!Kept \ waived => history[i].n = md.n
    BY <1>0, <1>1, <2>1 DEF History!Kept, FiledInv
  <2>4. History!Keep(i)
    BY <1>1, <1>5, <2>1, <2>2, <2>3 DEF History!Keep
  <2> QED BY <1>1, <2>4 DEF History!Next
<1> QED BY <1>6, <1>7

(* The file goes only when it is kept or waived.                            *)
LEMMA MayGoes ==
  ASSUME Inv, NEW w \in Writers, writer[w].pc \in {"file", "write"}
  PROVE  History!MayGo
<1>1. CASE contends
  BY <1>1 DEF History!MayGo, contends
<1>2. CASE ~contends
  <2>1. Unhindered(w)
    BY <1>2 DEF Inv, AloneInv, contends
  <2>2. History!Kept = Stored
    BY DEF History!Kept, Stored, Whole
  <2>3. md \in Stored \cup waived \cup {None, Torn}
    BY <2>1 DEF Unhindered
  <2> QED BY <2>2, <2>3 DEF History!MayGo
<1> QED BY <1>1, <1>2

LEMMA WriteReplaces ==
  ASSUME Inv, NEW w \in Writers, Opening(w) \/ Writing(w)
  PROVE  [History!Next]_(History!vars)
<1>1. UNCHANGED <<history, waived>> /\ writer[w].pc \in {"file", "write"}
  BY DEF Opening, Writing
<1>2. History!MayGo
  BY <1>1, MayGoes
<1>3. CASE UNCHANGED md
  BY <1>1, <1>3 DEF History!vars
<1>4. CASE md' = Torn
  BY <1>1, <1>2, <1>4 DEF History!Next, History!Replace
<1>5. CASE Writing(w) /\ md' = writer[w].new
  <2>1. writer[w].pc = "write" /\ Unwritten(w) /\ Stamped(w)
    BY <1>5 DEF Writing, Unwritten, Stamped
  <2>2. writer[w].new \in Versions
    BY <2>1 DEF Inv, ShapeInv
  <2>3. ~Seen(writer[w].new)
    BY <2>1, <2>2 DEF Inv, SeenInv, Seen
  <2>4. writer[w].new \notin History!Kept \cup waived \cup {md}
    BY <2>3 DEF Seen, History!Kept
  <2> QED BY <1>1, <1>2, <1>5, <2>2, <2>4 DEF History!Next, History!Replace
<1> QED BY <1>3, <1>4, <1>5 DEF Opening, Writing

(* Every step of the vault is a step of NoteHistory or none.                *)
LEMMA HistoryStep == Inv /\ [Next]_vars => [History!Next]_(History!vars)
<1> SUFFICES ASSUME Inv, [Next]_vars PROVE [History!Next]_(History!vars)
  OBVIOUS
<1>0. /\ TypeOK /\ AloneInv /\ md \in Versions \cup {None, Torn}
      /\ history \in [Stamps -> Versions \cup {None, Torn}]
  BY DEF Inv, TypeOK
<1>1. ASSUME UNCHANGED <<md, history, waived>> PROVE [History!Next]_(History!vars)
  BY <1>1 DEF History!vars
<1>2. ASSUME NEW w \in Writers, CallStep(w) PROVE [History!Next]_(History!vars)
  <2>1. CASE Copying(w) \/ Copied(w)
    BY <2>1, SnapshotKeeps
  <2>2. CASE Opening(w) \/ Writing(w)
    BY <2>2, WriteReplaces
  <2>3. CASE Waiving(w) \/ Purging(w)
    <3>1. UNCHANGED <<md, history>> /\ waived' = waived \cup Whole({md})
      BY <2>3 DEF Waiving, Purging
    <3>2. CASE md \in Versions
      <4>1. Whole({md}) = {md}
        BY <3>2, VersionsAreReal DEF Whole
      <4> QED BY <3>1, <3>2, <4>1 DEF History!Next, History!Waive
    <3>3. CASE md \notin Versions
      <4>1. Whole({md}) = {}
        BY <1>0, <3>3 DEF Whole
      <4> QED BY <1>1, <3>1, <4>1
    <3> QED BY <3>2, <3>3
  <2>4. ASSUME NEW i \in Stamps, Deleting(w, i) PROVE [History!Next]_(History!vars)
    <3>1. CASE UNCHANGED <<history, waived>>
      BY <1>1, <2>4, <3>1 DEF Deleting
    <3>2. CASE history' = [history EXCEPT ![i] = None] /\ waived' = waived \cup Whole({history[i]})
      <4>1. UNCHANGED md /\ writer[w].pc = "delete" /\ i \in writer[w].doomed
        BY <2>4 DEF Deleting
      <4>2. ASSUME ~writer[w].masked, ~contends
            PROVE  History!Cardinality({k \in Stamps : k > i /\ history[k] # None}) >= MaxHistory
        <5>1. Unhindered(w)
          BY <1>0, <4>2 DEF AloneInv, contends
        <5>2. Cardinality(Newer(i)) >= MaxHistory
          BY <4>1, <4>2, <5>1 DEF Unhindered
        <5> QED BY <5>2, SameCount DEF Newer
      <4>3. History!Drop(i)
        BY <3>2, <4>1, <4>2 DEF History!Drop, Whole, contends
      <4> QED BY <4>3 DEF History!Next
    <3> QED BY <2>4, <3>1, <3>2 DEF Deleting
  <2> QED BY <1>1, <1>2, <2>1, <2>2, <2>3, <2>4 DEF CallStep, Entering, Comparing, Judging, Trimming,
             Answering, files
<1>3. CASE Reading \/ Restarting
  BY <1>1, <1>3 DEF Reading, Restarting, files
<1> QED BY <1>0, <1>2, <1>3, StepEffects

(* The write path, with its crashes, errors, restarts and overlaps, keeps   *)
(* versions as module NoteHistory promises (F-40 and F-32A in               *)
(* crates/gradatum-vault/src/lifecycle.rs).                                 *)
THEOREM HistoryImplemented == Spec => KeepsHistory
<1>1. Init => History!Init
  BY DEF Init, History!Init
<1> QED BY <1>1, HistoryStep, InvCorrect, PTL DEF Spec, KeepsHistory, History!Spec
=============================================================================

----------------------- MODULE ProviderTransfer_proofs -----------------------
(***************************************************************************)
(* Proofs about ProviderTransfer, for any number of entries, any trees,    *)
(* any occupied targets, both kinds of remove(), and any number of calls   *)
(* that fail.                                                              *)
(***************************************************************************)
EXTENDS ProviderTransfer, TLAPS

-----------------------------------------------------------------------------
(* Types                                                                   *)

LEMMA PiecesTyped == \A e : PiecesOf(e) \subseteq Piece /\ Main \in PiecesOf(e)
  BY PieceAssumption DEF PiecesOf

LEMMA FilesTyped ==
  /\ \A f \in File : f = <<f[1], f[2]>> /\ f[1] \in Entry /\ f[2] \in Piece
  /\ \A f \in Selected : f \in File /\ f[2] \in PiecesOf(f[1])
  BY DEF File, Selected

LEMMA HereTyped ==
  ASSUME TypeOK, pos \in Entry
  PROVE  /\ Here \in File /\ Here[1] = pos /\ Here[2] = piece /\ target \in Place
         /\ \A f \in File : f[1] = pos /\ f[2] = piece <=> f = Here
  BY FilesTyped DEF TypeOK, Here, File

LEMMA TypeInit == Init => TypeOK
  <1> SUFFICES ASSUME Init PROVE TypeOK
    OBVIOUS
  <1>1. source \in [Entry -> SUBSET Piece]
    BY PiecesTyped DEF Init
  <1>2. there \in [File -> [Place -> {"none", "old", "part", "whole"}]]
    BY DEF Init
  <1>3. pos \in 1..Count + 1 /\ failures \in 0..MaxFailures
    BY CountAssumption, BoundAssumption DEF Init
  <1>4. serverMove \in BOOLEAN
    BY DEF Init
  <1> QED
    BY <1>1, <1>2, <1>3, <1>4, PieceAssumption DEF Init, TypeOK, Step, Place

LEMMA EndEntryTyped ==
  ASSUME TypeOK, pos \in Entry, NEW ok \in BOOLEAN, EndEntry(ok)
  PROVE  /\ pos' = pos + 1 /\ pos' \in 1..Count + 1 /\ pc' \in {"next", "ended"}
         /\ piece' = Main /\ Main \in Piece /\ left' = {} /\ target' = "dst"
         /\ allOk' \in BOOLEAN /\ (allOk' <=> allOk /\ ok)
  BY CountAssumption, PieceAssumption DEF TypeOK, EndEntry, Entry

LEMMA EndFileTyped ==
  ASSUME TypeOK, pos \in Entry, NEW ok \in BOOLEAN, EndFile(ok)
  PROVE  /\ pos' \in 1..Count + 1 /\ pc' \in {"next", "ended", "children"}
         /\ pc' = "children" => pos' \in Entry
         /\ piece' \in Piece /\ left' \subseteq Piece /\ target' \in Place /\ allOk' \in BOOLEAN
  BY EndEntryTyped DEF TypeOK, EndFile, GoTo, Place

LEMMA ThereTyped ==
  ASSUME TypeOK, pos \in Entry
  PROVE  /\ Moved => source' \in [Entry -> SUBSET Piece]
                     /\ there' \in [File -> [Place -> {"none", "old", "part", "whole"}]]
         /\ \A n \in {"part", "whole"} :
              [there EXCEPT ![Here][target] = n] \in [File -> [Place -> {"none", "old", "part", "whole"}]]
         /\ \A ps \in SUBSET Piece : [source EXCEPT ![pos] = ps] \in [Entry -> SUBSET Piece]
  BY HereTyped DEF TypeOK, Moved, Place

LEMMA TypeStep == ASSUME TypeOK, [Next]_vars PROVE TypeOK'
  <1> USE CountAssumption, BoundAssumption
      DEF TypeOK, GoTo, fixed, disk, walk, flags, traces, Step
  <1>1. CASE UNCHANGED vars
    BY <1>1 DEF vars
  <1>2. CASE Batch
    <2>1. CASE Begin \/ Finish \/ ServerMoveOccupied
      BY <2>1 DEF Begin, Finish, ServerMoveOccupied
    <2>2. CASE ServerMove
      BY <2>2, ThereTyped, EndEntryTyped DEF ServerMove, Place
    <2>3. CASE ServerMoveUnavailable
      <3>1. pos \in Entry /\ failures' \in 0..MaxFailures
        BY <2>3 DEF ServerMoveUnavailable, Fault
      <3>2. source' \in [Entry -> SUBSET Piece]
            /\ there' \in [File -> [Place -> {"none", "old", "part", "whole"}]]
        BY <2>3, <3>1, ThereTyped DEF ServerMoveUnavailable
      <3> QED  BY <2>3, <3>1, <3>2 DEF ServerMoveUnavailable
    <2> QED  BY <1>2, <2>1, <2>2, <2>3 DEF Batch
  <1>3. CASE Cancel
    BY <1>3 DEF Cancel
  <1>4. CASE Entering
    <2>1. CASE EnterCancelled
      BY <2>1, EndEntryTyped DEF EnterCancelled, Place
    <2>7. CASE MkdirFails
      <3>1. pos \in Entry /\ failures' \in 0..MaxFailures /\ blind' \subseteq Entry
        BY <2>7 DEF MkdirFails, Fault
      <3> QED  BY <2>7, <3>1, EndEntryTyped DEF MkdirFails, Place
    <2>2. CASE EnterFile
      BY <2>2, PieceAssumption DEF EnterFile, File
    <2>3. CASE EnterDirectory \/ EnterVanished
      BY <2>3 DEF EnterDirectory, EnterVanished, Fault
    <2>4. ASSUME NEW p \in Piece, SkipLink(p) \/ NextChild(p) PROVE TypeOK'
      BY <2>4 DEF SkipLink, NextChild, File
    <2>5. CASE ChildrenDone
      BY <2>5, EndEntryTyped DEF ChildrenDone, Place
    <2>6. CASE RemoveDirectory
      <3>1. pos \in Entry /\ failures' \in 0..MaxFailures /\ source' \in [Entry -> SUBSET Piece]
        BY <2>6 DEF RemoveDirectory, Fault
      <3> QED  BY <2>6, <3>1, EndEntryTyped DEF RemoveDirectory, Place
    <2> QED  BY <1>4, <2>1, <2>2, <2>3, <2>4, <2>5, <2>6, <2>7 DEF Entering
  <1>5. CASE Placing
    <2>1. CASE ProbeFree \/ ProbePartial \/ ChooseRename
      BY <2>1 DEF ProbeFree, ProbePartial, ChooseRename, Conflict, Place
    <2>2. CASE ProbeMissed \/ Overwrite
      BY <2>2, HereTyped DEF ProbeMissed, Overwrite, Conflict, Fault
    <2>3. CASE SkipConflict \/ CancelConflict
      BY <2>3, HereTyped, EndFileTyped DEF SkipConflict, CancelConflict, Conflict
    <2> QED  BY <1>5, <2>1, <2>2, <2>3 DEF Placing
  <1>6. CASE Streaming
    <2>1. CASE Streamed
      BY <2>1, ThereTyped DEF Streamed
    <2>2. CASE StreamFails
      <3>1. /\ pos \in Entry /\ failures' \in 0..MaxFailures
            /\ source' \in [Entry -> SUBSET Piece]
            /\ there' \in [File -> [Place -> {"none", "old", "part", "whole"}]]
        BY <2>2, ThereTyped, SMTT(30) DEF StreamFails
      <3>2. CASE cancelled
        BY <2>2, <3>1, <3>2, EndFileTyped DEF StreamFails
      <3>3. CASE ~cancelled
        BY <2>2, <3>1, <3>3 DEF StreamFails
      <3> QED  BY <3>2, <3>3
    <2>3. CASE FileDone
      <3>1. pos \in Entry /\ failures' \in 0..MaxFailures /\ source' \in [Entry -> SUBSET Piece]
        BY <2>3 DEF FileDone, Fault
      <3> QED  BY <2>3, <3>1, EndFileTyped DEF FileDone
    <2> QED  BY <1>6, <2>1, <2>2, <2>3 DEF Streaming
  <1>7. CASE Answering
    BY <1>7, EndFileTyped DEF Answering, Retry, Skip, Abort
  <1> QED  BY <1>1, <1>2, <1>3, <1>4, <1>5, <1>6, <1>7 DEF Next

\* Every variable of a batch across providers has its type.
THEOREM TypeCorrect == Spec => []TypeOK
  BY TypeInit, TypeStep, PTL DEF Spec

-----------------------------------------------------------------------------
(* What a step does to the disk and to what the user said                  *)

\* What the user said, and what was hidden from the batch, is not taken back.
LEMMA MarksGrow ==
  ASSUME [Next]_vars
  PROVE  /\ operation' = operation /\ situation' = situation
         /\ over \subseteq over' /\ passed \subseteq passed' /\ missed \subseteq missed'
         /\ blind \subseteq blind'
  <1> USE DEF fixed, traces
  <1>1. CASE UNCHANGED vars \/ Cancel
    BY <1>1 DEF vars, Cancel
  <1>2. CASE Batch \/ Streaming \/ Answering
    BY <1>2 DEF Batch, Begin, Finish, ServerMove, ServerMoveOccupied, ServerMoveUnavailable,
                Streaming, Streamed, StreamFails, FileDone, Answering, Retry, Skip, Abort
  <1>3. CASE Entering
    BY <1>3 DEF Entering, EnterCancelled, EnterFile, EnterDirectory, MkdirFails, EnterVanished,
                SkipLink, NextChild, ChildrenDone, RemoveDirectory
  <1>4. CASE Placing
    BY <1>4 DEF Placing, ProbeFree, ProbeMissed, ProbePartial, Overwrite, ChooseRename,
                SkipConflict, CancelConflict
  <1> QED  BY <1>1, <1>2, <1>3, <1>4 DEF Next

\* The batch goes through the entries in order.
LEMMA PosStep ==
  ASSUME TypeOK, [Next]_vars
  PROVE  pos' = pos \/ (pos' = pos + 1 /\ pos \in Entry /\ pc' \in {"next", "ended"} /\ piece' = Main
                        /\ left' = {} /\ target' = "dst")
  <1> USE DEF TypeOK, walk, EndFile, EndEntry, GoTo
  <1>1. CASE UNCHANGED vars \/ Cancel
    BY <1>1 DEF vars, Cancel
  <1>2. CASE Batch \/ Answering
    BY <1>2 DEF Batch, Begin, Finish, ServerMove, ServerMoveOccupied, ServerMoveUnavailable,
                Answering, Retry, Skip, Abort
  <1>3. CASE Entering
    BY <1>3 DEF Entering, EnterCancelled, EnterFile, EnterDirectory, MkdirFails, EnterVanished,
                SkipLink, NextChild, ChildrenDone, RemoveDirectory
  <1>4. CASE Placing
    BY <1>4 DEF Placing, ProbeFree, ProbeMissed, ProbePartial, Overwrite, ChooseRename,
                SkipConflict, CancelConflict, Conflict
  <1>5. CASE Streaming
    BY <1>5 DEF Streaming, Streamed, StreamFails, FileDone
  <1> QED  BY <1>1, <1>2, <1>3, <1>4, <1>5 DEF Next

\* A file is written only when it is its turn, or with its whole entry by the server.
LEMMA DiskStep ==
  ASSUME TypeOK, [Next]_vars
  PROVE  /\ \A e \in Entry : e # pos => source'[e] = source[e]
         /\ \/ there' = there
            \/ pos \in Entry /\ pc = "moving" /\ Free /\ Moved
            \/ /\ pos \in Entry /\ pc = "streaming" /\ piece \in source[pos] /\ ~OntoItself
               /\ source' = source
               /\ \/ Streamed /\ there' = [there EXCEPT ![Here][target] = "whole"]
                  \/ StreamFails /\ there' = [there EXCEPT ![Here][target] = "part"]
  <1> USE DEF TypeOK, disk
  <1>1. CASE UNCHANGED vars \/ Cancel \/ Answering
    BY <1>1 DEF vars, Cancel, Answering, Retry, Skip, Abort
  <1>2. CASE Batch
    BY <1>2 DEF Batch, Begin, Finish, ServerMove, ServerMoveOccupied, ServerMoveUnavailable, Moved
  <1>3. CASE Entering
    BY <1>3 DEF Entering, EnterCancelled, EnterFile, EnterDirectory, MkdirFails, EnterVanished,
                SkipLink, NextChild, ChildrenDone, RemoveDirectory
  <1>4. CASE Placing
    BY <1>4 DEF Placing, ProbeFree, ProbeMissed, ProbePartial, Overwrite, ChooseRename,
                SkipConflict, CancelConflict
  <1>5. CASE Streaming
    <2>1. CASE Streamed
      BY <2>1 DEF Streamed
    <2>2. CASE StreamFails
      BY <2>2 DEF StreamFails
    <2>3. CASE FileDone
      BY <2>3 DEF FileDone
    <2> QED  BY <1>5, <2>1, <2>2, <2>3 DEF Streaming
  <1> QED  BY <1>1, <1>2, <1>3, <1>4, <1>5 DEF Next

\* A whole file stays whole, unless it is the one being transferred.
LEMMA LandedStays ==
  ASSUME TypeOK, [Next]_vars, NEW f \in File, Landed(f), pc # "streaming" \/ f # Here
  PROVE  Landed(f)'
  <1>1. PICK p \in Place : there[f][p] = "whole"
    BY DEF Landed
  <1>2. there'[f][p] = "whole"
    <2>1. CASE pos \in Entry /\ Moved
      BY <1>1, <2>1 DEF Moved, TypeOK, Place
    <2>2. CASE pos \in Entry /\ pc = "streaming"
      BY <1>1, <2>2, DiskStep, HereTyped DEF TypeOK, Moved
    <2> QED  BY <1>1, <2>1, <2>2, DiskStep
  <1> QED  BY <1>2 DEF Landed

LEMMA MovedLands ==
  ASSUME TypeOK, Moved, NEW f \in Selected, f[1] = pos
  PROVE  Landed(f)'
  BY FilesTyped DEF Moved, Landed, TypeOK, Place

-----------------------------------------------------------------------------
(* Occupied targets                                                        *)

\* A target that is about to be written over is one the user gave up, or one that
\* exists() did not see.
OverInv == pc = "streaming" /\ target = "dst" => Target # "old" \/ Here \in over \cup missed

LEMMA OverInit == Init => OverInv
  BY DEF Init, OverInv

LEMMA OverStep == ASSUME TypeOK, OverInv, [Next]_vars PROVE OverInv'
  <1> USE DEF TypeOK, GoTo, EndFile, EndEntry, walk, disk, traces, OverInv
  <1>1. CASE UNCHANGED vars \/ Cancel
    BY <1>1 DEF vars, Cancel, Target, Here
  <1>2. CASE Batch \/ Answering
    BY <1>2 DEF Batch, Begin, Finish, ServerMove, ServerMoveOccupied, ServerMoveUnavailable,
                Answering, Retry, Skip, Abort
  <1>3. CASE Entering
    BY <1>3 DEF Entering, EnterCancelled, EnterFile, EnterDirectory, MkdirFails, EnterVanished,
                SkipLink, NextChild, ChildrenDone, RemoveDirectory
  <1>4. CASE Placing
    BY <1>4 DEF Placing, ProbeFree, ProbeMissed, ProbePartial, Overwrite, ChooseRename,
                SkipConflict, CancelConflict, Conflict, Target, Here
  <1>5. CASE Streaming
    BY <1>5 DEF Streaming, Streamed, StreamFails, FileDone
  <1> QED  BY <1>1, <1>2, <1>3, <1>4, <1>5 DEF Next

\* A target that existed is written over only where the user chose to, or where the server
\* failed to tell of it: a server-side move takes place only onto free targets.
THEOREM OccupantsSafe == Spec => OccupantKept
  <1>1. ASSUME TypeOK, OverInv, [Next]_vars, NEW f \in Selected,
               there[f]["dst"] = "old", there'[f]["dst"] # "old"
        PROVE  f \in over \cup missed
    <2>1. f \in File /\ f = <<f[1], f[2]>> /\ f[1] \in Entry /\ f[2] \in PiecesOf(f[1])
      BY FilesTyped
    <2>2. CASE pos \in Entry /\ Free /\ Moved
      <3>1. f[1] = pos
        BY <1>1, <2>1, <2>2 DEF Moved, TypeOK
      <3> QED  BY <1>1, <2>1, <2>2, <3>1 DEF Free
    <2>3. CASE pos \in Entry /\ pc = "streaming"
               /\ \E n : there' = [there EXCEPT ![Here][target] = n]
      <3>1. f = Here /\ target = "dst"
        BY <1>1, <2>1, <2>3, HereTyped DEF TypeOK, Place
      <3> QED  BY <1>1, <2>3, <3>1 DEF OverInv, Target
    <2> QED  BY <1>1, <2>2, <2>3, DiskStep
  <1>2. ASSUME TypeOK, OverInv, [Next]_vars
        PROVE  [\A f \in Selected : there[f]["dst"] = "old" /\ there'[f]["dst"] # "old" => f \in over \cup missed]_vars
    BY <1>1, <1>2
  <1> QED  BY <1>2, TypeInit, TypeStep, OverInit, OverStep, PTL DEF Spec, OccupantKept

-----------------------------------------------------------------------------
(* Where the walk is                                                       *)

\* Where a file is transferred.
Transferring == {"probing", "streaming", "streamed", "asking"}

\* The directory has gone: whatever is answered, the entry has failed.
Vanished == pc = "asking" /\ pos \in Directory /\ source[pos] = {}

\* The whole entry is at its source, or the server has moved it and its answer was lost.
Untouched == source[pos] = PiecesOf(pos) \/ (source[pos] = {} /\ \A f \in Selected : f[1] = pos => Landed(f))

WalkInv ==
  /\ pos \notin Directory => piece = Main /\ pc \notin {"children", "removingDirectory"}
  /\ pc = "removingDirectory" => left = {}
  /\ pc \in {"next", "moving", "entering"} => piece = Main
  /\ \A e \in Entry : e > pos \/ (e = pos /\ pc \in {"next", "moving"}) => source[e] = PiecesOf(e)
  /\ pc = "entering" => Untouched
  /\ pc = "streamed" /\ situation[pos] = "apart" => Target = "whole"

LEMMA WalkInit == Init => WalkInv
  BY DEF Init, WalkInv

\* The entry is over: the next one is at its source.
LEMMA WalkOn ==
  ASSUME TypeOK, WalkInv, [Next]_vars, pos' # pos
  PROVE  WalkInv'
  <1>1. /\ pos' = pos + 1 /\ pos \in Entry /\ pc' \in {"next", "ended"} /\ piece' = Main
    BY PosStep
  <1>2. \A e \in Entry : e > pos' \/ e = pos' => e > pos /\ e # pos
    BY <1>1, CountAssumption DEF Entry
  <1>3. \A e \in Entry : e > pos' \/ e = pos' => source'[e] = PiecesOf(e)
    BY <1>2, DiskStep DEF WalkInv
  <1> QED  BY <1>1, <1>3 DEF WalkInv, PiecesOf

LEMMA WalkStep == ASSUME TypeOK, WalkInv, [Next]_vars PROVE WalkInv'
  <1>1. \A e \in Entry : e > pos => source'[e] = PiecesOf(e)
    <2>1. \A e \in Entry : e > pos => e # pos
      BY CountAssumption DEF TypeOK, Entry
    <2> QED  BY <2>1, DiskStep DEF WalkInv
  <1> SUFFICES ASSUME pos' = pos PROVE WalkInv'
    BY WalkOn
  <1>2. ASSUME pc' \in Transferring \ {"streamed"}, piece' = piece \/ pos \in Directory
        PROVE  WalkInv'
    BY <1>1, <1>2 DEF WalkInv, Transferring, PiecesOf
  <1> USE DEF TypeOK, GoTo, fixed, walk, disk, Transferring
  <1>a. pos \in Entry => pos + 1 # pos
    BY DEF Entry
  <1>3. CASE UNCHANGED vars \/ Cancel
    BY <1>3 DEF vars, Cancel, WalkInv, Untouched, PiecesOf, Target, Here, Landed, Selected, File
  <1>4. CASE Batch
    <2>1. CASE Begin \/ Finish
      BY <2>1 DEF Begin, Finish, WalkInv, Untouched, PiecesOf
    <2>2. CASE ServerMove
      BY <1>a, <2>2 DEF ServerMove, EndEntry
    <2>3. CASE ServerMoveOccupied
      BY <2>3 DEF ServerMoveOccupied, WalkInv, Untouched, PiecesOf
    <2>4. CASE ServerMoveUnavailable
      <3>1. Untouched'
        <4>1. CASE UNCHANGED disk
          BY <2>4, <4>1 DEF ServerMoveUnavailable, WalkInv, Untouched, PiecesOf
        <4>2. CASE Moved
          <5>1. source'[pos] = {}
            BY <2>4, <4>2 DEF ServerMoveUnavailable, Moved
          <5>2. \A f \in Selected : f[1] = pos => Landed(f)'
            BY <4>2, MovedLands
          <5> QED  BY <5>1, <5>2 DEF Untouched, Selected, File, PiecesOf
        <4> QED  BY <2>4, <4>1, <4>2 DEF ServerMoveUnavailable
      <3> QED  BY <1>1, <2>4, <3>1 DEF ServerMoveUnavailable, WalkInv, PiecesOf
    <2> QED  BY <1>4, <2>1, <2>2, <2>3, <2>4 DEF Batch
  <1>5. CASE Entering
    <2>1. CASE EnterCancelled \/ MkdirFails \/ RemoveDirectory
      BY <1>a, <2>1 DEF EnterCancelled, MkdirFails, RemoveDirectory, EndEntry
    <2>2. CASE EnterFile \/ EnterVanished
      BY <1>2, <2>2 DEF EnterFile, EnterVanished
    <2>3. CASE EnterDirectory
      BY <2>3 DEF EnterDirectory, WalkInv, PiecesOf
    <2>4. ASSUME NEW p \in Piece, SkipLink(p) PROVE WalkInv'
      BY <2>4 DEF SkipLink, WalkInv, PiecesOf
    <2>5. ASSUME NEW p \in Piece, NextChild(p) PROVE WalkInv'
      <3>1. pos \in Directory
        BY <2>5 DEF NextChild, WalkInv
      <3> QED  BY <1>2, <2>5, <3>1 DEF NextChild
    <2>6. CASE ChildrenDone
      <3>1. operation = "move"
        BY <1>a, <2>6 DEF ChildrenDone, EndEntry
      <3> QED  BY <2>6, <3>1 DEF ChildrenDone, WalkInv, PiecesOf
    <2> QED  BY <1>5, <2>1, <2>2, <2>3, <2>4, <2>5, <2>6 DEF Entering
  <1>6. ASSUME NEW ok, EndFile(ok), pc \in Transferring PROVE WalkInv'
    <2>1. pos \in Directory /\ pc' = "children"
      BY <1>a, <1>6 DEF EndFile, EndEntry
    <2> QED  BY <1>1, <2>1 DEF WalkInv, PiecesOf
  <1>7. CASE Placing
    <2>1. CASE ProbeFree \/ ProbeMissed \/ ProbePartial \/ Overwrite \/ ChooseRename
      BY <1>2, <2>1 DEF ProbeFree, ProbeMissed, ProbePartial, Overwrite, ChooseRename
    <2>2. CASE SkipConflict \/ CancelConflict
      BY <1>6, <2>2 DEF SkipConflict, CancelConflict, Conflict
    <2> QED  BY <1>7, <2>1, <2>2 DEF Placing
  <1>8. CASE Streaming
    <2>1. CASE Streamed
      <3>1. situation[pos] = "apart" => ~OntoItself
        BY DEF OntoItself
      <3>2. ~OntoItself => there'[Here][target] = "whole"
        BY <2>1, HereTyped DEF Streamed
      <3>3. situation[pos] = "apart" => Target' = "whole"
        BY <2>1, <3>1, <3>2 DEF Streamed, Target, Here
      <3> QED  BY <1>1, <2>1, <3>3 DEF Streamed, WalkInv, PiecesOf
    <2>2. CASE StreamFails
      <3>1. CASE cancelled
        BY <1>6, <2>2, <3>1 DEF StreamFails
      <3>2. CASE ~cancelled
        BY <1>2, <2>2, <3>2 DEF StreamFails
      <3> QED  BY <3>1, <3>2
    <2>3. CASE FileDone
      BY <1>6, <2>3 DEF FileDone
    <2> QED  BY <1>8, <2>1, <2>2, <2>3 DEF Streaming
  <1>9. CASE Answering
    <2>1. CASE Retry
      BY <1>2, <2>1 DEF Retry
    <2>2. CASE Skip \/ Abort
      BY <1>6, <2>2 DEF Skip, Abort
    <2> QED  BY <1>9, <2>1, <2>2 DEF Answering
  <1> QED  BY <1>3, <1>4, <1>5, <1>7, <1>8, <1>9 DEF Next

-----------------------------------------------------------------------------
(* What became of each file                                                *)

\* The file has arrived, or need not: it was skipped, is a link, or was hidden.
Unsent(f) == f \in passed \/ f[2] \in Link \/ f[1] \in blind
Settled(f) == Landed(f) \/ Unsent(f)

\* Of the entry being transferred, what is not settled is still to come.
EntryOf(f) ==
  pc \in {"children", "removingDirectory"} \cup Transferring /\ ~Vanished =>
    Settled(f) \/ f[2] \in left \/ (pc \in Transferring /\ f[2] = piece)

\* A file is nowhere only if remove() takes full directories and the file was not to be sent.
KeptOf(f) ==
  f[2] \in source[f[1]] \/ Landed(f) \/ (RecursiveRemove /\ f[1] \in Directory /\ Unsent(f))

\* The files whose target is not their source.
Apart == {f \in Selected : situation[f[1]] = "apart"}

FilesInv ==
  /\ TypeOK /\ WalkInv
  /\ \A f \in Apart : f[1] = pos => EntryOf(f)
  /\ \A f \in Apart : allOk /\ f[1] < pos => Settled(f)
  /\ \A f \in Apart : KeptOf(f)

LEMMA FilesInit == Init => FilesInv
  <1> SUFFICES ASSUME Init PROVE FilesInv
    OBVIOUS
  <1>1. \A f \in Apart : f[1] \in Entry /\ f[2] \in PiecesOf(f[1])
    BY FilesTyped DEF Apart
  <1>2. \A f \in Apart : ~(f[1] < pos)
    BY <1>1, CountAssumption DEF Init, Entry
  <1>3. \A f \in Apart : EntryOf(f) /\ KeptOf(f)
    BY <1>1 DEF Init, EntryOf, KeptOf, Transferring
  <1> QED  BY <1>2, <1>3, TypeInit, WalkInit DEF FilesInv

LEMMA SettledStays ==
  ASSUME TypeOK, [Next]_vars, NEW f \in File
  PROVE  /\ Unsent(f) => Unsent(f)'
         /\ Settled(f) /\ (pc # "streaming" \/ f # Here) => Settled(f)'
  BY LandedStays, MarksGrow DEF Settled, Unsent

\* Another name for what Apart says, and for what of it a step leaves alone.
LEMMA ApartTyped ==
  ASSUME TypeOK, [Next]_vars
  PROVE  /\ Apart' = Apart
         /\ \A f \in Apart : /\ f \in Selected /\ f \in File /\ f[1] \in Entry /\ f[2] \in PiecesOf(f[1])
                             /\ situation[f[1]] = "apart"
  BY FilesTyped, MarksGrow DEF Apart, Selected

\* The transferred file is at its target, and stays there while it is crossed off.
LEMMA StreamedLands ==
  ASSUME TypeOK, WalkInv, [Next]_vars, pc = "streamed", NEW f \in Apart, f = Here
  PROVE  Landed(f)'
  <1>1. Landed(f)
    <2>1. pos \in Entry /\ f[1] = pos
      BY HereTyped DEF TypeOK
    <2>2. Target = "whole"
      BY <2>1, ApartTyped DEF WalkInv
    <2> QED  BY <2>1, <2>2, HereTyped DEF Landed, Target
  <1> QED  BY <1>1, LandedStays, ApartTyped

\* The file's turn is over, well.
LEMMA TurnOver ==
  ASSUME FilesInv, [Next]_vars, NEW f \in Apart, f[1] = pos,
         (SkipConflict /\ EndFile(TRUE)) \/ FileDone
  PROVE  Settled(f)' \/ f[2] \in left
  <1>1. /\ f \in File /\ pos \in Entry /\ EntryOf(f) /\ pc \in {"probing", "streamed"}
        /\ f[1] = pos /\ f[2] = piece <=> f = Here
    BY ApartTyped, HereTyped DEF FilesInv, TypeOK, SkipConflict, Conflict, FileDone
  <1>2. CASE f = Here /\ SkipConflict
    BY <1>1, <1>2 DEF SkipConflict, Settled, Unsent
  <1>3. CASE f = Here /\ FileDone
    BY <1>1, <1>3, StreamedLands DEF FileDone, Settled, FilesInv
  <1>4. CASE f # Here
    <2>1. Settled(f) \/ f[2] \in left
      BY <1>1, <1>4 DEF EntryOf, Transferring, Vanished
    <2> QED  BY <1>1, <2>1, SettledStays DEF FilesInv
  <1> QED  BY <1>2, <1>3, <1>4

\* An entry that is reported as transferred is settled.
LEMMA EndsWell ==
  ASSUME FilesInv, [Next]_vars, NEW f \in Apart, f[1] = pos, pos' # pos, allOk'
  PROVE  Settled(f)'
  <1>1. /\ TypeOK /\ WalkInv /\ EntryOf(f) /\ pos \in Entry /\ f \in File /\ f \in Selected
        /\ pos \notin Directory => left = {} \/ f = Here
    <2>1. TypeOK /\ WalkInv /\ EntryOf(f) /\ f \in File /\ f \in Selected /\ f[1] \in Entry /\ f[2] \in PiecesOf(f[1])
      BY ApartTyped DEF FilesInv
    <2>2. pos \notin Directory => f[2] = piece
      BY <2>1 DEF WalkInv, PiecesOf
    <2> QED  BY <2>1, <2>2, HereTyped
  <1> USE DEF TypeOK, GoTo, fixed, walk, disk
  <1>2. CASE UNCHANGED vars \/ Cancel
    BY <1>2 DEF vars, Cancel
  <1>3. CASE Batch
    <2>1. ServerMove
      BY <1>3 DEF Batch, Begin, Finish, ServerMoveOccupied, ServerMoveUnavailable
    <2> QED  BY <1>1, <2>1, MovedLands DEF ServerMove, Settled
  <1>4. CASE Entering
    <2>1. ChildrenDone \/ RemoveDirectory
      BY <1>4 DEF Entering, EnterCancelled, EnterFile, EnterDirectory, MkdirFails, EnterVanished,
                  SkipLink, NextChild, EndEntry
    <2>2. pc \in {"children", "removingDirectory"} /\ left = {}
      BY <1>1, <2>1 DEF ChildrenDone, RemoveDirectory, WalkInv
    <2>3. Settled(f)
      BY <1>1, <2>2 DEF EntryOf, Transferring, Vanished
    <2> QED  BY <1>1, <2>2, <2>3, SettledStays
  <1>5. ASSUME (SkipConflict /\ EndFile(TRUE)) \/ FileDone PROVE Settled(f)'
    <2>1. pos \notin Directory
      BY <1>5 DEF FileDone, EndFile
    <2>2. f = Here \/ left = {}
      BY <1>1, <2>1
    <2>3. CASE left = {}
      BY <1>5, <2>3, TurnOver
    <2>4. CASE f = Here /\ FileDone
      BY <1>1, <2>4, StreamedLands DEF FileDone, Settled
    <2>5. CASE f = Here /\ SkipConflict
      BY <2>5 DEF SkipConflict, Settled, Unsent
    <2> QED  BY <1>5, <2>2, <2>3, <2>4, <2>5
  <1>6. CASE Placing
    <2>1. SkipConflict /\ EndFile(TRUE)
      BY <1>6 DEF Placing, ProbeFree, ProbeMissed, ProbePartial, Overwrite, ChooseRename,
                  SkipConflict, CancelConflict, EndFile, EndEntry
    <2> QED  BY <1>5, <2>1
  <1>7. CASE Streaming
    <2>1. FileDone
      BY <1>7 DEF Streaming, Streamed, StreamFails, EndFile, EndEntry
    <2> QED  BY <1>5, <2>1
  <1>8. CASE Answering
    BY <1>8 DEF Answering, Retry, Skip, Abort, EndFile, EndEntry
  <1> QED  BY <1>2, <1>3, <1>4, <1>6, <1>7, <1>8 DEF Next

\* While the entry is transferred, what is not settled is still to come.
LEMMA EntryStep ==
  ASSUME FilesInv, [Next]_vars, NEW f \in Apart, f[1] = pos, pos' = pos
  PROVE  EntryOf(f)'
  <1>1. /\ TypeOK /\ WalkInv /\ EntryOf(f) /\ f \in File /\ f \in Selected /\ f[1] \in Entry
        /\ f[2] \in PiecesOf(f[1])
    BY ApartTyped DEF FilesInv
  <1>2. Settled(f) /\ (pc # "streaming" \/ f # Here) => Settled(f)'
    BY <1>1, SettledStays
  <1>a. pos \in Entry => pos + 1 # pos
    BY DEF Entry
  <1>b. pc \notin {"next", "ended"} => pos \in Entry
    BY <1>1 DEF TypeOK
  <1> USE DEF TypeOK, GoTo, fixed, walk, disk, Transferring
  <1>3. ASSUME pc' \in Transferring, pc \in Transferring, left' = left, piece' = piece, Vanished => Vanished'
        PROVE  EntryOf(f)'
    <2>1. ~Vanished' => Settled(f) \/ f[2] \in left \/ f[2] = piece
      BY <1>1, <1>3 DEF EntryOf
    <2>2. f = Here => f[2] = piece
      BY HereTyped, <1>1
    <2> QED  BY <1>2, <1>3, <2>1, <2>2 DEF EntryOf
  <1>4. CASE UNCHANGED vars \/ Cancel
    <2>1. CASE pc \in Transferring
      BY <1>3, <1>4, <2>1 DEF vars, Cancel, Vanished
    <2>2. CASE pc \notin Transferring
      BY <1>1, <1>2, <1>4, <2>2 DEF vars, Cancel, EntryOf, Vanished
    <2> QED  BY <2>1, <2>2
  <1>5. CASE Batch
    BY <1>5, <1>a DEF Batch, Begin, Finish, ServerMove, ServerMoveOccupied, ServerMoveUnavailable,
                      EndEntry, EntryOf
  <1>6. CASE Entering
    <2>1. CASE EnterCancelled \/ MkdirFails \/ RemoveDirectory
      BY <1>a, <1>b, <2>1 DEF EnterCancelled, MkdirFails, RemoveDirectory, EndEntry
    <2>2. CASE EnterFile
      BY <1>1, <2>2 DEF EnterFile, EntryOf, WalkInv, PiecesOf
    <2>3. CASE EnterDirectory
      <3>1. f[2] \in left' \/ f[1] \in blind'
        <4>1. source[pos] = PiecesOf(pos)
          BY <1>1, <2>3 DEF EnterDirectory, WalkInv, Untouched
        <4> QED  BY <1>1, <2>3, <4>1 DEF EnterDirectory
      <3> QED  BY <3>1 DEF EntryOf, Settled, Unsent
    <2>4. CASE EnterVanished
      BY <2>4 DEF EnterVanished, EntryOf, Vanished
    <2>5. ASSUME NEW p \in Piece, SkipLink(p) \/ NextChild(p) PROVE EntryOf(f)'
      <3>1. pc = "children" /\ (Settled(f) \/ f[2] \in left)
        BY <1>1, <2>5 DEF SkipLink, NextChild, EntryOf, Vanished
      <3>2. CASE SkipLink(p)
        BY <1>2, <3>1, <3>2 DEF SkipLink, EntryOf, Settled, Unsent
      <3>3. CASE NextChild(p)
        BY <1>2, <3>1, <3>3 DEF NextChild, EntryOf
      <3> QED  BY <2>5, <3>2, <3>3
    <2>6. CASE ChildrenDone
      <3>1. pc = "children" /\ pc' = "removingDirectory" /\ left' = left
        BY <1>a, <1>b, <2>6 DEF ChildrenDone, EndEntry
      <3> QED  BY <1>1, <1>2, <3>1 DEF EntryOf, Vanished
    <2> QED  BY <1>6, <2>1, <2>2, <2>3, <2>4, <2>5, <2>6 DEF Entering
  <1>7. ASSUME (SkipConflict /\ EndFile(TRUE)) \/ FileDone PROVE EntryOf(f)'
    <2>1. left' = left
      BY <1>7, <1>a, <1>b DEF SkipConflict, Conflict, FileDone, EndFile, EndEntry
    <2> QED  BY <1>7, <2>1, TurnOver DEF EntryOf
  <1>8. EndFile(FALSE) /\ pos \in Entry => FALSE
    BY <1>a DEF EndFile, EndEntry
  <1>9. CASE Placing
    <2>1. CASE ProbeFree \/ ProbeMissed \/ ProbePartial \/ Overwrite \/ ChooseRename
      BY <1>3, <2>1 DEF ProbeFree, ProbeMissed, ProbePartial, Overwrite, ChooseRename, Conflict, Vanished
    <2>2. CASE SkipConflict \/ CancelConflict
      BY <1>7, <1>8, <1>b, <2>2 DEF SkipConflict, CancelConflict, Conflict
    <2> QED  BY <1>9, <2>1, <2>2 DEF Placing
  <1>10. CASE Streaming
    <2>1. CASE Streamed
      BY <1>3, <2>1 DEF Streamed, Vanished
    <2>2. CASE StreamFails
      BY <1>3, <1>8, <1>b, <2>2 DEF StreamFails, Vanished
    <2>3. CASE FileDone
      BY <1>7, <2>3
    <2> QED  BY <1>10, <2>1, <2>2, <2>3 DEF Streaming
  <1>11. CASE Answering
    <2>1. CASE Retry
      BY <1>3, <2>1 DEF Retry, Vanished
    <2>2. CASE Skip \/ Abort
      BY <1>8, <1>b, <2>2 DEF Skip, Abort
    <2> QED  BY <1>11, <2>1, <2>2 DEF Answering
  <1> QED  BY <1>4, <1>5, <1>6, <1>9, <1>10, <1>11 DEF Next

\* The source loses only what is at its target, or what a recursive remove() takes along.
LEMMA KeptStep ==
  ASSUME FilesInv, [Next]_vars, NEW f \in Apart
  PROVE  KeptOf(f)'
  <1>1. /\ TypeOK /\ WalkInv /\ KeptOf(f) /\ f \in File /\ f \in Selected /\ f[1] \in Entry
        /\ f[2] \in PiecesOf(f[1]) /\ situation[f[1]] = "apart" /\ (f[1] = pos => EntryOf(f))
    BY ApartTyped DEF FilesInv
  <1>2. Landed(f) /\ (pc # "streaming" \/ f # Here) => Landed(f)'
    BY <1>1, LandedStays
  <1>3. Unsent(f) => Unsent(f)'
    BY <1>1, SettledStays
  <1>4. ASSUME source'[f[1]] = source[f[1]] PROVE KeptOf(f)'
    <2>1. CASE pc = "streaming" /\ f = Here /\ there' # there
      <3>1. piece \in source[pos] /\ f[1] = pos /\ f[2] = piece
        BY <1>1, <2>1, DiskStep, HereTyped
      <3> QED  BY <1>4, <3>1 DEF KeptOf
    <2>2. CASE there' = there
      BY <1>1, <1>3, <1>4, <2>2 DEF KeptOf, Landed
    <2> QED  BY <1>1, <1>2, <1>3, <1>4, <2>1, <2>2 DEF KeptOf
  <1>5. CASE f[1] # pos
    BY <1>1, <1>4, <1>5, DiskStep
  <1> SUFFICES ASSUME f[1] = pos PROVE KeptOf(f)'
    BY <1>5
  <1> USE DEF TypeOK, disk
  <1>6. CASE Moved
    BY <1>1, <1>6, MovedLands DEF KeptOf
  <1>7. CASE UNCHANGED source
    BY <1>4, <1>7
  <1>8. CASE RemoveDirectory
    <2>1. pc = "removingDirectory" /\ left = {} /\ pos \in Directory
      BY <1>1, <1>8 DEF RemoveDirectory, WalkInv
    <2>2. Settled(f)
      BY <1>1, <2>1 DEF EntryOf, Transferring, Vanished
    <2>3. CASE RecursiveRemove
      BY <1>2, <1>3, <2>1, <2>2, <2>3 DEF KeptOf, Settled
    <2>4. CASE ~RecursiveRemove
      BY <1>1, <1>4, <1>8, <2>4 DEF RemoveDirectory
    <2> QED  BY <2>3, <2>4
  <1>9. CASE FileDone
    <2>1. CASE f[2] = piece
      <3>1. f = Here
        BY <1>1, <2>1, HereTyped
      <3> QED  BY <1>1, <1>9, <3>1, StreamedLands DEF FileDone, KeptOf
    <2>2. CASE f[2] # piece
      BY <1>1, <1>2, <1>3, <1>9, <2>2 DEF FileDone, KeptOf
    <2> QED  BY <2>1, <2>2
  <1>10. CASE Streamed \/ StreamFails
    <2>1. ~OntoItself
      BY <1>1 DEF OntoItself
    <2> QED  BY <1>7, <1>10, <2>1 DEF Streamed, StreamFails
  <1>11. CASE Entering /\ ~RemoveDirectory
    BY <1>7, <1>11 DEF Entering, EnterCancelled, EnterFile, EnterDirectory, MkdirFails,
                       EnterVanished, SkipLink, NextChild, ChildrenDone
  <1>12. CASE Batch
    BY <1>6, <1>7, <1>12 DEF Batch, Begin, Finish, ServerMove, ServerMoveOccupied, ServerMoveUnavailable
  <1>13. CASE Placing
    BY <1>7, <1>13 DEF Placing, ProbeFree, ProbeMissed, ProbePartial, Overwrite, ChooseRename,
                       SkipConflict, CancelConflict
  <1>14. CASE UNCHANGED vars \/ Cancel \/ Answering
    BY <1>7, <1>14 DEF vars, Cancel, Answering, Retry, Skip, Abort
  <1> QED  BY <1>8, <1>9, <1>10, <1>11, <1>12, <1>13, <1>14 DEF Next, Streaming

\* What a batch reports is only ever worsened by a step.
LEMMA AllOkFalls ==
  ASSUME TypeOK, [Next]_vars
  PROVE  allOk' => allOk
  <1> USE DEF TypeOK, flags, EndFile, EndEntry
  <1>1. CASE UNCHANGED vars \/ Cancel \/ Answering
    BY <1>1 DEF vars, Cancel, Answering, Retry, Skip, Abort
  <1>2. CASE Batch
    BY <1>2 DEF Batch, Begin, Finish, ServerMove, ServerMoveOccupied, ServerMoveUnavailable
  <1>3. CASE Entering
    BY <1>3 DEF Entering, EnterCancelled, EnterFile, EnterDirectory, MkdirFails, EnterVanished,
                SkipLink, NextChild, ChildrenDone, RemoveDirectory
  <1>4. CASE Placing
    BY <1>4 DEF Placing, ProbeFree, ProbeMissed, ProbePartial, Overwrite, ChooseRename,
                SkipConflict, CancelConflict, Conflict
  <1>5. CASE Streaming
    BY <1>5 DEF Streaming, Streamed, StreamFails, FileDone
  <1> QED  BY <1>1, <1>2, <1>3, <1>4, <1>5 DEF Next

LEMMA FilesStep == ASSUME FilesInv, [Next]_vars PROVE FilesInv'
  <1>1. TypeOK /\ WalkInv /\ TypeOK' /\ WalkInv' /\ Apart' = Apart
    BY TypeStep, WalkStep, ApartTyped DEF FilesInv
  <1>2. ASSUME NEW f \in Apart, f[1] = pos' PROVE EntryOf(f)'
    <2>1. CASE pos' = pos
      BY <1>2, <2>1, EntryStep
    <2>2. CASE pos' # pos
      BY <1>1, <2>2, PosStep DEF EntryOf, Transferring
    <2> QED  BY <2>1, <2>2
  <1>3. ASSUME NEW f \in Apart, allOk', f[1] < pos' PROVE Settled(f)'
    <2>1. f \in File /\ f[1] \in Entry /\ allOk
      BY <1>1, <1>3, ApartTyped, AllOkFalls
    <2>2. CASE f[1] < pos
      <3>1. f # Here
        BY <1>1, <2>1, <2>2, FilesTyped DEF TypeOK, Here, Entry, File
      <3> QED  BY <1>1, <2>1, <2>2, <3>1, SettledStays DEF FilesInv
    <2>3. CASE ~(f[1] < pos)
      <3>1. f[1] = pos /\ pos' # pos
        BY <1>1, <1>3, <2>1, <2>3, PosStep, CountAssumption DEF TypeOK, Entry
      <3> QED  BY <1>3, <3>1, EndsWell
    <2> QED  BY <2>2, <2>3
  <1>4. \A f \in Apart : KeptOf(f)'
    BY KeptStep
  <1> QED  BY <1>1, <1>2, <1>3, <1>4 DEF FilesInv

LEMMA FilesAlways == Spec => []FilesInv
  BY FilesInit, FilesStep, PTL DEF Spec

\* Whatever fails, is skipped, retried or cancelled, a file whose target is not its source
\* is still at its source, or whole where it was sent; where remove() takes a full
\* directory, only what the user skipped, what is not streamed and what a failed listing
\* hid can go with it (transferEntry()).
FilesKept == \A f \in Apart : KeptOf(f)

THEOREM FilesSafe == Spec => []FilesKept
  <1>1. FilesInv => FilesKept
    BY DEF FilesInv, FilesKept
  <1> QED  BY <1>1, FilesAlways, PTL

\* Hence no file is left in neither place, on a server that does not remove a full
\* directory and of a batch none of whose targets is its source: runs tree_webdav and
\* tree_same show that each hypothesis is needed.
THEOREM NothingIsDestroyed ==
  ASSUME RecursiveRemove = FALSE, "same" \notin Situations
  PROVE  Spec => []NothingDestroyed
  <1>1. FilesInv => NothingDestroyed
    <2> SUFFICES ASSUME FilesInv, NEW f \in Selected PROVE f[2] \in source[f[1]] \/ Landed(f)
      BY DEF NothingDestroyed
    <2>1. f \in Apart
      BY FilesTyped, ChoicesAssumption DEF Apart, FilesInv, TypeOK
    <2> QED  BY <2>1 DEF FilesInv, KeptOf
  <1> QED  BY <1>1, FilesAlways, PTL

\* A batch that reports complete success has put every file where it was sent, except
\* those the user skipped, links, and what a failed listing hid (copyAcrossProviders()).
THEOREM ReportsAreTrue ==
  ASSUME "same" \notin Situations
  PROVE  Spec => []ReportedIsThere
  <1>1. FilesInv => ReportedIsThere
    <2> SUFFICES ASSUME FilesInv, pos \notin Entry, allOk, NEW f \in Selected PROVE Settled(f)
      BY DEF ReportedIsThere, Settled, Unsent
    <2>1. f \in Apart /\ f[1] \in Entry
      BY FilesTyped, ChoicesAssumption DEF Apart, FilesInv, TypeOK
    <2>2. f[1] < pos
      BY <2>1, CountAssumption DEF FilesInv, TypeOK, Entry
    <2> QED  BY <2>1, <2>2 DEF FilesInv
  <1> QED  BY <1>1, FilesAlways, PTL

=============================================================================

-------------------------- MODULE LocalCopy_proofs --------------------------
(***************************************************************************)
(* Proofs about LocalCopy, for any number of entries, any trees, any       *)
(* relation of targets and sources, and any number of failing steps.       *)
(***************************************************************************)
EXTENDS LocalCopy, TLAPS

-----------------------------------------------------------------------------
(* Types                                                                   *)

LEMMA PiecesTyped == \A e : PiecesOf(e) \subseteq Piece /\ Listed(e) \subseteq PiecesOf(e)
  BY PieceAssumption DEF PiecesOf, Listed

LEMMA NodesTyped ==
  /\ Absent \in Node /\ \A ps \in SUBSET Piece : Fresh(ps) \in Node
  /\ TypeOK /\ pos \in Entry =>
       /\ \A p \in Place : At(p) \in Node
       /\ Into \in Place /\ target \in Place /\ Cleaned \in Node /\ Forgotten \in Node
  <1>1. Absent \in Node /\ \A ps \in SUBSET Piece : Fresh(ps) \in Node
    BY DEF Absent, Fresh, Node
  <1>2. ASSUME TypeOK, pos \in Entry
        PROVE  /\ \A p \in Place : At(p) \in Node
               /\ Into \in Place /\ target \in Place /\ Cleaned \in Node /\ Forgotten \in Node
    <2>1. \A p \in Place : At(p) \in Node
      BY <1>2 DEF TypeOK, At
    <2>2. Into \in Place /\ target \in Place
      BY <1>2 DEF TypeOK, Into, Place
    <2>3. [At(Into) EXCEPT !.cut = {}] \in Node
      BY <2>1, <2>2 DEF Node
    <2>4. Forgotten \in Node
      BY <2>1 DEF Forgotten, Place
    <2> QED  BY <1>1, <2>1, <2>2, <2>3, <2>4 DEF Cleaned
  <1> QED  BY <1>1, <1>2

\* What a failing helper leaves.
LEMMA PartialTyped ==
  ASSUME NEW n \in Partial
  PROVE  n \in Node /\ ~n.old
  <1>1. CASE n = Absent
    BY <1>1, NodesTyped DEF Absent
  <1>2. CASE n \in [there : {TRUE}, holds : SUBSET PiecesOf(pos), cut : SUBSET PiecesOf(pos), old : {FALSE}]
    BY <1>2, PiecesTyped DEF Node
  <1> QED  BY <1>1, <1>2 DEF Partial

LEMMA TypeInit == Init => TypeOK
  <1> SUFFICES ASSUME Init PROVE TypeOK
    OBVIOUS
  <1>1. disk \in [Entry -> [Place -> Node]]
    BY PiecesTyped DEF Init, Fresh, Occupant, Absent, Node
  <1>2. pos \in 1..Count + 1 /\ failures \in 0..MaxFailures
    BY CountAssumption, BoundAssumption DEF Init
  <1>3. /\ occupied \subseteq Entry /\ chosen \subseteq Entry
        /\ operation \in Operations /\ situation \in [Entry -> Situations]
    BY DEF Init
  <1> QED
    BY <1>1, <1>2, <1>3 DEF Init, TypeOK, Step

LEMMA EndEntryTyped ==
  ASSUME TypeOK, pos \in Entry, NEW r \in {"done", "failed", "skipped", "stopped"}, EndEntry(r)
  PROVE  /\ pos' = pos + 1 /\ pos' \in 1..Count + 1 /\ pc' \in {"next", "ended"}
         /\ result' \in [Entry -> {"todo", "done", "failed", "skipped", "stopped"}]
  BY CountAssumption DEF TypeOK, EndEntry, Entry

LEMMA CopyFailedTyped ==
  ASSUME TypeOK, pos \in Entry, CopyFailed
  PROVE  /\ pos' \in 1..Count + 1 /\ pc' \in {"next", "ended", "failed"}
         /\ pc' = "failed" => pos' \in Entry
         /\ result' \in [Entry -> {"todo", "done", "failed", "skipped", "stopped"}]
         /\ elevatable' \in BOOLEAN
  BY EndEntryTyped DEF CopyFailed, GoTo, TypeOK

LEMMA LandedTyped ==
  ASSUME TypeOK, pos \in Entry, Landed
  PROVE  /\ pos' \in 1..Count + 1 /\ pc' \in {"next", "ended", "removing"}
         /\ pc' = "removing" => pos' \in Entry
         /\ result' \in [Entry -> {"todo", "done", "failed", "skipped", "stopped"}]
  BY EndEntryTyped DEF Landed, GoTo, TypeOK

\* The node the worker is writing to, when it finishes a piece.
Finished == [At(Into) EXCEPT !.holds = @ \cup At(Into).cut, !.cut = {}]

LEMMA FinishPieceEffect ==
  ASSUME TypeOK, FinishPiece
  PROVE  disk' = [disk EXCEPT ![pos][Into] = Finished] /\ Finished \in Node
  <1>1. pos \in Entry /\ Into \in Place /\ At(Into) \in Node /\ disk \in [Entry -> [Place -> Node]]
    BY NodesTyped DEF TypeOK, FinishPiece
  <1>2. Finished \in Node
    BY <1>1 DEF Finished, Node
  <1> DEFINE h == At(Into).holds \cup At(Into).cut
             d == [disk EXCEPT ![pos][Into].holds = h]
  <1>3. d = [disk EXCEPT ![pos] = [disk[pos] EXCEPT ![Into] = [disk[pos][Into] EXCEPT !.holds = h]]]
    BY <1>1
  <1>4. disk' = [d EXCEPT ![pos][Into].cut = {}]
    BY DEF FinishPiece, At
  <1>5. d[pos][Into] = [disk[pos][Into] EXCEPT !.holds = h]
    BY <1>1, <1>3
  <1>6. disk' = [d EXCEPT ![pos] = [d[pos] EXCEPT ![Into] = [d[pos][Into] EXCEPT !.cut = {}]]]
    BY <1>4
  <1>7. [d[pos][Into] EXCEPT !.cut = {}] = Finished
    BY <1>1, <1>5 DEF Finished, At
  <1>8. disk' = [d EXCEPT ![pos] = [d[pos] EXCEPT ![Into] = Finished]]
    BY <1>6, <1>7
  <1> HIDE DEF h
  <1>9. disk' = [disk EXCEPT ![pos] = [disk[pos] EXCEPT ![Into] = Finished]]
    BY <1>1, <1>3, <1>8
  <1> QED  BY <1>2, <1>9

LEMMA TypeStep == ASSUME TypeOK, [Next]_vars PROVE TypeOK'
  <1> USE CountAssumption, BoundAssumption DEF TypeOK, GoTo, fixedVars, pathVars, flagVars, Step
  <1>1. CASE UNCHANGED vars
    BY <1>1 DEF vars
  <1>2. CASE Batch
    <2>1. CASE Begin \/ Finish \/ RenameRefused
      BY <2>1 DEF Begin, Finish, RenameRefused
    <2>2. CASE Rename
      BY <2>2, EndEntryTyped, NodesTyped DEF Rename, Place
    <2> QED  BY <1>2, <2>1, <2>2 DEF Batch
  <1>3. CASE Cancel
    BY <1>3 DEF Cancel
  <1>4. CASE Placing
    <2>1. CASE Refuse
      BY <2>1, EndEntryTyped DEF Refuse
    <2>4. CASE SkipConflict
      BY <2>4, EndEntryTyped DEF SkipConflict, Conflict
    <2>5. CASE CancelConflict
      BY <2>5, EndEntryTyped DEF CancelConflict, Conflict
    <2>2. CASE CopyOntoItself \/ NoConflict \/ ChooseRename
      BY <2>2 DEF CopyOntoItself, NoConflict, ChooseRename, Conflict, Choose
    <2>3. CASE Overwrite
      BY <2>3 DEF Overwrite, Conflict, Choose, Home
    <2> QED  BY <1>4, <2>1, <2>2, <2>3, <2>4, <2>5 DEF Placing
  <1>5. CASE Copying
    <2>1. CASE TargetExists
      BY <2>1, CopyFailedTyped DEF TargetExists
    <2>2. CASE Open
      <3>1. At(target).there \in BOOLEAN
        BY <2>2, NodesTyped DEF Open, Node
      <3>2. disk' \in [Entry -> [Place -> Node]]
        BY <2>2, NodesTyped DEF Open, Place
      <3> QED  BY <2>2, <3>1, <3>2 DEF Open
    <2>3. CASE OpenFails
      BY <2>3, CopyFailedTyped DEF OpenFails, Fault
    <2>4. ASSUME NEW p \in Piece, StartPiece(p) PROVE TypeOK'
      <3>1. [disk[pos][Into] EXCEPT !.cut = {p}] \in Node
        BY <2>4, NodesTyped DEF StartPiece, Node, At
      <3>2. disk' = [disk EXCEPT ![pos][Into] = [disk[pos][Into] EXCEPT !.cut = {p}]]
        BY <2>4 DEF StartPiece
      <3>3. disk' \in [Entry -> [Place -> Node]]
        BY <2>4, <3>1, <3>2, NodesTyped DEF StartPiece
      <3> QED  BY <2>4, <3>3 DEF StartPiece
    <2>5. CASE FinishPiece
      <3>1. disk' \in [Entry -> [Place -> Node]]
        <4>1. disk' = [disk EXCEPT ![pos][Into] = Finished] /\ Finished \in Node
          BY <2>5, FinishPieceEffect
        <4>2. pos \in Entry /\ Into \in Place
          BY <2>5, NodesTyped DEF FinishPiece
        <4> QED  BY <4>1, <4>2
      <3> QED  BY <2>5, <3>1 DEF FinishPiece
    <2>6. CASE PieceFails
      BY <2>6, NodesTyped, CopyFailedTyped DEF PieceFails, Fault
    <2>7. CASE Interrupted
      BY <2>7, NodesTyped, CopyFailedTyped DEF Interrupted
    <2>8. CASE AllCopied
      BY <2>8, LandedTyped DEF AllCopied
    <2> QED  BY <1>5, <2>1, <2>2, <2>3, <2>4, <2>5, <2>6, <2>7, <2>8 DEF Copying
  <1>6. CASE Committing
    <2>1. CASE Retire \/ Install
      BY <2>1, NodesTyped DEF Retire, Install, Place
    <2>2. CASE RetireFails
      BY <2>2, NodesTyped, CopyFailedTyped DEF RetireFails, Fault, Place
    <2>5. CASE Restore
      BY <2>5, NodesTyped, CopyFailedTyped DEF Restore, Place
    <2>6. CASE RestoreFails
      BY <2>6, NodesTyped, CopyFailedTyped DEF RestoreFails, Fault, Place
    <2>3. CASE InstallFails
      BY <2>3 DEF InstallFails, Fault
    <2>4. CASE Purge
      BY <2>4, NodesTyped, LandedTyped DEF Purge, Fault, Place
    <2> QED  BY <1>6, <2>1, <2>2, <2>3, <2>4, <2>5, <2>6 DEF Committing
  <1>7. CASE Removing
    <2>1. CASE Remove
      BY <2>1, NodesTyped, EndEntryTyped DEF Remove, Place
    <2>2. CASE RemoveFails
      <3>1. PICK kept \in SUBSET At("src").holds : disk' = [disk EXCEPT ![pos]["src"].holds = kept]
        BY <2>2 DEF RemoveFails
      <3>2. At("src") \in Node
        BY <2>2, NodesTyped DEF RemoveFails, Place
      <3>3. [disk[pos]["src"] EXCEPT !.holds = kept] \in Node
        BY <3>2 DEF Node, At
      <3>4. disk' = [disk EXCEPT ![pos]["src"] = [disk[pos]["src"] EXCEPT !.holds = kept]]
        BY <3>1
      <3>5. disk' \in [Entry -> [Place -> Node]]
        BY <2>2, <3>3, <3>4 DEF RemoveFails, Place
      <3> QED  BY <2>2, <3>5 DEF RemoveFails, Fault
    <2> QED  BY <1>7, <2>1, <2>2 DEF Removing
  <1>8. CASE Answering
    <2>1. CASE Retry
      BY <2>1 DEF Retry, Asked, Failing
    <2>4. CASE Skip
      BY <2>4, EndEntryTyped DEF Skip, Asked, Failing
    <2>5. CASE Abort
      BY <2>5, EndEntryTyped DEF Abort, Asked, Failing
    <2>2. CASE Elevate
      <3>1. disk' \in [Entry -> [Place -> Node]]
        <4>1. pos \in Entry /\ pc \in {"failed", "leftover"}
          BY <2>2 DEF Elevate, Asked, Failing
        <4>2. CASE pc = "leftover"
          BY <2>2, <4>1, <4>2, NodesTyped DEF Elevate, Place
        <4>3. CASE pc = "failed" /\ operation = "copy"
          BY <2>2, <4>1, <4>3, NodesTyped, PiecesTyped DEF Elevate, Place
        <4>4. CASE pc = "failed" /\ operation = "move"
          BY <2>2, <4>1, <4>4, NodesTyped DEF Elevate, Place
        <4> QED  BY <4>1, <4>2, <4>3, <4>4, OperationsAssumption
      <3> QED  BY <2>2, <3>1, EndEntryTyped DEF Elevate, Asked, Failing
    <2>3. CASE ElevateFails
      <3>1. pos \in Entry /\ target \in Place
        BY <2>3, NodesTyped DEF ElevateFails, Asked, Failing
      <3>2. disk' \in [Entry -> [Place -> Node]]
        <4>1. ASSUME NEW n \in Partial, disk' = [disk EXCEPT ![pos][target] = n]
              PROVE  disk' \in [Entry -> [Place -> Node]]
          BY <3>1, <4>1, PartialTyped
        <4>2. ASSUME NEW kept \in SUBSET At("src").holds, disk' = [disk EXCEPT ![pos]["src"].holds = kept]
              PROVE  disk' \in [Entry -> [Place -> Node]]
          <5>1. At("src") \in Node /\ [disk[pos]["src"] EXCEPT !.holds = kept] \in Node
            BY <3>1, NodesTyped DEF Node, At, Place
          <5>2. disk' = [disk EXCEPT ![pos]["src"] = [disk[pos]["src"] EXCEPT !.holds = kept]]
            BY <4>2
          <5> QED  BY <3>1, <5>1, <5>2 DEF Place
        <4> QED  BY <2>3, <4>1, <4>2 DEF ElevateFails
      <3>3. helped' \subseteq Entry
        BY <2>3, <3>1 DEF ElevateFails
      <3> QED  BY <2>3, <3>1, <3>2, <3>3 DEF ElevateFails, Asked, Failing
    <2> QED  BY <1>8, <2>1, <2>2, <2>3, <2>4, <2>5 DEF Answering
  <1> QED  BY <1>1, <1>2, <1>3, <1>4, <1>5, <1>6, <1>7, <1>8 DEF Next

\* Every variable of a batch has its type.
THEOREM TypeCorrect == Spec => []TypeOK
  BY TypeInit, TypeStep, PTL DEF Spec

-----------------------------------------------------------------------------
(* Half-written files                                                      *)

\* An entry is worked on alone.
LEMMA OthersKept ==
  ASSUME TypeOK, [Next]_vars
  PROVE  \A e \in Entry : e # pos => disk'[e] = disk[e]
  <1> USE DEF TypeOK
  <1>1. CASE UNCHANGED disk
    BY <1>1
  <1>2. CASE Batch \/ Cancel \/ Placing
    BY <1>2 DEF Batch, Begin, Finish, Rename, RenameRefused, Cancel, Placing, Refuse, CopyOntoItself,
                NoConflict, Overwrite, ChooseRename, SkipConflict, CancelConflict, Choose
  <1>3. CASE Copying
    <2>1. CASE FinishPiece
      BY <2>1, FinishPieceEffect
    <2>2. CASE Copying /\ ~FinishPiece
      BY <2>2 DEF Copying, TargetExists, Open, OpenFails, StartPiece, PieceFails, Interrupted, AllCopied
    <2> QED  BY <1>3, <2>1, <2>2
  <1>4. CASE Committing
    BY <1>4 DEF Committing, Retire, RetireFails, Install, InstallFails, Restore, RestoreFails, Purge
  <1>5. CASE Removing
    BY <1>5 DEF Removing, Remove, RemoveFails
  <1>6. CASE Answering
    BY <1>6, OperationsAssumption
    DEF Answering, Retry, Skip, Abort, Elevate, ElevateFails, Asked, Failing
  <1> QED  BY <1>1, <1>2, <1>3, <1>4, <1>5, <1>6 DEF Next, vars

\* Nobody forgets that a helper failed.
LEMMA HelpedKept ==
  ASSUME [Next]_vars
  PROVE  helped \subseteq helped' /\ replaces' = replaces /\ (helped' = helped \/ ElevateFails)
  <1> USE DEF fixedVars
  <1>1. CASE UNCHANGED vars \/ Cancel
    BY <1>1 DEF vars, Cancel
  <1>2. CASE Batch
    BY <1>2 DEF Batch, Begin, Finish, Rename, RenameRefused
  <1>3. CASE Placing
    BY <1>3 DEF Placing, Refuse, CopyOntoItself, NoConflict, Overwrite, ChooseRename, SkipConflict,
                CancelConflict, Choose
  <1>4. CASE Copying
    BY <1>4 DEF Copying, TargetExists, Open, OpenFails, StartPiece, FinishPiece, PieceFails,
                Interrupted, AllCopied
  <1>5. CASE Committing
    BY <1>5 DEF Committing, Retire, RetireFails, Install, InstallFails, Restore, RestoreFails, Purge
  <1>6. CASE Removing
    BY <1>6 DEF Removing, Remove, RemoveFails
  <1>7. CASE Answering
    BY <1>7 DEF Answering, Retry, Skip, Abort, Elevate, ElevateFails
  <1> QED  BY <1>1, <1>2, <1>3, <1>4, <1>5, <1>6, <1>7 DEF Next

\* Only what a failing helper left may be cut, and its replacement is not.
AllWhole == \A e \in Entry, p \in Place : disk[e][p].cut = {} \/ (e \in helped /\ p # "staged")

LEMMA WholeUnlessCopying ==
  /\ NoTruncatedFile /\ pc # "copying" => AllWhole
  /\ NoTruncatedFile /\ pos \in Entry /\ At(Into).cut = {} => AllWhole
  BY DEF NoTruncatedFile, AllWhole, At

LEMMA NoTruncatedInit == Init => NoTruncatedFile
  BY DEF Init, NoTruncatedFile, Fresh, Occupant, Absent

\* A step that copies or moves nothing but complete nodes.
LEMMA WholeKept ==
  ASSUME TypeOK, AllWhole, pos \in Entry, \A e \in Entry : e # pos => disk'[e] = disk[e], helped \subseteq helped',
         \A p \in Place : disk'[pos][p].cut = {} \/ (pos \in helped' /\ p # "staged")
  PROVE  NoTruncatedFile'
  BY DEF AllWhole, NoTruncatedFile

LEMMA NoTruncatedStep == ASSUME TypeOK, NoTruncatedFile, [Next]_vars PROVE NoTruncatedFile'
  <1> USE DEF TypeOK, At, fixedVars
  <1>0. \A e \in Entry : e # pos => disk'[e] = disk[e]
    BY OthersKept
  <1>h. helped \subseteq helped' /\ (helped' = helped \/ ElevateFails)
    BY HelpedKept
  <1>1. CASE UNCHANGED disk /\ AllWhole
    BY <1>1, <1>h DEF AllWhole, NoTruncatedFile
  <1>2. CASE UNCHANGED vars \/ Cancel
    BY <1>2 DEF vars, Cancel, pathVars, NoTruncatedFile, Into
  <1>3. CASE Batch
    <2>1. CASE Rename
      <3>1. pos \in Entry /\ AllWhole
        BY <2>1, WholeUnlessCopying DEF Rename
      <3>2. \A p \in Place : disk'[pos][p].cut = {} \/ (pos \in helped' /\ p # "staged")
        BY <2>1, <3>1 DEF Rename, AllWhole, Absent, Place
      <3> QED  BY <1>0, <1>h, <3>1, <3>2, WholeKept
    <2>2. CASE Begin \/ Finish \/ RenameRefused
      BY <1>1, <2>2, WholeUnlessCopying DEF Begin, Finish, RenameRefused
    <2> QED  BY <1>3, <2>1, <2>2 DEF Batch
  <1>4. CASE Placing
    BY <1>1, <1>4, WholeUnlessCopying
    DEF Placing, Refuse, CopyOntoItself, NoConflict, Overwrite, ChooseRename, SkipConflict,
        CancelConflict, Conflict, Choose
  <1>5. CASE Copying
    <2>1. CASE TargetExists \/ OpenFails
      BY <1>1, <2>1, WholeUnlessCopying DEF TargetExists, OpenFails
    <2>2. CASE Open
      <3>1. pos \in Entry /\ AllWhole
        BY <2>2, WholeUnlessCopying DEF Open
      <3>2. \A p \in Place : disk'[pos][p].cut = {} \/ (pos \in helped' /\ p # "staged")
        BY <2>2, <3>1 DEF Open, AllWhole, Fresh, Place
      <3> QED  BY <1>0, <1>h, <3>1, <3>2, WholeKept
    <2>3. ASSUME NEW p \in Piece, StartPiece(p) PROVE NoTruncatedFile'
      BY <1>0, <2>3 DEF StartPiece, NoTruncatedFile, Into, pathVars
    <2>4. CASE FinishPiece
      <3>1. pos' = pos /\ pc' = pc /\ Into' = Into /\ pos \in Entry
        BY <2>4 DEF FinishPiece, Into, pathVars
      <3>2. disk' = [disk EXCEPT ![pos] = [disk[pos] EXCEPT ![Into] = Finished]]
        BY <2>4, FinishPieceEffect
      <3>3. \A e \in Entry, p \in Place : (e # pos \/ p # Into) => disk'[e][p] = disk[e][p]
        BY <3>1, <3>2
      <3>4. pc = "copying"
        BY <2>4 DEF FinishPiece
      <3> QED  BY <1>0, <1>h, <3>1, <3>3, <3>4 DEF NoTruncatedFile
    <2>5. CASE PieceFails \/ Interrupted
      <3>1. pos \in Entry /\ Into \in Place /\ Cleaned.cut = {}
        BY <2>5, NodesTyped DEF PieceFails, Interrupted, Cleaned, Absent, Node
      <3>2. disk' = [disk EXCEPT ![pos][Into] = Cleaned]
        BY <2>5 DEF PieceFails, Interrupted
      <3>3. \A e \in Entry, p \in Place :
              disk'[e][p].cut = {} \/ (e \in helped' /\ p # "staged")
        <4>1. \A e \in Entry, p \in Place :
                disk'[e][p] = IF e = pos /\ p = Into THEN Cleaned ELSE disk[e][p]
          BY <3>1, <3>2
        <4> QED  BY <1>h, <3>1, <4>1 DEF NoTruncatedFile
      <3> QED  BY <3>3 DEF NoTruncatedFile
    <2>6. CASE AllCopied
      BY <1>1, <2>6, WholeUnlessCopying DEF AllCopied
    <2> QED  BY <1>5, <2>1, <2>2, <2>3, <2>4, <2>5, <2>6 DEF Copying
  <1>6. CASE Committing
    <2>1. CASE InstallFails
      BY <1>1, <2>1, WholeUnlessCopying DEF InstallFails
    <2>2. CASE Committing /\ ~InstallFails
      <3>1. pos \in Entry /\ AllWhole /\ target \in Place
        BY <2>2, WholeUnlessCopying
        DEF Committing, Retire, RetireFails, Install, Restore, RestoreFails, Purge, Place
      <3>2. \A p \in Place : disk'[pos][p].cut = {} \/ (pos \in helped' /\ p # "staged")
        BY <2>2, <3>1
        DEF Committing, Retire, RetireFails, Install, Restore, RestoreFails, Purge, AllWhole,
            Absent, Forgotten, Place
      <3> QED  BY <1>0, <1>h, <3>1, <3>2, WholeKept
    <2> QED  BY <1>6, <2>1, <2>2
  <1>7. CASE Removing
    <2>1. pos \in Entry /\ AllWhole
      BY <1>7, WholeUnlessCopying DEF Removing, Remove, RemoveFails
    <2>2. CASE Remove
      <3>1. \A p \in Place : disk'[pos][p].cut = {} \/ (pos \in helped' /\ p # "staged")
        BY <2>1, <2>2 DEF Remove, AllWhole, Absent, Place
      <3> QED  BY <1>0, <1>h, <2>1, <3>1, WholeKept
    <2>3. CASE RemoveFails
      <3>1. PICK kept \in SUBSET At("src").holds : disk' = [disk EXCEPT ![pos]["src"].holds = kept]
        BY <2>3 DEF RemoveFails
      <3>2. [disk[pos]["src"] EXCEPT !.holds = kept].cut = disk[pos]["src"].cut
        <4>1. disk[pos]["src"] \in Node
          BY <2>1 DEF Place
        <4> QED  BY <4>1 DEF Node
      <3>3. disk' = [disk EXCEPT ![pos]["src"] = [disk[pos]["src"] EXCEPT !.holds = kept]]
        BY <3>1
      <3>4. \A p \in Place : disk'[pos][p].cut = {} \/ (pos \in helped' /\ p # "staged")
        <4>1. \A p \in Place : disk'[pos][p].cut = disk[pos][p].cut
          BY <2>1, <3>2, <3>3 DEF Place
        <4> QED  BY <1>h, <2>1, <4>1 DEF AllWhole
      <3> QED  BY <1>0, <1>h, <2>1, <3>4, WholeKept
    <2> QED  BY <1>7, <2>2, <2>3 DEF Removing
  <1>8. CASE Answering
    <2>1. CASE Retry \/ Skip \/ Abort
      BY <1>1, <2>1, WholeUnlessCopying DEF Retry, Skip, Abort, Asked, Failing
    <2>2. CASE Elevate \/ ElevateFails
      <3>1. pos \in Entry /\ AllWhole /\ target \in Place
        BY <2>2, WholeUnlessCopying DEF Elevate, ElevateFails, Asked, Failing, Place
      <3>2. CASE Elevate
        <4>1. \A p \in Place : disk'[pos][p].cut = {} \/ (pos \in helped' /\ p # "staged")
          BY <3>1, <3>2, OperationsAssumption DEF Elevate, Asked, Failing, AllWhole, Absent, Fresh, Place
        <4> QED  BY <1>0, <1>h, <3>1, <4>1, WholeKept
      <3>3. CASE ElevateFails
        <4>1. CASE UNCHANGED <<disk, helped>>
          BY <1>1, <3>1, <3>3, <4>1 DEF ElevateFails
        <4>2. ASSUME pc = "failed", NEW n \in Partial, disk' = [disk EXCEPT ![pos][target] = n],
                     helped' = helped \cup {pos}
              PROVE  NoTruncatedFile'
          <5>1. target # "staged"
            BY DEF TypeOK
          <5>2. \A p \in Place : disk'[pos][p].cut = {} \/ (pos \in helped' /\ p # "staged")
            BY <3>1, <4>2, <5>1 DEF AllWhole, Place
          <5> QED  BY <1>0, <1>h, <3>1, <4>2, <5>2, WholeKept
        <4>3. ASSUME NEW kept \in SUBSET At("src").holds, helped' = helped,
                     disk' = [disk EXCEPT ![pos]["src"].holds = kept]
              PROVE  NoTruncatedFile'
          <5>1. disk' = [disk EXCEPT ![pos]["src"] = [disk[pos]["src"] EXCEPT !.holds = kept]]
            BY <4>3
          <5>2. disk[pos]["src"] \in Node
            BY <3>1 DEF Place
          <5>3. [disk[pos]["src"] EXCEPT !.holds = kept].cut = disk[pos]["src"].cut
            BY <5>2 DEF Node
          <5>4. \A p \in Place : disk'[pos][p].cut = {} \/ (pos \in helped' /\ p # "staged")
            BY <3>1, <4>3, <5>1, <5>3 DEF AllWhole, Place
          <5> QED  BY <1>0, <1>h, <3>1, <4>3, <5>4, WholeKept
        <4> QED  BY <3>3, <4>1, <4>2, <4>3 DEF ElevateFails
      <3> QED  BY <2>2, <3>2, <3>3
    <2> QED  BY <1>8, <2>1, <2>2 DEF Answering
  <1> QED  BY <1>2, <1>3, <1>4, <1>5, <1>6, <1>7, <1>8 DEF Next

\* Under no name is there a half-written file, except the one being written and what an
\* administrator's helper that failed left: a kill at any other moment leaves none
\* (copyFilePreservingTime(), copyDirectorySafely(), resolveLocalFailure()).
THEOREM NothingTruncated == Spec => []NoTruncatedFile
  BY TypeInit, TypeStep, NoTruncatedInit, NoTruncatedStep, PTL DEF Spec

-----------------------------------------------------------------------------
(* Where the copy goes                                                     *)

\* copyOne() is under way: where the copy goes has been decided.
Underway == {"opening", "copying", "retire", "install", "restore", "purge", "removing", "failed",
             "leftover"}

\* What the place chosen, the steps of a commit and the flags have to do with each other.
PathInv ==
  /\ pc \in Underway =>
       IF overwrite THEN target = Home(pos) /\ pos \in chosen /\ situation[pos] \in {"apart", "alias"}
                    ELSE target # "src"
  /\ pc \in {"retire", "install", "restore"} => overwrite
  /\ pc = "copying" => IF staging THEN overwrite ELSE ~At(target).old
  /\ pc \in {"retire", "install"} => Listed(pos) \subseteq At("staged").holds
  /\ pc \in {"install", "restore"} => ~At(target).there
  /\ pc = "purge" => Listed(pos) \subseteq At(target).holds
  /\ pc \in {"removing", "leftover"} /\ target # "src" => Listed(pos) \subseteq At(target).holds

LEMMA PathInit == Init => PathInv
  BY DEF Init, PathInv, Underway

\* An entry that is over, or has not begun, needs nothing of the path.
LEMMA PathAtRest == pc' \notin Underway => PathInv'
  BY DEF PathInv, Underway

LEMMA EndEntryRests == ASSUME NEW r, EndEntry(r) PROVE pc' \notin Underway
  BY DEF EndEntry, Underway

LEMMA PathStep == ASSUME TypeOK, PathInv, [Next]_vars PROVE PathInv'
  <1> USE DEF TypeOK, GoTo, fixedVars, pathVars, flagVars
  <1>1. CASE UNCHANGED vars \/ Cancel
    BY <1>1 DEF vars, Cancel, PathInv, At, Into, Home
  <1>2. CASE Batch
    BY <1>2, PathAtRest, EndEntryRests DEF Batch, Begin, Finish, Rename, RenameRefused, Underway
  <1>3. CASE Placing
    <2>1. CASE Refuse \/ SkipConflict \/ CancelConflict
      BY <2>1, PathAtRest, EndEntryRests DEF Refuse, SkipConflict, CancelConflict
    <2>2. CASE CopyOntoItself \/ NoConflict \/ ChooseRename
      BY <2>2 DEF CopyOntoItself, NoConflict, ChooseRename, Choose, PathInv, Underway
    <2>3. CASE Overwrite
      BY <2>3 DEF Overwrite, Conflict, Choose, PathInv, Underway, Home
    <2> QED  BY <1>3, <2>1, <2>2, <2>3 DEF Placing
  <1>4. ASSUME CopyFailed, UNCHANGED <<situation, target, overwrite, chosen>>, pc \in Underway
        PROVE  PathInv'
    <2>1. CASE pc' = "failed" /\ pos' = pos
      BY <1>4, <2>1 DEF PathInv, Underway, Home
    <2> QED  BY <1>4, <2>1, PathAtRest, EndEntryRests DEF CopyFailed
  <1>5. ASSUME Landed, UNCHANGED <<situation, target, overwrite, chosen>>, pc \in Underway,
               target # "src" => Listed(pos) \subseteq disk'[pos][target].holds
        PROVE  PathInv'
    <2>1. CASE pc' = "removing" /\ pos' = pos
      BY <1>5, <2>1 DEF PathInv, Underway, Home, At
    <2> QED  BY <1>5, <2>1, PathAtRest, EndEntryRests DEF Landed
  <1>6. CASE Copying
    <2>1. CASE TargetExists \/ OpenFails \/ PieceFails \/ Interrupted
      BY <1>4, <2>1 DEF TargetExists, OpenFails, PieceFails, Interrupted, Underway
    <2>2. CASE Open
      <3>1. pos \in Entry /\ target \in Place
        BY <2>2, NodesTyped DEF Open
      <3>2. ~staging' => ~disk'[pos][target].old
        BY <2>2, <3>1 DEF Open, Fresh
      <3>3. staging' => overwrite
        BY <2>2 DEF Open
      <3> QED  BY <2>2, <3>2, <3>3 DEF Open, PathInv, Underway, Home, At
    <2>3. ASSUME NEW p \in Piece, StartPiece(p) PROVE PathInv'
      <3>1. pos \in Entry /\ Into \in Place
        BY <2>3, NodesTyped DEF StartPiece
      <3>2. ~staging => disk'[pos][target].old = disk[pos][target].old
        BY <2>3, <3>1 DEF StartPiece, Into
      <3> QED  BY <2>3, <3>2 DEF StartPiece, PathInv, Underway, Home, At
    <2>4. CASE FinishPiece
      <3>1. pos \in Entry /\ Into \in Place /\ At(Into) \in Node
        BY <2>4, NodesTyped DEF FinishPiece
      <3>2. ~staging => disk'[pos][target].old = disk[pos][target].old
        <4>1. disk'[pos][Into] = Finished
          BY <2>4, <3>1, FinishPieceEffect
        <4>2. Finished.old = At(Into).old
          BY <3>1 DEF Finished, Node
        <4> QED  BY <4>1, <4>2 DEF Into, At
      <3> QED  BY <2>4, <3>2 DEF FinishPiece, PathInv, Underway, Home, At
    <2>5. CASE AllCopied
      <3>1. CASE staging
        BY <2>5, <3>1 DEF AllCopied, PathInv, Underway, Home, At, Into
      <3>2. CASE ~staging
        BY <1>5, <2>5, <3>2 DEF AllCopied, Underway, At, Into
      <3> QED  BY <3>1, <3>2
    <2> QED  BY <1>6, <2>1, <2>2, <2>3, <2>4, <2>5 DEF Copying
  <1>7. CASE Committing
    <2>1. CASE RetireFails \/ Restore \/ RestoreFails
      BY <1>4, <2>1 DEF RetireFails, Restore, RestoreFails, Underway
    <2>2. CASE Retire
      BY <2>2 DEF Retire, PathInv, Underway, Home, At, Place, Absent
    <2>3. CASE Install
      <3>1. Listed(pos) \subseteq disk'[pos][target].holds
        BY <2>3 DEF Install, PathInv, At, Place, Absent
      <3> QED  BY <2>3, <3>1 DEF Install, PathInv, Underway, Home, At
    <2>4. CASE InstallFails
      BY <2>4 DEF InstallFails, PathInv, Underway, Home, At
    <2>5. CASE Purge
      <3>1. Listed(pos) \subseteq disk'[pos][target].holds
        BY <2>5 DEF Purge, PathInv, At, Place, Absent
      <3> QED  BY <1>5, <2>5, <3>1 DEF Purge, Underway
    <2> QED  BY <1>7, <2>1, <2>2, <2>3, <2>4, <2>5 DEF Committing
  <1>8. CASE Removing
    <2>1. CASE Remove
      BY <2>1, PathAtRest, EndEntryRests DEF Remove
    <2>2. CASE RemoveFails
      <3>1. target # "src" => disk'[pos][target] = disk[pos][target]
        BY <2>2 DEF RemoveFails, Place
      <3> QED  BY <2>2, <3>1 DEF RemoveFails, PathInv, Underway, Home, At
    <2> QED  BY <1>8, <2>1, <2>2 DEF Removing
  <1>9. CASE Answering
    <2>1. CASE Skip \/ Abort \/ Elevate
      BY <2>1, PathAtRest, EndEntryRests DEF Skip, Abort, Elevate
    <2>2. CASE Retry
      BY <2>2 DEF Retry, Asked, Failing, PathInv, Underway, Home, At
    <2>3. CASE ElevateFails
      <3>1. CASE pc = "failed"
        BY <2>3, <3>1 DEF ElevateFails, PathInv, Underway, Home
      <3>2. CASE pc = "leftover"
        <4>1. target # "src" => disk'[pos][target] = disk[pos][target]
          <5>1. CASE UNCHANGED disk
            BY <5>1
          <5>2. ASSUME NEW kept, disk' = [disk EXCEPT ![pos]["src"].holds = kept]
                PROVE  target # "src" => disk'[pos][target] = disk[pos][target]
            BY <3>2, <5>2 DEF Place
          <5> QED  BY <2>3, <3>2, <5>1, <5>2 DEF ElevateFails
        <4>2. /\ pc' = "leftover" /\ UNCHANGED <<pos, target, overwrite, situation, chosen>>
          BY <2>3, <3>2 DEF ElevateFails
        <4> QED  BY <3>2, <4>1, <4>2 DEF PathInv, Underway, Home, At, Listed, PiecesOf
      <3> QED  BY <2>3, <3>1, <3>2 DEF ElevateFails, Asked, Failing
    <2> QED  BY <1>9, <2>1, <2>2, <2>3 DEF Answering
  <1> QED  BY <1>1, <1>2, <1>3, <1>6, <1>7, <1>8, <1>9 DEF Next

LEMMA StepShape ==
  ASSUME TypeOK, [Next]_vars
  PROVE  /\ occupied' = occupied /\ situation' = situation /\ operation' = operation
         /\ chosen \subseteq chosen' /\ helped \subseteq helped' /\ replaces' = replaces
         /\ pos' = pos \/ (pos' = pos + 1 /\ pc' \notin Underway)
         /\ pc \in Underway /\ pc' \notin Underway => pos' = pos + 1
  <1> USE DEF TypeOK, GoTo, EndEntry, Underway, fixedVars, pathVars, flagVars
  <1>1. CASE UNCHANGED vars \/ Cancel
    BY <1>1 DEF vars, Cancel
  <1>2. CASE Batch
    BY <1>2 DEF Batch, Begin, Finish, Rename, RenameRefused
  <1>3. CASE Placing
    BY <1>3 DEF Placing, Refuse, CopyOntoItself, NoConflict, Overwrite, ChooseRename, SkipConflict,
                CancelConflict, Conflict, Choose
  <1>4. CASE Copying
    BY <1>4 DEF Copying, TargetExists, Open, OpenFails, StartPiece, FinishPiece, PieceFails,
                Interrupted, AllCopied, CopyFailed, Landed
  <1>5. CASE Committing
    BY <1>5 DEF Committing, Retire, RetireFails, Install, InstallFails, Restore, RestoreFails,
                Purge, CopyFailed, Landed
  <1>6. CASE Removing
    BY <1>6 DEF Removing, Remove, RemoveFails
  <1>7. CASE Answering
    BY <1>7 DEF Answering, Retry, Skip, Abort, Elevate, ElevateFails, Asked, Failing
  <1> QED  BY <1>1, <1>2, <1>3, <1>4, <1>5, <1>6, <1>7, HelpedKept DEF Next

-----------------------------------------------------------------------------
(* What is selected                                                        *)

\* What the copy lists of the tree of e is complete at its source until a copy of it is,
\* and then at the target or under the free name.
SourceOf(e) ==
  /\ e > pos \/ (e = pos /\ pc \notin {"removing", "leftover"}) => Listed(e) \subseteq disk[e]["src"].holds
  /\ e < pos => Listed(e) \subseteq disk[e]["src"].holds \cup disk[e]["dst"].holds \cup disk[e]["alt"].holds

SourceInv == TypeOK /\ PathInv /\ \A e \in Entry : situation[e] # "alias" => SourceOf(e)

\* The same of every moment: what a reader is promised of an entry.
ListedKept ==
  \A e \in Entry : situation[e] # "alias" =>
    Listed(e) \subseteq disk[e]["src"].holds \cup disk[e]["dst"].holds \cup disk[e]["alt"].holds

LEMMA SourceInit == Init => SourceInv
  <1> SUFFICES ASSUME Init, NEW e \in Entry PROVE SourceOf(e)
    BY TypeInit, PathInit DEF SourceInv
  <1>1. disk[e]["src"].holds = PiecesOf(e) /\ pos = 1
    BY DEF Init, Fresh, Place
  <1>2. ~(e < pos)
    BY <1>1, CountAssumption DEF Entry
  <1> QED  BY <1>1, <1>2, PiecesTyped DEF SourceOf

LEMMA OtherSources ==
  ASSUME SourceInv, [Next]_vars, NEW e \in Entry, situation[e] # "alias", e # pos
  PROVE  SourceOf(e)'
  <1>1. disk'[e] = disk[e] /\ SourceOf(e)
    BY OthersKept DEF SourceInv
  <1>2. (e < pos' => e < pos) /\ (e > pos' \/ e = pos' => e > pos)
    BY StepShape, CountAssumption DEF SourceInv, TypeOK, Entry
  <1> QED  BY <1>1, <1>2 DEF SourceOf, Listed, PiecesOf

\* The source is left alone before it may be removed.
LEMMA SourceUntouched ==
  ASSUME SourceInv, [Next]_vars, NEW e \in Entry, situation[e] # "alias", e = pos,
         pc \notin {"removing", "leftover"}, disk'[e]["src"].holds = disk[e]["src"].holds
  PROVE  SourceOf(e)'
  <1>1. SourceOf(e)
    BY DEF SourceInv
  <1> QED  BY <1>1 DEF SourceOf, Listed, PiecesOf

\* The copy is complete, and the entry is over or its source is being removed.
LEMMA CopyComplete ==
  ASSUME SourceInv, [Next]_vars, NEW e \in Entry, e = pos,
         NEW p \in {"dst", "alt"}, Listed(e) \subseteq disk'[e][p].holds,
         pos' # pos \/ pc' \in {"removing", "leftover"}
  PROVE  SourceOf(e)'
  <1>1. ~(e > pos') /\ (e = pos' => pc' \in {"removing", "leftover"})
    BY StepShape, CountAssumption DEF SourceInv, TypeOK, Entry
  <1> QED  BY <1>1 DEF SourceOf, Listed, PiecesOf

LEMMA SourceStep == ASSUME SourceInv, [Next]_vars PROVE SourceInv'
  <1>0. TypeOK' /\ PathInv'
    BY TypeStep, PathStep DEF SourceInv
  <1> SUFFICES ASSUME NEW e \in Entry, situation[e] # "alias", e = pos PROVE SourceOf(e)'
    BY <1>0, OtherSources, StepShape DEF SourceInv
  <1>a. /\ pos \in Entry /\ TypeOK /\ PathInv /\ SourceOf(e)
        /\ pc \in Underway => target \in {"dst", "alt"}
        /\ pc \in Underway => Into \in {"dst", "alt", "staged"}
        /\ pc \in {"removing", "leftover"} => Listed(e) \subseteq disk[e][target].holds
    BY DEF SourceInv, TypeOK, PathInv, Home, Into, Underway, At
  <1>b. pos' = pos + 1 => pos' # pos
    BY <1>a DEF TypeOK
  <1> USE DEF TypeOK, GoTo, fixedVars, pathVars, flagVars, At
  <1>1. CASE UNCHANGED disk /\ pc \notin {"removing", "leftover"}
    BY <1>1, <1>a, SourceUntouched
  <1>2. CASE UNCHANGED vars \/ Cancel
    BY <1>2, <1>a DEF vars, Cancel, SourceOf, Listed, PiecesOf
  <1>3. CASE Batch
    <2>1. CASE Rename
      <3>1. disk'[e]["dst"] = disk[e]["src"] /\ pc = "renaming" /\ pos' # pos
        BY <1>a, <1>b, <2>1 DEF Rename, EndEntry, Place
      <3>2. Listed(e) \subseteq disk'[e]["dst"].holds
        BY <1>a, <3>1 DEF SourceOf
      <3> QED  BY <3>1, <3>2, CopyComplete
    <2>2. CASE Begin \/ Finish \/ RenameRefused
      BY <1>1, <2>2 DEF Begin, Finish, RenameRefused
    <2> QED  BY <1>3, <2>1, <2>2 DEF Batch
  <1>4. CASE Placing
    BY <1>1, <1>4 DEF Placing, Refuse, CopyOntoItself, NoConflict, Overwrite, ChooseRename,
                      SkipConflict, CancelConflict, Conflict, Choose
  <1>5. CASE Copying
    <2>1. CASE TargetExists \/ OpenFails \/ AllCopied
      BY <1>1, <2>1 DEF TargetExists, OpenFails, AllCopied
    <2>2. ASSUME NEW p \in Place, p # "src", NEW n, disk' = [disk EXCEPT ![e][p] = n],
                 pc \in {"opening", "copying"}
          PROVE  SourceOf(e)'
      <3>1. disk'[e]["src"] = disk[e]["src"]
        BY <1>a, <2>2 DEF Place
      <3> QED  BY <2>2, <3>1, SourceUntouched
    <2>3. CASE Open
      BY <1>a, <2>2, <2>3 DEF Open, Underway, Place
    <2>4. ASSUME NEW p \in Piece, StartPiece(p) PROVE SourceOf(e)'
      <3>1. disk' = [disk EXCEPT ![e][Into] = [disk[pos][Into] EXCEPT !.cut = {p}]]
        BY <2>4 DEF StartPiece
      <3> QED  BY <1>a, <2>2, <2>4, <3>1 DEF StartPiece, Underway, Place
    <2>5. CASE FinishPiece
      BY <1>a, <2>2, <2>5, FinishPieceEffect DEF FinishPiece, Underway, Place
    <2>6. CASE PieceFails \/ Interrupted
      BY <1>a, <2>2, <2>6 DEF PieceFails, Interrupted, Underway, Place
    <2> QED  BY <1>5, <2>1, <2>2, <2>3, <2>4, <2>5, <2>6 DEF Copying
  <1>6. CASE Committing
    <2>1. pc \in Underway \ {"removing", "leftover"}
      BY <1>6 DEF Committing, Retire, RetireFails, Install, InstallFails, Restore, RestoreFails,
                  Purge, Underway
    <2>2. disk'[e]["src"] = disk[e]["src"]
      BY <1>a, <1>6, <2>1 DEF Committing, Retire, RetireFails, Install, InstallFails, Restore,
                              RestoreFails, Purge, Place
    <2> QED  BY <2>1, <2>2, SourceUntouched
  <1>7. CASE Removing
    <2>1. pc = "removing" /\ target \in {"dst", "alt"}
      BY <1>a, <1>7 DEF Removing, Remove, RemoveFails, Underway
    <2>2. disk'[e][target] = disk[e][target]
      BY <1>7, <1>a, <2>1 DEF Removing, Remove, RemoveFails, Place
    <2>3. pos' # pos \/ pc' = "leftover"
      BY <1>7, <1>b DEF Removing, Remove, RemoveFails, EndEntry
    <2> QED  BY <1>a, <2>1, <2>2, <2>3, CopyComplete
  <1>8. CASE Answering
    <2>1. pc \in {"failed", "leftover"} /\ target \in {"dst", "alt"}
      BY <1>a, <1>8 DEF Answering, Retry, Skip, Abort, Elevate, ElevateFails, Asked, Failing, Underway
    <2>2. CASE pc = "leftover"
      <3>1. disk'[e][target] = disk[e][target]
        <4>1. CASE Retry \/ Skip \/ Abort
          BY <4>1 DEF Retry, Skip, Abort
        <4>2. CASE Elevate
          BY <1>a, <2>1, <2>2, <4>2 DEF Elevate, Place
        <4>3. CASE ElevateFails
          <5>1. CASE UNCHANGED disk
            BY <5>1
          <5>2. ASSUME NEW kept, disk' = [disk EXCEPT ![pos]["src"].holds = kept]
                PROVE  disk'[e][target] = disk[e][target]
            BY <1>a, <2>1, <5>2 DEF Place
          <5> QED  BY <2>2, <4>3, <5>1, <5>2 DEF ElevateFails
        <4> QED  BY <1>8, <4>1, <4>2, <4>3 DEF Answering
      <3>2. pos' # pos \/ pc' \in {"removing", "leftover"}
        BY <1>8, <1>b, <2>2 DEF Answering, Retry, Skip, Abort, Elevate, ElevateFails, EndEntry
      <3> QED  BY <1>a, <2>1, <2>2, <3>1, <3>2, CopyComplete
    <2>3. CASE pc = "failed" /\ ~Elevate
      <3>1. disk'[e]["src"] = disk[e]["src"]
        <4>1. CASE Retry \/ Skip \/ Abort
          BY <4>1 DEF Retry, Skip, Abort
        <4>2. CASE ElevateFails
          <5>1. CASE UNCHANGED disk
            BY <5>1
          <5>2. ASSUME NEW n, disk' = [disk EXCEPT ![pos][target] = n]
                PROVE  disk'[e]["src"] = disk[e]["src"]
            BY <1>a, <2>1, <5>2 DEF Place
          <5> QED  BY <2>3, <4>2, <5>1, <5>2 DEF ElevateFails
        <4> QED  BY <1>8, <2>3, <4>1, <4>2 DEF Answering
      <3> QED  BY <2>3, <3>1, SourceUntouched
    <2>4. CASE pc = "failed" /\ Elevate
      <3>1. CASE operation = "copy"
        <4>1. disk'[e]["src"] = disk[e]["src"]
          BY <1>a, <2>1, <2>4, <3>1 DEF Elevate, Place
        <4> QED  BY <2>4, <4>1, SourceUntouched
      <3>2. CASE operation = "move"
        <4>1. disk' = [disk EXCEPT ![e][target] = disk[e]["src"], ![e]["src"] = Absent] /\ pos' # pos
          BY <1>b, <2>4, <3>2 DEF Elevate, EndEntry
        <4>2. disk'[e][target] = disk[e]["src"]
          BY <1>a, <2>1, <4>1 DEF Place
        <4>3. Listed(e) \subseteq disk'[e][target].holds
          BY <1>a, <2>4, <4>2 DEF SourceOf
        <4> QED  BY <2>1, <4>1, <4>3, CopyComplete
      <3> QED  BY <1>a, <3>1, <3>2, OperationsAssumption
    <2> QED  BY <2>1, <2>2, <2>3, <2>4
  <1> QED  BY <1>2, <1>3, <1>4, <1>5, <1>6, <1>7, <1>8 DEF Next

LEMMA SourceInvImplies == SourceInv => ListedKept
  <1> SUFFICES ASSUME SourceInv, NEW e \in Entry, situation[e] # "alias"
               PROVE  Listed(e) \subseteq disk[e]["src"].holds \cup disk[e]["dst"].holds \cup disk[e]["alt"].holds
    BY DEF ListedKept
  <1>1. e > pos \/ e = pos \/ e < pos
    BY CountAssumption DEF SourceInv, TypeOK, Entry
  <1>2. CASE e = pos /\ pc \in {"removing", "leftover"}
    <2>1. target \in {"dst", "alt"} /\ Listed(e) \subseteq disk[e][target].holds
      BY <1>2 DEF SourceInv, TypeOK, PathInv, Home, Underway, At
    <2> QED  BY <2>1
  <1> QED  BY <1>1, <1>2 DEF SourceInv, SourceOf

\* Unless the target is the source under another name, every piece the copy lists is, at
\* every moment and whatever fails, complete at the source or where it was copied to.
THEOREM ListedSafe == Spec => []ListedKept
  BY SourceInit, SourceStep, SourceInvImplies, PTL DEF Spec

\* Hence, of trees without dangling links and sockets and unless the target is the source
\* under another name, every piece of every entry: what runs copy_unlisted and copy_alias
\* show to fail is exactly what the two hypotheses exclude.
THEOREM SourcesSafe ==
  ASSUME Unlisted = {}, "alias" \notin Situations
  PROVE  Spec => []SourceKept
  <1>1. SourceInv => SourceKept
    <2> SUFFICES ASSUME SourceInv, NEW e \in Entry
                 PROVE  PiecesOf(e) \subseteq disk[e]["src"].holds \cup disk[e]["dst"].holds \cup disk[e]["alt"].holds
      BY DEF SourceKept
    <2>1. situation[e] # "alias" /\ Listed(e) = PiecesOf(e)
      BY DEF SourceInv, TypeOK, Listed
    <2> QED  BY <2>1, SourceInvImplies DEF ListedKept
  <1> QED  BY <1>1, SourceInit, SourceStep, PTL DEF Spec

-----------------------------------------------------------------------------
(* What occupied a target                                                  *)

\* Nothing has been done to the entry yet.
Ahead(e) == e > pos \/ (e = pos /\ pc \notin Underway)

\* It has a hidden name for good, or a failing helper took it away.
Gone(e) == disk[e]["orphan"].old \/ (replaces /\ e \in helped)

\* What occupied the target of e is in its place until e is begun. Then it may have a
\* hidden name, or be replaced, but only if the user gave it up.
OccupantOf(e) ==
  /\ situation[e] \in {"apart", "dangling"}
  /\ \A p \in Place : disk[e][p].old => disk[e][p].there
  /\ Ahead(e) => disk[e]["dst"].old
  /\ \/ disk[e]["dst"].old
     \/ /\ e \in chosen
        /\ \/ Gone(e)
           \/ (e = pos => pc \in {"install", "restore"}) /\ disk[e]["backup"].old
           \/ (e = pos => pc \in {"purge", "removing", "leftover"}) /\ Listed(e) \subseteq disk[e]["dst"].holds

OccupantInv == SourceInv /\ \A e \in occupied : OccupantOf(e)

LEMMA AheadShrinks ==
  ASSUME TypeOK, [Next]_vars, NEW e \in Entry
  PROVE  Ahead(e)' => Ahead(e)
  BY StepShape, CountAssumption DEF Ahead, TypeOK, Entry

LEMMA OccupantInit == Init => OccupantInv
  <1> SUFFICES ASSUME Init, NEW e \in occupied PROVE OccupantOf(e)
    BY SourceInit DEF OccupantInv
  <1>1. e \in Entry /\ situation[e] \in {"apart", "dangling"}
    BY DEF Init
  <1>2. \A p \in Place : disk[e][p] = IF p = "src" THEN Fresh(PiecesOf(e)) ELSE IF p = "dst" THEN Occupant ELSE Absent
    BY <1>1 DEF Init
  <1> QED  BY <1>1, <1>2 DEF OccupantOf, Gone, Fresh, Occupant, Absent, Place

LEMMA OthersOccupants ==
  ASSUME OccupantInv, [Next]_vars, NEW e \in occupied, e # pos
  PROVE  OccupantOf(e)'
  <1>1. e \in Entry /\ disk'[e] = disk[e] /\ OccupantOf(e)
    BY OthersKept DEF OccupantInv, SourceInv, TypeOK
  <1>2. Ahead(e)' => Ahead(e)
    BY <1>1, AheadShrinks DEF OccupantInv, SourceInv
  <1>3. e = pos' => Ahead(e)
    BY <1>1, StepShape, CountAssumption DEF OccupantInv, SourceInv, TypeOK, Entry, Ahead
  <1> QED  BY <1>1, <1>2, <1>3, StepShape DEF OccupantInv, SourceInv, OccupantOf, Gone, Listed, PiecesOf

\* The step leaves the places of the target and of the hidden occupants alone.
LEMMA OccupantUntouched ==
  ASSUME OccupantInv, [Next]_vars, NEW e \in occupied, e = pos,
         disk'[e]["dst"] = disk[e]["dst"], disk'[e]["orphan"] = disk[e]["orphan"],
         disk'[e]["backup"] = disk[e]["backup"],
         \A p \in Place : disk'[e][p].old => disk'[e][p].there,
         pos' = pos /\ pc \in {"install", "restore"} => pc' \in {"install", "restore"},
         pos' = pos /\ pc \in {"purge", "removing", "leftover"} => pc' \in {"purge", "removing", "leftover"}
  PROVE  OccupantOf(e)'
  <1>1. e \in Entry /\ OccupantOf(e)
    BY DEF OccupantInv, SourceInv, TypeOK
  <1>2. Ahead(e)' => Ahead(e)
    BY <1>1, AheadShrinks DEF OccupantInv, SourceInv
  <1> QED  BY <1>1, <1>2, StepShape DEF OccupantInv, SourceInv, OccupantOf, Gone, Listed, PiecesOf

LEMMA OccupantStep == ASSUME OccupantInv, [Next]_vars PROVE OccupantInv'
  <1>0. SourceInv'
    BY SourceStep DEF OccupantInv
  <1> SUFFICES ASSUME NEW e \in occupied, e = pos PROVE OccupantOf(e)'
    BY <1>0, OthersOccupants, StepShape DEF OccupantInv, SourceInv
  <1>a. /\ e \in Entry /\ pos \in Entry /\ TypeOK /\ PathInv /\ OccupantOf(e)
        /\ Home(pos) = "dst" /\ Into \in Place
        /\ pc \in Underway => target \in {"dst", "alt"}
    BY NodesTyped DEF OccupantInv, SourceInv, OccupantOf, Gone, TypeOK, PathInv, Home
  <1>b. Ahead(e)' => Ahead(e)
    BY <1>a, AheadShrinks
  <1> USE DEF TypeOK, GoTo, fixedVars, pathVars, flagVars, At
  <1>1. CASE UNCHANGED disk /\ pc \notin {"install", "restore", "purge", "removing", "leftover"}
    BY <1>1, <1>a, OccupantUntouched DEF OccupantOf, Gone
  <1>2. CASE UNCHANGED vars \/ Cancel
    BY <1>2, <1>a, OccupantUntouched DEF OccupantOf, Gone, vars, Cancel
  <1>3. CASE Rename
    <2>1. pc = "renaming" /\ ~disk[e]["dst"].old
      BY <1>3, <1>a DEF Rename, OccupantOf, Gone, Place
    <2> QED  BY <1>3, <1>a, <2>1 DEF OccupantOf, Gone, Ahead, Underway
  <1>4. CASE Begin \/ Finish \/ RenameRefused
    BY <1>1, <1>4 DEF Begin, Finish, RenameRefused
  <1>5. CASE Placing
    BY <1>1, <1>5 DEF Placing, Refuse, CopyOntoItself, NoConflict, Overwrite, ChooseRename,
                      SkipConflict, CancelConflict, Conflict, Choose
  <1>6. CASE Copying
    <2>1. CASE TargetExists \/ OpenFails \/ AllCopied
      BY <1>1, <2>1 DEF TargetExists, OpenFails, AllCopied
    <2>2. CASE Open
      <3>1. CASE disk[e][target].there
        <4>1. disk' = [disk EXCEPT ![e]["staged"] = Fresh({})]
          BY <2>2, <3>1 DEF Open
        <4>2. /\ disk'[e]["dst"] = disk[e]["dst"] /\ disk'[e]["orphan"] = disk[e]["orphan"]
              /\ disk'[e]["backup"] = disk[e]["backup"]
          BY <1>a, <4>1 DEF Place
        <4>3. \A p \in Place : disk'[e][p].old => disk'[e][p].there
          <5>1. \A p \in Place : disk'[e][p] = IF p = "staged" THEN Fresh({}) ELSE disk[e][p]
            BY <1>a, <4>1
          <5> QED  BY <1>a, <5>1 DEF OccupantOf, Gone, Fresh
        <4>4. pc = "opening"
          BY <2>2 DEF Open
        <4> QED  BY <1>a, <4>2, <4>3, <4>4, OccupantUntouched
      <3>2. CASE ~disk[e][target].there
        <4>1. disk' = [disk EXCEPT ![e][target] = Fresh({})] /\ pc = "opening" /\ pc' = "copying" /\ pos' = pos
          BY <2>2, <3>2 DEF Open
        <4>2. ~disk[e][target].old
          BY <1>a, <3>2, <4>1 DEF OccupantOf, Gone, Place, Underway
        <4> QED  BY <1>a, <1>b, <4>1, <4>2, StepShape DEF OccupantOf, Gone, Fresh, Place, Underway
      <3> QED  BY <3>1, <3>2
    <2>3. ASSUME NEW n \in Node, disk' = [disk EXCEPT ![e][Into] = n], pc = "copying",
                 n.old \in {disk[e][Into].old, FALSE}, n.old => n.there
          PROVE  OccupantOf(e)'
      <3>1. CASE staging
        <4>1. Into = "staged"
          BY <3>1 DEF Into
        <4> QED  BY <1>a, <2>3, <4>1, OccupantUntouched DEF OccupantOf, Gone, Place
      <3>2. CASE ~staging
        <4>1. Into = target /\ ~disk[e][target].old /\ target \in {"dst", "alt"}
          BY <1>a, <2>3, <3>2 DEF Into, PathInv, Underway
        <4>2. (e \in chosen /\ Gone(e)) \/ disk[e]["dst"].old
          BY <1>a, <2>3 DEF OccupantOf, Gone
        <4>3. target = "dst" => e \in chosen /\ Gone(e)
          BY <4>1, <4>2
        <4>4. disk'[e]["orphan"] = disk[e]["orphan"] /\ \A p \in Place : disk'[e][p].old => disk'[e][p].there
          BY <1>a, <2>3, <4>1 DEF OccupantOf, Gone, Place
        <4>5. target = "alt" => disk'[e]["dst"] = disk[e]["dst"]
          BY <1>a, <2>3, <4>1
        <4>6. pc \in Underway
          BY <2>3 DEF Underway
        <4> QED  BY <1>a, <1>b, <4>1, <4>2, <4>3, <4>4, <4>5, <4>6, StepShape DEF OccupantOf, Gone, Ahead
      <3> QED  BY <3>1, <3>2
    <2>4. ASSUME NEW p \in Piece, StartPiece(p) PROVE OccupantOf(e)'
      <3> DEFINE n == [disk[e][Into] EXCEPT !.cut = {p}]
      <3>1. disk[e][Into] \in Node
        BY <1>a
      <3>2. n \in Node /\ n.old = disk[e][Into].old /\ n.there = disk[e][Into].there
        BY <3>1 DEF Node
      <3>3. disk' = [disk EXCEPT ![e][Into] = n] /\ pc = "copying"
        BY <2>4 DEF StartPiece
      <3> QED  BY <1>a, <2>3, <3>2, <3>3 DEF OccupantOf, Gone
    <2>5. CASE FinishPiece
      <3>1. disk[e][Into] \in Node
        BY <1>a
      <3>2. Finished.old = disk[e][Into].old /\ Finished.there = disk[e][Into].there
        BY <3>1 DEF Finished, Node
      <3>3. disk' = [disk EXCEPT ![e][Into] = Finished] /\ Finished \in Node /\ pc = "copying"
        BY <1>a, <2>5, FinishPieceEffect DEF FinishPiece
      <3> QED  BY <1>a, <2>3, <3>2, <3>3 DEF OccupantOf, Gone
    <2>6. CASE PieceFails \/ Interrupted
      <3>1. disk[e][Into] \in Node /\ Cleaned \in Node
        BY <1>a, NodesTyped
      <3>2. Cleaned.old \in {disk[e][Into].old, FALSE} /\ (Cleaned.old => Cleaned.there)
        BY <1>a, <3>1 DEF Cleaned, Absent, OccupantOf, Gone, Node
      <3>3. disk' = [disk EXCEPT ![e][Into] = Cleaned] /\ pc = "copying"
        BY <2>6 DEF PieceFails, Interrupted
      <3> QED  BY <2>3, <3>1, <3>2, <3>3
    <2> QED  BY <1>6, <2>1, <2>2, <2>4, <2>5, <2>6 DEF Copying
  <1>7. CASE Committing
    <2> USE DEF Underway
    <2>0. pc \in {"retire", "install", "restore"} => target = "dst" /\ e \in chosen
      BY <1>a DEF PathInv
    <2>1. CASE Retire
      BY <1>a, <1>b, <2>0, <2>1, StepShape DEF Retire, OccupantOf, Gone, Absent, Place
    <2>2. CASE RetireFails
      BY <1>a, <2>2, OccupantUntouched DEF RetireFails, OccupantOf, Gone, Absent, Place
    <2>3. CASE Install
      <3>1. Listed(e) \subseteq disk[e]["staged"].holds
        BY <1>a, <2>3 DEF Install, PathInv
      <3>2. e \in occupied /\ pc' = "purge" /\ pos' = pos /\ chosen' = chosen /\ target = "dst" /\ e \in chosen
        BY <2>0, <2>3 DEF Install
      <3>3. disk' = [disk EXCEPT ![e]["dst"] = disk[e]["staged"], ![e]["staged"] = Absent]
        BY <2>3, <3>2 DEF Install
      <3>4. /\ Listed(e) \subseteq disk'[e]["dst"].holds
            /\ \A p \in Place : disk'[e][p].old => disk'[e][p].there
        BY <1>a, <3>1, <3>3 DEF OccupantOf, Gone, Absent, Place
      <3> QED  BY <1>a, <1>b, <3>2, <3>4, StepShape DEF OccupantOf, Gone, Ahead, Listed, PiecesOf
    <2>4. CASE InstallFails
      BY <1>a, <2>4, OccupantUntouched DEF InstallFails, OccupantOf, Gone
    <2>5. CASE Restore
      <3>1. disk' = [disk EXCEPT ![e]["dst"] = disk[e]["backup"], ![e]["backup"] = Absent, ![e]["staged"] = Absent]
        BY <2>0, <2>5 DEF Restore
      <3>2. ~disk[e]["dst"].old /\ (Gone(e) \/ disk[e]["backup"].old)
        BY <1>a, <2>0, <2>5 DEF Restore, PathInv, OccupantOf, Gone, Place
      <3>3. /\ disk'[e]["dst"] = disk[e]["backup"] /\ disk'[e]["orphan"] = disk[e]["orphan"]
            /\ \A p \in Place : disk'[e][p].old => disk'[e][p].there
        BY <1>a, <3>1 DEF OccupantOf, Gone, Absent, Place
      <3>4. pc = "restore" /\ chosen' = chosen /\ e \in chosen
        BY <2>0, <2>5 DEF Restore
      <3>5. ~Ahead(e)'
        BY <1>a, <1>b, <3>4 DEF Ahead
      <3> QED  BY <1>a, <3>2, <3>3, <3>4, <3>5, StepShape DEF OccupantOf, Gone
    <2>6. CASE RestoreFails
      <3>1. disk' = [disk EXCEPT ![e]["orphan"] = Forgotten, ![e]["backup"] = Absent, ![e]["staged"] = Absent]
        BY <2>6 DEF RestoreFails
      <3>2. /\ disk[e]["orphan"].old \/ disk[e]["backup"].old => Forgotten.old
            /\ Forgotten.old => Forgotten.there
        BY <1>a DEF Forgotten, OccupantOf, Gone, Place
      <3> QED  BY <1>a, <1>b, <2>0, <2>6, <3>1, <3>2, StepShape DEF RestoreFails, OccupantOf, Gone, Absent, Place, Ahead
    <2>7. CASE Purge
      <3>1. /\ disk[e]["orphan"].old \/ disk[e]["backup"].old => Forgotten.old
            /\ Forgotten.old => Forgotten.there
        BY <1>a DEF Forgotten, OccupantOf, Gone, Place
      <3>2. /\ disk'[e]["dst"] = disk[e]["dst"]
            /\ disk[e]["orphan"].old => disk'[e]["orphan"].old
            /\ \A p \in Place : disk'[e][p].old => disk'[e][p].there
        BY <1>a, <2>7, <3>1 DEF Purge, OccupantOf, Gone, Absent, Place
      <3>3. pc = "purge" /\ (pos' = pos => pc' = "removing")
        BY <1>a, <2>7, CountAssumption DEF Purge, Landed, EndEntry
      <3> QED  BY <1>a, <1>b, <3>2, <3>3, StepShape DEF OccupantOf, Gone, Ahead, Listed, PiecesOf
    <2> QED  BY <1>7, <2>1, <2>2, <2>3, <2>4, <2>5, <2>6, <2>7 DEF Committing
  <1>8. CASE Removing
    <2>1. CASE Remove
      <3>1. pos' # pos
        BY <1>a, <2>1, CountAssumption DEF Remove, EndEntry
      <3> QED  BY <1>a, <2>1, <3>1, OccupantUntouched DEF Remove, OccupantOf, Gone, Absent, Place
    <2>2. CASE RemoveFails
      <3>1. PICK kept : disk' = [disk EXCEPT ![e]["src"].holds = kept]
        BY <2>2 DEF RemoveFails
      <3>2. disk[e]["src"] \in Node
        BY <1>a DEF Place
      <3>3. [disk[e]["src"] EXCEPT !.holds = kept].old = disk[e]["src"].old /\ [disk[e]["src"] EXCEPT !.holds = kept].there = disk[e]["src"].there
        BY <3>2 DEF Node
      <3>4. \A p \in Place : p # "src" => disk'[e][p] = disk[e][p]
        BY <1>a, <3>1
      <3>5. disk'[e]["src"].old = disk[e]["src"].old /\ disk'[e]["src"].there = disk[e]["src"].there
        BY <1>a, <3>1, <3>3 DEF Place
      <3>6. /\ disk'[e]["dst"] = disk[e]["dst"] /\ disk'[e]["orphan"] = disk[e]["orphan"]
            /\ disk'[e]["backup"] = disk[e]["backup"]
        BY <3>4 DEF Place
      <3>7. \A p \in Place : disk'[e][p].old => disk'[e][p].there
        BY <1>a, <3>4, <3>5 DEF OccupantOf, Gone
      <3>8. pc = "removing" /\ pc' = "leftover"
        BY <2>2 DEF RemoveFails
      <3> QED  BY <1>a, <3>6, <3>7, <3>8, OccupantUntouched
    <2> QED  BY <1>8, <2>1, <2>2 DEF Removing
  <1>9. CASE Answering
    <2>1. CASE Retry \/ Skip \/ Abort
      <3>1. pc \in {"failed", "leftover"} /\ disk' = disk
        BY <2>1 DEF Retry, Skip, Abort, Asked, Failing
      <3>2. pos' = pos => pc' = IF pc = "failed" THEN "opening" ELSE "removing"
        <4>1. pos' = pos + 1 => pos' # pos
          BY <1>a DEF Entry
        <4> QED  BY <2>1, <4>1 DEF Retry, Skip, Abort, EndEntry
      <3> QED  BY <1>a, <3>1, <3>2, OccupantUntouched DEF OccupantOf, Gone
    <2>2. ASSUME NEW n \in Node, n.old => n.there, NEW m \in Node, m.old => m.there,
                 disk' = [disk EXCEPT ![e][target] = n, ![e]["src"] = m], pc = "failed",
                 \/ ~disk[e][target].there
                 \/ e \in chosen /\ (Gone(e)' \/ (pos' # pos /\ Listed(e) \subseteq n.holds))
          PROVE  OccupantOf(e)'
      <3>1. target \in {"dst", "alt"} /\ pc \in Underway
        BY <1>a, <2>2 DEF Underway
      <3>2. \A p \in Place : disk'[e][p] = IF p = target THEN n ELSE IF p = "src" THEN m ELSE disk[e][p]
        BY <1>a, <2>2, <3>1
      <3>3. \A p \in Place : disk'[e][p].old => disk'[e][p].there
        BY <1>a, <2>2, <3>2 DEF OccupantOf
      <3>4. disk'[e]["orphan"] = disk[e]["orphan"] /\ (Gone(e) => Gone(e)')
        BY <3>1, <3>2, StepShape, <1>a DEF Place, Gone
      <3>5. disk[e]["dst"].old \/ (e \in chosen /\ Gone(e))
        BY <1>a, <2>2 DEF OccupantOf
      <3>6. situation'[e] \in {"apart", "dangling"} /\ (e \in chosen => e \in chosen') /\ ~Ahead(e)'
        BY <1>a, <1>b, <3>1, StepShape DEF OccupantOf, Ahead
      <3>7. Listed(e)' = Listed(e)
        BY DEF Listed, PiecesOf
      <3>8. CASE target = "alt"
        <4>1. disk'[e]["dst"] = disk[e]["dst"]
          BY <3>2, <3>8 DEF Place
        <4> QED  BY <3>3, <3>4, <3>5, <3>6, <4>1 DEF OccupantOf
      <3>9. CASE target = "dst" /\ ~disk[e][target].there
        <4>1. e \in chosen /\ Gone(e)
          BY <1>a, <3>5, <3>9 DEF OccupantOf, Place
        <4> QED  BY <3>3, <3>4, <3>6, <4>1 DEF OccupantOf
      <3>10. CASE target = "dst" /\ disk[e][target].there
        <4>1. disk'[e]["dst"] = n
          BY <3>2, <3>10 DEF Place
        <4>2. e \in chosen /\ (Gone(e)' \/ (pos' # e /\ Listed(e)' \subseteq disk'[e]["dst"].holds))
          BY <2>2, <3>7, <3>10, <4>1
        <4> QED  BY <3>3, <3>6, <4>2 DEF OccupantOf
      <3> QED  BY <3>1, <3>8, <3>9, <3>10
    <2>h. HelperMay /\ pc = "failed" => ~disk[e][target].there \/ e \in chosen
      BY <1>a DEF HelperMay, PathInv, Underway
    <2>3. CASE Elevate
      <3>0. disk[e]["src"] \in Node /\ (disk[e]["src"].old => disk[e]["src"].there) /\ Absent \in Node /\ ~Absent.old
        BY <1>a, NodesTyped DEF OccupantOf, Place, Absent
      <3>1. pc \in {"failed", "leftover"} /\ pos' # pos
        BY <1>a, <2>3, CountAssumption DEF Elevate, EndEntry, Asked, Failing
      <3>2. CASE pc = "leftover"
        <4>1. disk' = [disk EXCEPT ![e]["src"] = Absent]
          BY <2>3, <3>2 DEF Elevate
        <4> QED  BY <1>a, <3>0, <3>1, <4>1, OccupantUntouched DEF OccupantOf, Place
      <3>3. CASE pc = "failed" /\ operation = "copy"
        <4>1. disk' = [disk EXCEPT ![e][target] = Fresh(PiecesOf(pos))] /\ HelperMay
          BY <2>3, <3>3 DEF Elevate
        <4>2. target # "src" /\ target \in Place
          BY <1>a, <3>3 DEF Place, Underway
        <4>3. disk' = [disk EXCEPT ![e][target] = Fresh(PiecesOf(pos)), ![e]["src"] = disk[e]["src"]]
          BY <1>a, <4>1, <4>2 DEF Place
        <4>4. /\ Fresh(PiecesOf(pos)) \in Node /\ ~Fresh(PiecesOf(pos)).old
              /\ Listed(e) \subseteq Fresh(PiecesOf(pos)).holds
          BY NodesTyped, PiecesTyped DEF Fresh
        <4> QED  BY <2>2, <2>h, <3>0, <3>1, <3>3, <4>1, <4>3, <4>4
      <3>4. CASE pc = "failed" /\ operation = "move"
        <4>1. disk' = [disk EXCEPT ![e][target] = disk[e]["src"], ![e]["src"] = Absent] /\ HelperMay
          BY <2>3, <3>4 DEF Elevate
        <4>2. Listed(e) \subseteq disk[e]["src"].holds
          BY <1>a, <3>4 DEF OccupantOf, OccupantInv, SourceInv, SourceOf
        <4> QED  BY <2>2, <2>h, <3>0, <3>1, <3>4, <4>1, <4>2
      <3> QED  BY <1>a, <3>1, <3>2, <3>3, <3>4, OperationsAssumption
    <2>4. CASE ElevateFails
      <3>1. pc \in {"failed", "leftover"} /\ pc' = pc /\ pos' = pos
        BY <2>4 DEF ElevateFails, Asked, Failing
      <3>2. CASE UNCHANGED disk
        BY <1>a, <3>1, <3>2, OccupantUntouched DEF OccupantOf
      <3>3. ASSUME NEW n \in Partial, pc = "failed", HelperMay, helped' = helped \cup {pos},
                   disk' = [disk EXCEPT ![pos][target] = n]
            PROVE  OccupantOf(e)'
        <4>1. n \in Node /\ ~n.old
          BY PartialTyped
        <4>2. target # "src" /\ target \in Place /\ disk[e]["src"] \in Node
          BY <1>a, <3>3 DEF Place, Underway
        <4>3. disk' = [disk EXCEPT ![e][target] = n, ![e]["src"] = disk[e]["src"]]
          BY <1>a, <3>3, <4>2 DEF Place
        <4>4. disk[e]["src"].old => disk[e]["src"].there
          BY <1>a DEF OccupantOf, Place
        <4>5. ~disk[e][target].there \/ (e \in chosen /\ Gone(e)')
          BY <1>a, <2>h, <3>3, StepShape DEF HelperMay, Gone
        <4> QED  BY <2>2, <3>3, <4>1, <4>2, <4>3, <4>4, <4>5
      <3>4. ASSUME NEW kept, disk' = [disk EXCEPT ![e]["src"].holds = kept]
            PROVE  OccupantOf(e)'
        <4>1. disk[e]["src"] \in Node
          BY <1>a DEF Place
        <4> DEFINE m == [disk[e]["src"] EXCEPT !.holds = kept]
        <4>2. m.old = disk[e]["src"].old /\ m.there = disk[e]["src"].there
          BY <4>1 DEF Node
        <4>3. disk' = [disk EXCEPT ![e]["src"] = m]
          BY <3>4
        <4> HIDE DEF m
        <4>4. \A p \in Place : disk'[e][p] = IF p = "src" THEN m ELSE disk[e][p]
          BY <1>a, <4>3
        <4>5. /\ \A p \in Place : disk'[e][p].old => disk'[e][p].there
              /\ disk'[e]["dst"] = disk[e]["dst"] /\ disk'[e]["orphan"] = disk[e]["orphan"]
              /\ disk'[e]["backup"] = disk[e]["backup"]
          BY <1>a, <4>2, <4>4 DEF OccupantOf, Place
        <4> QED  BY <1>a, <3>1, <4>5, OccupantUntouched
      <3> QED  BY <1>a, <2>4, <3>2, <3>3, <3>4 DEF ElevateFails
    <2> QED  BY <1>9, <2>1, <2>3, <2>4 DEF Answering
  <1> QED  BY <1>2, <1>3, <1>4, <1>5, <1>6, <1>7, <1>8, <1>9 DEF Next, Batch

\* What occupied a target is there until the user gives it up, and then, perhaps under a
\* hidden name, until the complete replacement is (copyOne(), commitStagedPath()), unless
\* a helper that replaces targets failed on that entry after it had begun; a helper that
\* refuses occupied targets (replaces = FALSE) never makes an exception.
THEOREM OccupantsSafe == Spec => []OccupantKept
  <1>1. OccupantInv => OccupantKept
    BY DEF OccupantInv, Gone, OccupantOf, OccupantKept
  <1> QED  BY <1>1, OccupantInit, OccupantStep, PTL DEF Spec

=============================================================================

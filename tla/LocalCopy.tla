----------------------------- MODULE LocalCopy -----------------------------
(***************************************************************************)
(* What copyPaths() and movePaths() (core/operations/FileOperations) do to *)
(* the disk: a batch of files and directories is copied or moved into one  *)
(* directory, entry by entry, each step able to fail, to be cancelled and  *)
(* to be retried by the user.                                              *)
(*                                                                         *)
(* An entry has several places: its source, its target, the free name      *)
(* chosen for "rename", the hidden file a replacement is staged in, the    *)
(* hidden name the replaced target is kept under meanwhile, and such names *)
(* left behind for good. What is at a place is                             *)
(* the set of pieces it holds completely (a file has one piece, a          *)
(* directory one for each file in its tree), the piece being written, and  *)
(* whether it is what occupied the target before the batch. The process    *)
(* may be killed between any two steps: what the disk holds then is what   *)
(* it holds in that state, so the invariants speak of every state.         *)
(***************************************************************************)
EXTENDS Integers, FiniteSets

CONSTANTS
  Count,        \* how many entries are selected
  Directory,    \* which of them are directories
  Piece, Main,  \* the files of a directory's tree; a file is the piece Main
  Unlisted,     \* pieces QDirIterator does not list (dangling links, sockets)
  Situations,   \* how the target path may relate to the source, see Home
  Operations,   \* whether the batch may be a copy or a move
  Helpers,      \* whether the administrator's helper may replace a target, may not
  MaxFailures   \* bound: failing steps

Entry == 1..Count
Place == {"src", "dst", "alt", "staged", "backup", "orphan"}

ASSUME CountAssumption == Count \in Nat
ASSUME DirectoryAssumption == Directory \subseteq Entry
ASSUME PieceAssumption == Main \in Piece \ Unlisted
ASSUME SituationsAssumption == Situations \subseteq {"apart", "dangling", "same", "alias", "inside"}
ASSUME OperationsAssumption == Operations \subseteq {"copy", "move"}
ASSUME HelpersAssumption == Helpers \subseteq BOOLEAN
ASSUME BoundAssumption == MaxFailures \in Nat

VARIABLES
  operation,  \* removeSource
  situation,  \* of each entry
  disk,       \* what is at each place of each entry
  pos,        \* the entry of the batch being worked on
  pc,         \* the step it is at
  target,     \* destPath
  overwrite,  \* the local of copyOne()
  staging,    \* copyTarget # target
  batch,      \* batchAction
  cancelled,  \* m_cancelled
  skipAll,    \* m_errorBatch
  elevatable, \* the error offers an administrator's retry
  replaces,   \* the helper replaces a target (macOS, Windows) or refuses it (Linux)
  helped,     \* history: the entries whose helper failed after it had begun
  occupied,   \* history: the entries whose target existed before the batch
  result,     \* history: what became of each entry
  chosen,     \* history: the entries whose target the user gave up
  failures    \* history: steps that failed

vars == <<operation, situation, disk, pos, pc, target, overwrite, staging, batch,
          cancelled, skipAll, elevatable, replaces, helped, occupied, result, chosen, failures>>

-----------------------------------------------------------------------------

PiecesOf(e) == IF e \in Directory THEN Piece ELSE {Main}

\* What copyRecursively() visits: files and directories, not QDir::System.
Listed(e) == PiecesOf(e) \ Unlisted

Absent == [there |-> FALSE, holds |-> {}, cut |-> {}, old |-> FALSE]
Occupant == [there |-> TRUE, holds |-> {}, cut |-> {}, old |-> TRUE]
Fresh(ps) == [there |-> TRUE, holds |-> ps, cut |-> {}, old |-> FALSE]

\* Where the target path leads: apart from the source (where there may be a link
\* that leads nowhere, which QFileInfo::exists() does not see), to the source
\* itself by the same path, to it by another path (a link to its directory, a
\* file system that ignores case), or into the source.
Home(e) == IF situation[e] \in {"same", "alias"} THEN "src" ELSE "dst"

At(p) == disk[pos][p]
Into == IF staging THEN "staged" ELSE target

\* QFileInfo::exists(destPath)
Exists == At(Home(pos)).there /\ situation[pos] # "dangling"

Init ==
  /\ operation \in Operations
  /\ situation \in [Entry -> Situations]
  /\ \A e \in Entry \ Directory : situation[e] # "inside"
  /\ occupied \in SUBSET {e \in Entry : situation[e] \in {"apart", "dangling"}}
  /\ \A e \in Entry : situation[e] = "dangling" => e \in occupied
  /\ disk = [e \in Entry |->
               [p \in Place |-> IF p = "src" THEN Fresh(PiecesOf(e))
                                ELSE IF p = "dst" /\ e \in occupied THEN Occupant ELSE Absent]]
  /\ pos = 1 /\ pc = "next"
  /\ target = "dst" /\ overwrite = FALSE /\ staging = FALSE
  /\ batch = "ask" /\ cancelled = FALSE /\ skipAll = FALSE /\ elevatable = TRUE
  /\ replaces \in Helpers /\ helped = {}
  /\ result = [e \in Entry |-> "todo"] /\ chosen = {} /\ failures = 0

fixedVars == <<operation, situation, occupied, replaces, helped>>
pathVars  == <<target, overwrite, staging>>
flagVars  == <<cancelled, skipAll, batch, elevatable>>

\* A step of the operating system that does not do what it was asked.
Fault == failures < MaxFailures /\ failures' = failures + 1

GoTo(step) == pc' = step /\ UNCHANGED <<pos, result>>

\* copyOne() returns; after a false copyPaths() looks at m_cancelled.
EndEntry(r) ==
  /\ result' = [result EXCEPT ![pos] = r]
  /\ pos' = pos + 1
  /\ pc' = IF r # "done" /\ cancelled' THEN "ended" ELSE "next"

-----------------------------------------------------------------------------
(* The batch                                                               *)

\* A move whose target is free tries a rename first.
Begin ==
  /\ pc = "next" /\ pos \in Entry /\ ~cancelled
  /\ GoTo(IF operation = "move" /\ ~Exists THEN "renaming" ELSE "placing")
  /\ UNCHANGED <<fixedVars, disk, pathVars, flagVars, chosen, failures>>

Finish ==
  /\ pc = "next" /\ (pos \notin Entry \/ cancelled)
  /\ GoTo("ended")
  /\ UNCHANGED <<fixedVars, disk, pathVars, flagVars, chosen, failures>>

\* requestCancel() from the GUI thread, at any time.
Cancel ==
  /\ pc # "ended" /\ ~cancelled
  /\ cancelled' = TRUE
  /\ UNCHANGED <<fixedVars, disk, pos, pc, pathVars, skipAll, batch, elevatable,
                 result, chosen, failures>>

Rename ==
  /\ pc = "renaming" /\ situation[pos] # "inside" /\ ~At("dst").there
  /\ disk' = [disk EXCEPT ![pos]["dst"] = At("src"), ![pos]["src"] = Absent]
  /\ UNCHANGED flagVars /\ EndEntry("done")
  /\ UNCHANGED <<fixedVars, pathVars, chosen, failures>>

\* The usual case between volumes: no fault, the entry is copied instead.
RenameRefused ==
  /\ pc = "renaming" /\ GoTo("placing")
  /\ UNCHANGED <<fixedVars, disk, pathVars, flagVars, chosen, failures>>

-----------------------------------------------------------------------------
(* Where the copy goes                                                     *)

Choose(place, replace) ==
  /\ target' = place /\ overwrite' = replace
  /\ GoTo("opening")
  /\ UNCHANGED <<fixedVars, disk, staging, failures>>

\* A directory is not copied into itself, nor an entry moved onto itself.
Refuse ==
  /\ pc = "placing"
  /\ UNCHANGED flagVars
  /\ \/ situation[pos] = "inside" /\ EndEntry("failed")
     \/ situation[pos] = "same" /\ operation = "move" /\ EndEntry("done")
  /\ UNCHANGED <<fixedVars, disk, pathVars, chosen, failures>>

CopyOntoItself ==
  /\ pc = "placing" /\ situation[pos] = "same" /\ operation = "copy"
  /\ Choose("alt", FALSE)
  /\ UNCHANGED <<flagVars, chosen>>

NoConflict ==
  /\ pc = "placing" /\ situation[pos] \in {"apart", "dangling"} /\ ~Exists
  /\ Choose("dst", FALSE)
  /\ UNCHANGED <<flagVars, chosen>>

Conflict == pc = "placing" /\ situation[pos] \in {"apart", "alias"} /\ Exists

\* "Overwrite" or "overwrite all", asked or remembered.
Overwrite ==
  /\ Conflict /\ batch # "skipAll"
  /\ batch' \in {batch, "overwriteAll"}
  /\ chosen' = chosen \cup {pos}
  /\ Choose(Home(pos), TRUE)
  /\ UNCHANGED <<cancelled, skipAll, elevatable>>

ChooseRename ==
  /\ Conflict /\ batch = "ask"
  /\ Choose("alt", FALSE)
  /\ UNCHANGED <<flagVars, chosen>>

SkipConflict ==
  /\ Conflict /\ batch # "overwriteAll"
  /\ batch' \in {batch, "skipAll"}
  /\ UNCHANGED <<cancelled, skipAll, elevatable>>
  /\ EndEntry("skipped")
  /\ UNCHANGED <<fixedVars, disk, pathVars, chosen, failures>>

CancelConflict ==
  /\ Conflict /\ batch = "ask"
  /\ cancelled' = TRUE /\ UNCHANGED <<skipAll, batch, elevatable>>
  /\ EndEntry("stopped")
  /\ UNCHANGED <<fixedVars, disk, pathVars, chosen, failures>>

-----------------------------------------------------------------------------
(* copyFilePreservingTime() and copyDirectorySafely()                      *)

\* The attempt failed: silently when the user has cancelled, else the user is
\* asked what to do.
CopyFailed ==
  IF cancelled
    THEN EndEntry("stopped") /\ UNCHANGED elevatable
    ELSE GoTo("failed") /\ elevatable' = TRUE

\* Neither primitive writes over a target it was not told to overwrite.
TargetExists ==
  /\ pc = "opening" /\ At(target).there /\ ~overwrite
  /\ UNCHANGED <<cancelled, skipAll, batch>> /\ CopyFailed
  /\ UNCHANGED <<fixedVars, disk, pathVars, chosen, failures>>

\* A target to be replaced is left alone while its replacement is staged.
Open ==
  /\ pc = "opening" /\ (overwrite \/ ~At(target).there)
  /\ staging' = At(target).there
  /\ disk' = [disk EXCEPT ![pos][IF At(target).there THEN "staged" ELSE target] = Fresh({})]
  /\ GoTo("copying")
  /\ UNCHANGED <<fixedVars, target, overwrite, flagVars, chosen, failures>>

OpenFails ==
  /\ pc = "opening" /\ Fault
  /\ UNCHANGED <<cancelled, skipAll, batch>> /\ CopyFailed
  /\ UNCHANGED <<fixedVars, disk, pathVars, chosen>>

StartPiece(p) ==
  /\ pc = "copying" /\ At(Into).cut = {} /\ p \in Listed(pos) \ At(Into).holds
  /\ disk' = [disk EXCEPT ![pos][Into].cut = {p}]
  /\ UNCHANGED <<fixedVars, pos, pc, pathVars, flagVars, result, chosen, failures>>

FinishPiece ==
  /\ pc = "copying" /\ At(Into).cut # {}
  /\ disk' = [disk EXCEPT ![pos][Into].holds = @ \cup At(Into).cut, ![pos][Into].cut = {}]
  /\ UNCHANGED <<fixedVars, pos, pc, pathVars, flagVars, result, chosen, failures>>

\* Mutant: the file that was mid-write is left as it is.
CleanedNothing == At(Into)

\* What an attempt that gives up leaves: never a half-written file, and of a
\* directory only what it wrote straight into a target that was free, and only
\* if it failed rather than being cancelled.
Cleaned ==
  IF pos \notin Directory \/ staging \/ cancelled THEN Absent ELSE [At(Into) EXCEPT !.cut = {}]

PieceFails ==
  /\ pc = "copying" /\ At(Into).cut # {} /\ Fault
  /\ disk' = [disk EXCEPT ![pos][Into] = Cleaned]
  /\ UNCHANGED <<cancelled, skipAll, batch>> /\ CopyFailed
  /\ UNCHANGED <<fixedVars, pathVars, chosen>>

\* m_cancelled is polled between the chunks of a file and after each file of a
\* directory.
Interrupted ==
  /\ pc = "copying" /\ cancelled
  /\ At(Into).cut # {} \/ (pos \in Directory /\ At(Into).holds # {})
  /\ disk' = [disk EXCEPT ![pos][Into] = Cleaned]
  /\ UNCHANGED <<cancelled, skipAll, batch>> /\ CopyFailed
  /\ UNCHANGED <<fixedVars, pathVars, chosen, failures>>

\* The copy is at its target.
Landed ==
  IF operation = "move" THEN GoTo("removing") ELSE EndEntry("done")

AllCopied ==
  /\ pc = "copying" /\ At(Into).cut = {} /\ Listed(pos) \subseteq At(Into).holds
  /\ pos \in Directory => ~cancelled
  /\ UNCHANGED flagVars
  /\ IF staging THEN GoTo("retire") ELSE Landed
  /\ UNCHANGED <<fixedVars, disk, pathVars, chosen, failures>>

-----------------------------------------------------------------------------
(* commitStagedPath(): the old target makes way, the replacement takes its  *)
(* place, the old target goes.                                              *)

Retire ==
  /\ pc = "retire"
  /\ disk' = [disk EXCEPT ![pos]["backup"] = At(target), ![pos][target] = Absent]
  /\ GoTo("install")
  /\ UNCHANGED <<fixedVars, pathVars, flagVars, chosen, failures>>

\* Mutant: the result of commitStagedPath() is not looked at.
RetireFailsUnseen ==
  /\ pc = "retire" /\ Fault
  /\ disk' = [disk EXCEPT ![pos]["staged"] = Absent]
  /\ UNCHANGED flagVars /\ Landed
  /\ UNCHANGED <<fixedVars, pathVars, chosen>>

RetireFails ==
  /\ pc = "retire" /\ Fault
  /\ disk' = [disk EXCEPT ![pos]["staged"] = Absent]
  /\ UNCHANGED <<cancelled, skipAll, batch>> /\ CopyFailed
  /\ UNCHANGED <<fixedVars, pathVars, chosen>>

Install ==
  /\ pc = "install"
  /\ disk' = [disk EXCEPT ![pos][target] = At("staged"), ![pos]["staged"] = Absent]
  /\ GoTo("purge")
  /\ UNCHANGED <<fixedVars, pathVars, flagVars, chosen, failures>>

InstallFails ==
  /\ pc = "install" /\ Fault
  /\ GoTo("restore")
  /\ UNCHANGED <<fixedVars, disk, pathVars, flagVars, chosen>>

\* Mutant: the old target is deleted although it was not replaced.
RestoreByDropping ==
  /\ pc = "restore"
  /\ disk' = [disk EXCEPT ![pos]["backup"] = Absent, ![pos]["staged"] = Absent]
  /\ UNCHANGED <<cancelled, skipAll, batch>> /\ CopyFailed
  /\ UNCHANGED <<fixedVars, pathVars, chosen, failures>>

Restore ==
  /\ pc = "restore"
  /\ disk' = [disk EXCEPT ![pos][target] = At("backup"), ![pos]["backup"] = Absent,
                          ![pos]["staged"] = Absent]
  /\ UNCHANGED <<cancelled, skipAll, batch>> /\ CopyFailed
  /\ UNCHANGED <<fixedVars, pathVars, chosen, failures>>

\* A hidden copy that nothing will ever take away.
Forgotten == IF At("orphan").old THEN At("orphan") ELSE At("backup")

RestoreFails ==
  /\ pc = "restore" /\ Fault
  /\ disk' = [disk EXCEPT ![pos]["orphan"] = Forgotten, ![pos]["backup"] = Absent,
                          ![pos]["staged"] = Absent]
  /\ UNCHANGED <<cancelled, skipAll, batch>> /\ CopyFailed
  /\ UNCHANGED <<fixedVars, pathVars, chosen>>

\* Removing the backup is not checked.
Purge ==
  /\ pc = "purge"
  /\ \/ disk' = [disk EXCEPT ![pos]["backup"] = Absent] /\ UNCHANGED failures
     \/ Fault /\ disk' = [disk EXCEPT ![pos]["orphan"] = Forgotten, ![pos]["backup"] = Absent]
  /\ UNCHANGED flagVars /\ Landed
  /\ UNCHANGED <<fixedVars, pathVars, chosen>>

-----------------------------------------------------------------------------
(* The source of a move                                                    *)

Remove ==
  /\ pc = "removing"
  /\ disk' = [disk EXCEPT ![pos]["src"] = Absent]
  /\ UNCHANGED flagVars /\ EndEntry("done")
  /\ UNCHANGED <<fixedVars, pathVars, chosen, failures>>

\* removeRecursively() may fail half-way.
RemoveFails ==
  /\ pc = "removing" /\ Fault
  /\ \E kept \in SUBSET At("src").holds :
       /\ pos \notin Directory => kept = At("src").holds
       /\ disk' = [disk EXCEPT ![pos]["src"].holds = kept]
  /\ GoTo("leftover") /\ elevatable' = TRUE
  /\ UNCHANGED <<fixedVars, pathVars, cancelled, skipAll, batch, chosen>>

-----------------------------------------------------------------------------
(* resolveLocalFailure(): what the user answers                            *)

Failing == pc \in {"failed", "leftover"}
Asked == Failing /\ ~skipAll

Retry ==
  /\ Asked
  /\ GoTo(IF pc = "failed" THEN "opening" ELSE "removing")
  /\ UNCHANGED <<fixedVars, disk, pathVars, flagVars, chosen, failures>>

\* "Skip", "skip all", and the answer "skip all" gave before.
Skip ==
  /\ Failing
  /\ skipAll' \in {skipAll, TRUE}
  /\ UNCHANGED <<cancelled, batch, elevatable>>
  /\ EndEntry("failed")
  /\ UNCHANGED <<fixedVars, disk, pathVars, chosen, failures>>

Abort ==
  /\ Asked
  /\ cancelled' = TRUE /\ UNCHANGED <<skipAll, batch, elevatable>>
  /\ EndEntry("stopped")
  /\ UNCHANGED <<fixedVars, disk, pathVars, chosen, failures>>

\* LinuxPrivilegeBroker.cpp refuses a target that exists. The others replace it if
\* the user chose to overwrite: macOS' helper removes it before cp or mv runs, and
\* Windows' shell writes over it.
HelperMay == ~At(target).there \/ (replaces /\ overwrite)

\* The administrator's helper (cp -a, mv or rm -rf) does it all, unless the target is
\* the source by another name.
Elevate ==
  /\ Asked /\ elevatable
  /\ pc = "failed" => HelperMay /\ target # "src"
  /\ disk' = CASE pc = "leftover" -> [disk EXCEPT ![pos]["src"] = Absent]
               [] pc = "failed" /\ operation = "copy" ->
                    [disk EXCEPT ![pos][target] = Fresh(PiecesOf(pos))]
               [] pc = "failed" /\ operation = "move" ->
                    [disk EXCEPT ![pos][target] = At("src"), ![pos]["src"] = Absent]
  /\ UNCHANGED flagVars /\ EndEntry("done")
  /\ UNCHANGED <<fixedVars, pathVars, chosen, failures>>

\* What a cp or mv that stops leaves at the target: nothing, or some of the pieces
\* and one of them half-written.
Partial ==
  {Absent} \cup
  {n \in [there : {TRUE}, holds : SUBSET PiecesOf(pos), cut : SUBSET PiecesOf(pos), old : {FALSE}] :
     target # "src" /\ Cardinality(n.cut) <= 1}

\* It fails, before it has done anything or having begun; it is not offered again.
ElevateFails ==
  /\ Asked /\ elevatable
  /\ elevatable' = FALSE
  /\ \/ UNCHANGED <<disk, helped>>
     \/ /\ pc = "failed" /\ HelperMay
        /\ \E n \in Partial : disk' = [disk EXCEPT ![pos][target] = n]
        /\ helped' = helped \cup {pos}
     \/ /\ pc = "leftover"
        /\ \E kept \in SUBSET At("src").holds : disk' = [disk EXCEPT ![pos]["src"].holds = kept]
        /\ UNCHANGED helped
  /\ GoTo(pc)
  /\ UNCHANGED <<operation, situation, occupied, replaces, pathVars, cancelled, skipAll, batch,
                 chosen, failures>>

-----------------------------------------------------------------------------
Batch == Begin \/ Finish \/ Rename \/ RenameRefused
Placing ==
  \/ Refuse \/ CopyOntoItself \/ NoConflict
  \/ Overwrite \/ ChooseRename \/ SkipConflict \/ CancelConflict
Copying ==
  \/ TargetExists \/ Open \/ OpenFails
  \/ \E p \in Piece : StartPiece(p)
  \/ FinishPiece \/ PieceFails \/ Interrupted \/ AllCopied
Committing == Retire \/ RetireFails \/ Install \/ InstallFails \/ Restore \/ RestoreFails \/ Purge
Removing == Remove \/ RemoveFails
Answering == Retry \/ Skip \/ Abort \/ Elevate \/ ElevateFails

Next == Batch \/ Cancel \/ Placing \/ Copying \/ Committing \/ Removing \/ Answering

Spec == Init /\ [][Next]_vars

-----------------------------------------------------------------------------
Node == [there : BOOLEAN, holds : SUBSET Piece, cut : SUBSET Piece, old : BOOLEAN]
Step == {"next", "renaming", "placing", "opening", "copying", "retire", "install", "restore",
         "purge", "removing", "failed", "leftover", "ended"}

\* Every variable has its type (FileOperations.h members, copyOne() locals).
TypeOK ==
  /\ operation \in Operations /\ situation \in [Entry -> Situations] /\ occupied \subseteq Entry
  /\ disk \in [Entry -> [Place -> Node]]
  /\ pos \in 1..Count + 1 /\ pc \in Step
  /\ pc \notin {"next", "ended"} => pos \in Entry
  /\ target \in {"src", "dst", "alt"} /\ overwrite \in BOOLEAN /\ staging \in BOOLEAN
  /\ batch \in {"ask", "overwriteAll", "skipAll"} /\ cancelled \in BOOLEAN
  /\ skipAll \in BOOLEAN /\ elevatable \in BOOLEAN
  /\ replaces \in Helpers /\ helped \subseteq Entry
  /\ result \in [Entry -> {"todo", "done", "failed", "skipped", "stopped"}]
  /\ chosen \subseteq Entry /\ failures \in 0..MaxFailures

\* Whatever fails, is retried, cancelled or killed, every piece of every
\* selected entry is complete at its source or under the name it was copied to,
\* never only under a hidden one (copyOne() removes the source last).
SourceKept ==
  \A e \in Entry : PiecesOf(e) \subseteq disk[e]["src"].holds \cup disk[e]["dst"].holds \cup disk[e]["alt"].holds

\* No batch destroys what it was asked to copy or move: each piece is complete
\* somewhere on the disk (copyOne(): "We must never run the remove+copy path
\* below on this: destPath IS the source, so removing it would destroy the very
\* file we're copying").
NothingDestroyed ==
  \A e \in Entry : PiecesOf(e) \subseteq UNION {disk[e][p].holds : p \in Place}

\* What occupied a target is there until the user gives it up, and then until
\* the complete replacement is: in between it may have a hidden name. Only a helper
\* that replaces targets breaks the second half, when it fails after it has begun
\* (FileCommanderPrivilegedHelper.cpp removes the target before cp or mv runs).
OccupantKept ==
  \A e \in occupied :
    \/ disk[e]["dst"].old
    \/ e \in chosen /\ (\/ disk[e]["backup"].old \/ disk[e]["orphan"].old
                        \/ Listed(e) \subseteq disk[e]["dst"].holds
                        \/ replaces /\ e \in helped)

\* A half-written file exists only while it is being written, unless a failing
\* helper left it where it was writing.
NoTruncatedFile ==
  \A e \in Entry, p \in Place : disk[e][p].cut # {} =>
    \/ e = pos /\ pc = "copying" /\ p = Into
    \/ e \in helped /\ p # "staged"

\* What an entry that is over leaves behind: hidden names only if a step
\* failed; a target that is complete, or untouched, or (a directory that failed
\* rather than being cancelled) partial.
Tidy ==
  \A e \in Entry : result[e] # "todo" /\ failures = 0 =>
    /\ \A p \in {"staged", "backup", "orphan"} : ~disk[e][p].there
    /\ \A p \in {"dst", "alt"} : disk[e][p].there =>
         disk[e][p].old \/ (result[e] = "done" /\ Listed(e) \subseteq disk[e][p].holds)

\* onAbortClicked(): "A directory the batch was filling in is removed too when
\* the batch created it" (TransferProgressDialog.cpp:323).
AbortRemovesPartialDirectory ==
  \A e \in Entry : result[e] = "stopped" =>
    \A p \in {"dst", "alt"} : disk[e][p].there => disk[e][p].old \/ Listed(e) \subseteq disk[e][p].holds

\* copyDirectorySafely(): a failed copy leaves its partial output "so a Retry has
\* something to build on" (FileOperations.cpp:486): an attempt fails only when
\* one of its own steps does.
AttemptFailsByFault == [][pc = "opening" /\ pc' = "failed" => failures' > failures]_vars

=============================================================================

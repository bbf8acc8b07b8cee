-------------------------- MODULE ProviderTransfer --------------------------
(***************************************************************************)
(* copyAcrossProviders() and transferEntry() (core/operations/             *)
(* FileOperations): a batch of files and directories is copied or moved    *)
(* from one provider to another, or within one, file by file.              *)
(*                                                                         *)
(* One file's transfer is what StreamCopy shows of it: it ends with the    *)
(* whole file at its target, or with a part of it there, or with the       *)
(* target as it was. A directory is the set of the files in its tree.      *)
(***************************************************************************)
EXTENDS Integers, FiniteSets

CONSTANTS
  Count,            \* how many entries are selected
  Directory,        \* which of them are directories
  Piece, Main,      \* the files of a directory's tree; a file is the piece Main
  Link,             \* pieces that are links or devices, which are not streamed
  Situations,       \* "apart", or "same": the target is the source itself
  Operations,       \* whether the batch may be a copy or a move
  RecursiveRemove,  \* whether remove() of the source's provider takes a full directory
  MaxFailures       \* bound: calls of the providers that fail

Entry == 1..Count
Place == {"dst", "alt"}

ASSUME CountAssumption == Count \in Nat
ASSUME DirectoryAssumption == Directory \subseteq Entry
ASSUME PieceAssumption == Link \subseteq Piece /\ Main \in Piece \ Link
ASSUME ChoicesAssumption == Situations \subseteq {"apart", "same"} /\ Operations \subseteq {"copy", "move"}
ASSUME RemoveAssumption == RecursiveRemove \in BOOLEAN
ASSUME BoundAssumption == MaxFailures \in Nat

VARIABLES
  operation,   \* removeSource
  situation,   \* of each entry
  source,      \* the pieces of each entry that are at the source
  there,       \* what is at each place of each piece: "none", "old", "part", "whole"
  pos,         \* the entry being worked on
  pc,          \* the step it is at
  piece,       \* the file being transferred
  left,        \* the entries of the listing not yet visited
  target,      \* the place it goes to
  serverMove,  \* serverMoveViable
  batch,       \* batchAction
  skipAll,     \* m_errorBatch
  cancelled,   \* m_cancelled
  allOk,       \* what the operation reports
  over,        \* history: the files the user chose to replace
  passed,      \* history: the files the user chose to skip
  tried,       \* history: the files whose transfer was begun
  missed,      \* history: the files whose target exists() did not see
  blind,       \* history: the directories that could not be listed, or not made
  failures     \* history: failed calls

vars == <<operation, situation, source, there, pos, pc, piece, left, target, serverMove, batch,
          skipAll, cancelled, allOk, over, passed, tried, missed, blind, failures>>

-----------------------------------------------------------------------------

PiecesOf(e) == IF e \in Directory THEN Piece ELSE {Main}
File == Entry \X Piece

Here == <<pos, piece>>
Target == there[Here][target]
OntoItself == situation[pos] = "same" /\ target = "dst"

Init ==
  /\ operation \in Operations /\ situation \in [Entry -> Situations]
  /\ source = [e \in Entry |-> PiecesOf(e)]
  /\ \E occupied \in SUBSET {f \in File : f[2] \in PiecesOf(f[1]) \ Link} :
       /\ \A f \in occupied : situation[f[1]] = "apart"
       /\ there = [f \in File |-> [p \in Place |-> IF p = "dst" /\ f \in occupied THEN "old" ELSE "none"]]
  /\ pos = 1 /\ pc = "next" /\ piece = Main /\ left = {} /\ target = "dst"
  \* src == dst: a target that is the source can only be on one provider.
  /\ serverMove \in IF operation = "copy" THEN {FALSE}
                    ELSE IF "same" \in {situation[e] : e \in Entry} THEN {TRUE} ELSE BOOLEAN
  /\ batch = "ask" /\ skipAll = FALSE /\ cancelled = FALSE /\ allOk = TRUE
  /\ over = {} /\ passed = {} /\ tried = {} /\ missed = {} /\ blind = {} /\ failures = 0

Fault == failures < MaxFailures /\ failures' = failures + 1

fixed  == <<operation, situation>>
disk   == <<source, there>>
walk   == <<pos, piece, left, target>>
flags  == <<serverMove, batch, skipAll, cancelled, allOk>>
traces == <<over, passed, tried, missed, blind>>

GoTo(step) == pc' = step

\* Mutant: the batch's result is its last entry's.
EndEntryForgetful(ok) ==
  /\ pos' = pos + 1 /\ piece' = Main /\ left' = {} /\ target' = "dst"
  /\ allOk' = ok
  /\ pc' = IF ~ok /\ cancelled' THEN "ended" ELSE "next"

\* transferEntry() of a selected entry returns.
EndEntry(ok) ==
  /\ pos' = pos + 1 /\ piece' = Main /\ left' = {} /\ target' = "dst"
  /\ allOk' = (allOk /\ ok)
  /\ pc' = IF ~ok /\ cancelled' THEN "ended" ELSE "next"

\* transferEntry() of a file returns: to its directory's loop, which stops at
\* the first failure, or to the batch.
EndFile(ok) ==
  IF pos \in Directory /\ ok
    THEN GoTo("children") /\ target' = "dst" /\ UNCHANGED <<pos, piece, left, allOk>>
    ELSE EndEntry(ok)

-----------------------------------------------------------------------------
(* The batch                                                               *)

Begin ==
  /\ pc = "next" /\ pos \in Entry /\ ~cancelled
  /\ GoTo(IF serverMove THEN "moving" ELSE "entering")
  /\ UNCHANGED <<fixed, disk, walk, flags, traces, failures>>

Finish ==
  /\ pc = "next" /\ (pos \notin Entry \/ cancelled)
  /\ GoTo("ended")
  /\ UNCHANGED <<fixed, disk, walk, flags, traces, failures>>

Cancel ==
  /\ pc # "ended" /\ ~cancelled /\ cancelled' = TRUE
  /\ UNCHANGED <<fixed, disk, walk, pc, serverMove, batch, skipAll, allOk, traces, failures>>

Free == situation[pos] = "apart" /\ \A p \in PiecesOf(pos) : there[<<pos, p>>]["dst"] = "none"

Moved ==
  /\ source' = [source EXCEPT ![pos] = {}]
  /\ there' = [f \in File |-> IF f[1] = pos /\ f[2] \in PiecesOf(pos)
                               THEN [there[f] EXCEPT !["dst"] = "whole"] ELSE there[f]]

\* tryServerSideMove()
ServerMove ==
  /\ pc = "moving" /\ Free /\ Moved
  /\ UNCHANGED <<serverMove, batch, skipAll, cancelled>> /\ EndEntry(TRUE)
  /\ UNCHANGED <<fixed, traces, failures>>

ServerMoveOccupied ==
  /\ pc = "moving" /\ ~Free /\ GoTo("entering")
  /\ UNCHANGED <<fixed, disk, walk, flags, traces, failures>>

\* A server that cannot is not asked again. It may have moved the entry and its
\* answer been lost.
ServerMoveUnavailable ==
  /\ pc = "moving" /\ GoTo("entering") /\ serverMove' = FALSE
  /\ \/ UNCHANGED <<disk, failures>>
     \/ Free /\ Moved /\ Fault
  /\ UNCHANGED <<fixed, walk, batch, skipAll, cancelled, allOk, traces>>

-----------------------------------------------------------------------------
(* transferEntry()                                                         *)

EnterCancelled ==
  /\ pc \in {"entering", "children"} /\ cancelled
  /\ pc = "children" => left # {}
  /\ UNCHANGED <<serverMove, batch, skipAll, cancelled>> /\ EndEntry(FALSE)
  /\ UNCHANGED <<fixed, disk, traces, failures>>

EnterFile ==
  /\ pc = "entering" /\ ~cancelled /\ pos \notin Directory
  /\ GoTo("probing") /\ tried' = tried \cup {<<pos, Main>>}
  /\ UNCHANGED <<fixed, disk, walk, flags, over, passed, missed, blind, failures>>

\* Its target is made if need be; its listing is empty if the server fails.
EnterDirectory ==
  /\ pc = "entering" /\ ~cancelled /\ pos \in Directory /\ source[pos] # {}
  /\ GoTo("children")
  /\ \/ left' = source[pos] /\ UNCHANGED <<blind, failures>>
     \/ left' = {} /\ Fault /\ blind' = blind \cup {pos}
  /\ UNCHANGED <<fixed, disk, pos, piece, target, flags, over, passed, tried, missed>>

MkdirFails ==
  /\ pc = "entering" /\ ~cancelled /\ pos \in Directory /\ Fault
  /\ blind' = blind \cup {pos}
  /\ UNCHANGED <<serverMove, batch, skipAll, cancelled>> /\ EndEntry(FALSE)
  /\ UNCHANGED <<fixed, disk, over, passed, tried, missed>>

\* A directory that is not there is taken for a file, which cannot be opened.
EnterVanished ==
  /\ pc = "entering" /\ ~cancelled /\ pos \in Directory /\ source[pos] = {}
  /\ GoTo("asking")
  /\ UNCHANGED <<fixed, disk, walk, flags, traces, failures>>

SkipLink(p) ==
  /\ pc = "children" /\ ~cancelled /\ p \in left \cap Link
  /\ left' = left \ {p}
  /\ UNCHANGED <<fixed, disk, pos, pc, piece, target, flags, traces, failures>>

NextChild(p) ==
  /\ pc = "children" /\ ~cancelled /\ p \in left \ Link
  /\ left' = left \ {p} /\ piece' = p /\ GoTo("probing") /\ tried' = tried \cup {<<pos, p>>}
  /\ UNCHANGED <<fixed, disk, pos, target, flags, over, passed, missed, blind, failures>>

ChildrenDone ==
  /\ pc = "children" /\ left = {}
  /\ UNCHANGED <<serverMove, batch, skipAll, cancelled>>
  /\ IF operation = "move" THEN GoTo("removingDirectory") /\ UNCHANGED <<walk, allOk>> ELSE EndEntry(TRUE)
  /\ UNCHANGED <<fixed, disk, traces, failures>>

\* remove() of the directory, whose failure is only reported.
RemoveDirectory ==
  /\ pc = "removingDirectory"
  /\ \/ source' = [source EXCEPT ![pos] = IF RecursiveRemove THEN {} ELSE @] /\ UNCHANGED failures
     \/ UNCHANGED source /\ Fault
  /\ UNCHANGED <<serverMove, batch, skipAll, cancelled>> /\ EndEntry(TRUE)
  /\ UNCHANGED <<fixed, there, traces>>

-----------------------------------------------------------------------------
(* transferFile()                                                          *)

ProbeFree ==
  /\ pc = "probing" /\ Target = "none" /\ ~OntoItself
  /\ GoTo("streaming")
  /\ UNCHANGED <<fixed, disk, walk, flags, traces, failures>>

\* exists() is false of what it could not ask about.
ProbeMissed ==
  /\ pc = "probing" /\ (Target # "none" \/ OntoItself) /\ Fault
  /\ GoTo("streaming") /\ missed' = missed \cup {Here}
  /\ UNCHANGED <<fixed, disk, walk, flags, over, passed, tried, blind>>

\* Resumed, if it is a beginning of the source.
ProbePartial ==
  /\ pc = "probing" /\ Target = "part" /\ piece \in source[pos]
  /\ GoTo("streaming")
  /\ UNCHANGED <<fixed, disk, walk, flags, traces, failures>>

Conflict == pc = "probing" /\ (Target # "none" \/ OntoItself)

Overwrite ==
  /\ Conflict /\ batch # "skipAll" /\ batch' \in {batch, "overwriteAll"}
  /\ GoTo("streaming") /\ over' = over \cup {Here}
  /\ UNCHANGED <<fixed, disk, walk, serverMove, skipAll, cancelled, allOk, passed, tried, missed,
                 blind, failures>>

ChooseRename ==
  /\ Conflict /\ batch = "ask" /\ target = "dst"
  /\ target' = "alt" /\ GoTo("streaming")
  /\ UNCHANGED <<fixed, disk, pos, piece, left, flags, traces, failures>>

SkipConflict ==
  /\ Conflict /\ batch # "overwriteAll" /\ batch' \in {batch, "skipAll"}
  /\ passed' = passed \cup {Here}
  /\ UNCHANGED <<serverMove, skipAll, cancelled>> /\ EndFile(TRUE)
  /\ UNCHANGED <<fixed, disk, over, tried, missed, blind, failures>>

CancelConflict ==
  /\ Conflict /\ batch = "ask" /\ cancelled' = TRUE
  /\ UNCHANGED <<serverMove, batch, skipAll>> /\ EndFile(FALSE)
  /\ UNCHANGED <<fixed, disk, traces, failures>>

\* The file is at its target. Written onto itself it is emptied when it is
\* opened, and then has no more bytes to copy.
Streamed ==
  /\ pc = "streaming" /\ piece \in source[pos]
  /\ IF OntoItself
       THEN source' = [source EXCEPT ![pos] = @ \ {piece}] /\ UNCHANGED there
       ELSE there' = [there EXCEPT ![Here][target] = "whole"] /\ UNCHANGED source
  /\ GoTo("streamed")
  /\ UNCHANGED <<fixed, walk, flags, traces, failures>>

\* Mutant: a transfer that did not commit counts as done.
StreamFailsUnseen ==
  /\ pc = "streaming"
  /\ piece \in source[pos] => cancelled \/ failures < MaxFailures
  /\ failures' = IF piece \in source[pos] /\ ~cancelled THEN failures + 1 ELSE failures
  /\ piece \in source[pos] /\ ~OntoItself
  /\ there' = [there EXCEPT ![Here][target] = "part"]
  /\ UNCHANGED <<source, walk, allOk>> /\ GoTo("streamed")
  /\ UNCHANGED <<fixed, serverMove, batch, skipAll, cancelled, traces>>

\* It fails, or is cancelled (and then nobody is asked), or the source cannot be
\* opened, which touches nothing.
StreamFails ==
  /\ pc = "streaming"
  /\ piece \in source[pos] => cancelled \/ failures < MaxFailures
  /\ failures' = IF piece \in source[pos] /\ ~cancelled THEN failures + 1 ELSE failures
  /\ \/ UNCHANGED disk
     \/ /\ piece \in source[pos] /\ ~OntoItself
        /\ there' = [there EXCEPT ![Here][target] = "part"] /\ UNCHANGED source
     \/ /\ piece \in source[pos] /\ OntoItself
        /\ source' = [source EXCEPT ![pos] = @ \ {piece}] /\ UNCHANGED there
  /\ UNCHANGED <<serverMove, batch, skipAll, cancelled>>
  /\ IF cancelled THEN EndFile(FALSE) ELSE GoTo("asking") /\ UNCHANGED <<walk, allOk>>
  /\ UNCHANGED <<fixed, traces>>

\* The source of a move is removed; a failure to is only reported.
FileDone ==
  /\ pc = "streamed"
  /\ \/ /\ operation = "move"
        /\ source' = [source EXCEPT ![pos] = @ \ {piece}] /\ UNCHANGED failures
     \/ operation = "move" /\ UNCHANGED source /\ Fault
     \/ operation = "copy" /\ UNCHANGED <<source, failures>>
  /\ UNCHANGED <<serverMove, batch, skipAll, cancelled>> /\ EndFile(TRUE)
  /\ UNCHANGED <<fixed, there, traces>>

-----------------------------------------------------------------------------
(* resolveError()                                                          *)

Retry ==
  /\ pc = "asking" /\ ~skipAll
  /\ GoTo(IF source[pos] = {} /\ pos \in Directory THEN "asking" ELSE "probing")
  /\ UNCHANGED <<fixed, disk, walk, flags, traces, failures>>

Skip ==
  /\ pc = "asking" /\ skipAll' \in {skipAll, TRUE}
  /\ UNCHANGED <<serverMove, batch, cancelled>> /\ EndFile(FALSE)
  /\ UNCHANGED <<fixed, disk, traces, failures>>

Abort ==
  /\ pc = "asking" /\ ~skipAll /\ cancelled' = TRUE
  /\ UNCHANGED <<serverMove, batch, skipAll>> /\ EndFile(FALSE)
  /\ UNCHANGED <<fixed, disk, traces, failures>>

-----------------------------------------------------------------------------
Batch == Begin \/ Finish \/ ServerMove \/ ServerMoveOccupied \/ ServerMoveUnavailable
Entering ==
  \/ EnterCancelled \/ EnterFile \/ EnterDirectory \/ MkdirFails \/ EnterVanished
  \/ \E p \in Piece : SkipLink(p) \/ NextChild(p)
  \/ ChildrenDone \/ RemoveDirectory
Placing ==
  \/ ProbeFree \/ ProbeMissed \/ ProbePartial
  \/ Overwrite \/ ChooseRename \/ SkipConflict \/ CancelConflict
Streaming == Streamed \/ StreamFails \/ FileDone
Answering == Retry \/ Skip \/ Abort

Next == Batch \/ Cancel \/ Entering \/ Placing \/ Streaming \/ Answering

Spec == Init /\ [][Next]_vars

-----------------------------------------------------------------------------
Step == {"next", "moving", "entering", "children", "removingDirectory", "probing", "streaming",
         "streamed", "asking", "ended"}

\* Every variable has its type (locals of copyAcrossProviders() and transferEntry()).
TypeOK ==
  /\ operation \in Operations /\ situation \in [Entry -> Situations]
  /\ source \in [Entry -> SUBSET Piece] /\ there \in [File -> [Place -> {"none", "old", "part", "whole"}]]
  /\ pos \in 1..Count + 1 /\ pc \in Step /\ (pc \notin {"next", "ended"} => pos \in Entry)
  /\ piece \in Piece /\ left \subseteq Piece /\ target \in Place
  /\ batch \in {"ask", "overwriteAll", "skipAll"}
  /\ serverMove \in BOOLEAN /\ skipAll \in BOOLEAN /\ cancelled \in BOOLEAN /\ allOk \in BOOLEAN
  /\ over \subseteq File /\ passed \subseteq File /\ tried \subseteq File /\ missed \subseteq File
  /\ blind \subseteq Entry /\ failures \in 0..MaxFailures

Landed(f) == \E p \in Place : there[f][p] = "whole"
Selected == {f \in File : f[2] \in PiecesOf(f[1])}

\* Whatever fails, is skipped, retried or cancelled, every selected file is still
\* at its source or whole at a place it was sent to (FileOperations.h:48: "the
\* source entry is removed only after its bytes land at the destination").
NothingDestroyed == \A f \in Selected : f[2] \in source[f[1]] \/ Landed(f)

\* What occupied a target is replaced only where the user said so, or where the
\* server did not tell that it was there.
OccupantKept ==
  [][\A f \in Selected : there[f]["dst"] = "old" /\ there'[f]["dst"] # "old" => f \in over \cup missed]_vars

\* A batch that reports complete success has put every file where it was sent,
\* except those the user skipped, links, and what a failed listing hid.
ReportedIsThere ==
  pc = "ended" /\ pos \notin Entry /\ allOk =>
    \A f \in Selected : Landed(f) \/ f \in passed \/ f[2] \in Link \/ f[1] \in blind

\* FileProvider.h:124: "returning an empty vector is a claim that the directory
\* is empty": nothing is reported as transferred that a listing failed to show.
ListingsAreChecked ==
  pc = "ended" /\ pos \notin Entry /\ allOk =>
    \A f \in Selected : Landed(f) \/ f \in passed \/ f[2] \in Link

\* FileOpTypes.h:53: "Skip/SkipAll continue past it": unless the batch is
\* cancelled, every file that was listed gets its turn.
SkipGoesOn ==
  pc = "ended" /\ ~cancelled /\ missed = {} /\ blind = {} =>
    \A f \in Selected : f \in tried \/ Landed(f) \/ f[2] \in Link

=============================================================================

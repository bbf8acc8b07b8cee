----------------------------- MODULE StreamCopy -----------------------------
(***************************************************************************)
(* transferFile() and streamCopy() (core/operations/FileOperations): one   *)
(* file goes from one provider to another, resuming what an earlier        *)
(* attempt left at the target, while somebody else may be writing the      *)
(* source.                                                                 *)
(*                                                                         *)
(* Some providers ask for the size of an open source each time they are    *)
(* asked (SFTP, SMB, the local disk); FTP and WebDAV keep the first answer *)
(* and read ahead in a thread of their own, so that they hand out the      *)
(* source as it was some time ago.                                         *)
(*                                                                         *)
(* A file is a sequence of blocks, one block per pass of the copying loop. *)
(* Block i of the source is i as it was at first and -i once rewritten; 0  *)
(* is a block of some other file.                                          *)
(***************************************************************************)
EXTENDS Integers, Sequences

CONSTANTS
  MaxBlocks,    \* bound: the longest file
  MaxChanges,   \* bound: changes of the source
  MaxFailures,  \* bound: calls of the providers that fail
  SizesKnown,   \* whether handleSize() of the source may answer, may not
  Fresh,        \* whether it asks anew and reads come from the file, may not
  Resumable,    \* whether supportsWriteResume() may answer yes, no
  MayLock       \* whether the server may refuse a commit as locked

ASSUME BlocksAssumption == MaxBlocks \in Nat \ {0}
ASSUME BoundsAssumption == MaxChanges \in Nat /\ MaxFailures \in Nat
ASSUME ProviderAssumption ==
  /\ SizesKnown \in (SUBSET BOOLEAN) \ {{}} /\ Fresh \in (SUBSET BOOLEAN) \ {{}}
  /\ Resumable \in (SUBSET BOOLEAN) \ {{}}
  /\ MayLock \in BOOLEAN

VARIABLES
  src,        \* the source
  file,       \* what is at the target and at the name "rename" makes
  target,     \* the local of transferFile()
  known,      \* whether the source's provider tells sizes
  fresh,      \* whether it asks anew for each answer
  resumable,  \* supportsWriteResume() of the target's provider
  pc,         \* the step it is at
  start,      \* startOffset; a copy from 0 truncates
  size,       \* srcSize of streamCopy()
  block,      \* the next block to read, and to write
  ok,         \* the local of streamCopy()
  attempt,    \* of the loop that waits for a lock
  done,       \* m_doneBytes, in blocks
  cancelled,  \* m_cancelled
  result,     \* FileResult, or "none" while it runs
  touched,    \* history: how the source changed since the target was looked at
  checked,    \* history: the source at the last look streamCopy() takes at it
  sure,       \* history: whether that look told where the source ends
  late,       \* history: blocks written since the cancellation
  mine,       \* history: whether the target is this transfer's to write over
  changes,    \* history: changes of the source
  failures    \* history: failed calls

vars == <<src, file, target, known, fresh, resumable, pc, start, size, block, ok, attempt, done,
          cancelled, result, touched, checked, sure, late, mine, changes, failures>>

-----------------------------------------------------------------------------

Name == {"dst", "alt"}
\* No content: no block has these numbers.
Nothing == <<-(MaxBlocks + 1)>>
Unknown == <<-(MaxBlocks + 2)>>
Lengths == 0..MaxBlocks

\* What may be at the target at first: each of its blocks is the source's or not.
Occupants == UNION {{s \in [1..n -> (1..n) \cup {0}] : \A i \in 1..n : s[i] \in {0, i}} : n \in Lengths}

Init ==
  /\ \E n \in Lengths : src = [i \in 1..n |-> i]
  /\ \E f \in Occupants \cup {Nothing} : file = [n \in Name |-> IF n = "dst" THEN f ELSE Nothing]
  /\ known \in SizesKnown /\ fresh \in Fresh /\ resumable \in Resumable
  /\ target = "dst" /\ pc = "probe" /\ start = 0 /\ size = -1 /\ block = 1 /\ ok = TRUE
  /\ attempt = 0 /\ done = 0 /\ cancelled = FALSE /\ result = "none"
  /\ touched = "no" /\ checked = Unknown /\ sure = FALSE /\ late = 0 /\ mine = FALSE /\ changes = 0 /\ failures = 0

There == file[target] # Nothing

Fault == failures < MaxFailures /\ failures' = failures + 1

env       == <<src, changes>>
setting   == <<known, fresh, resumable>>
cursor    == <<start, size, block, ok>>
history   == <<touched, checked, sure, late, mine>>

\* What the attempt about to begin forgets of the one before.
Anew == attempt' = 0 /\ touched' = "no" /\ checked' = Unknown /\ sure' = FALSE /\ UNCHANGED late

Return(r) == result' = r /\ pc' = "over"

-----------------------------------------------------------------------------
(* Reading the source                                                      *)

\* What a read of the next block may hand out. One that was read ahead is what
\* the source had there before it was rewritten or cut.
ReadAhead ==
  ~fresh /\ block \in Lengths /\ block <= Len(src) + changes
         /\ (touched = "edited" \/ (touched = "shrunk" /\ block > Len(src)))
Handed ==
  (IF block <= Len(src) THEN {src[block]} ELSE {}) \cup (IF ReadAhead THEN {block, -block} ELSE {})

\* A read may find the end of the source here, or has found it before the source grew.
EndSeen == block > Len(src) - (IF fresh THEN 0 ELSE changes)

-----------------------------------------------------------------------------
(* transferFile(): what to do with what is at the target                   *)

ProbeFree ==
  /\ pc = "probe" /\ ~There
  /\ pc' = "open" /\ start' = 0 /\ Anew /\ mine' = TRUE
  /\ UNCHANGED <<env, setting, file, target, size, block, ok, done, cancelled, result, failures>>

\* exists() is false of a target it could not ask the server about.
ProbeMissed ==
  /\ pc = "probe" /\ There /\ Fault
  /\ pc' = "open" /\ start' = 0 /\ Anew
  /\ UNCHANGED <<env, setting, file, target, size, block, ok, done, cancelled, result, mine>>

\* Both sizes are known, and the target may be the source's beginning.
Partial == resumable /\ known /\ Len(file[target]) \in 1..(Len(src) - 1)

ProbeShorter ==
  /\ pc = "probe" /\ There /\ Partial
  /\ pc' = "verify" /\ block' = 1 /\ start' = Len(file[target]) /\ Anew
  /\ UNCHANGED <<env, setting, file, target, size, ok, done, cancelled, result, mine, failures>>

\* Anything else is a conflict; so is a target whose size cannot be learnt.
ProbeOccupied ==
  /\ pc = "probe" /\ There
  /\ \/ ~Partial /\ UNCHANGED failures
     \/ Fault
  /\ pc' = "conflict" /\ start' = 0 /\ Anew
  /\ UNCHANGED <<env, setting, file, target, size, block, ok, done, cancelled, result, mine>>

\* Mutant: the last block is not compared.
VerifyBlockButLast ==
  /\ pc = "verify" /\ block <= start
  /\ block = start \/ file[target][block] \in Handed
  /\ block' = block + 1
  /\ UNCHANGED <<env, setting, file, target, pc, start, size, ok, attempt, done, cancelled,
                 result, history, failures>>

\* prefixMatches()
VerifyBlock ==
  /\ pc = "verify" /\ block <= start
  /\ file[target][block] \in Handed
  /\ block' = block + 1
  /\ UNCHANGED <<env, setting, file, target, pc, start, size, ok, attempt, done, cancelled,
                 result, history, failures>>

VerifyRefuses ==
  /\ pc = "verify" /\ block <= start
  /\ \/ (EndSeen \/ Handed # {file[target][block]}) /\ UNCHANGED failures
     \/ Fault
  /\ pc' = "conflict" /\ start' = 0
  /\ UNCHANGED <<env, setting, file, target, size, block, ok, attempt, done, cancelled,
                 result, history>>

Verified ==
  /\ pc = "verify" /\ block > start
  /\ pc' = "open"
  /\ UNCHANGED <<env, setting, file, target, cursor, attempt, done, cancelled, result, history, failures>>

AnswerOverwrite ==
  /\ pc = "conflict" /\ pc' = "open" /\ mine' = TRUE
  /\ UNCHANGED <<env, setting, file, target, cursor, attempt, done, cancelled, result, touched,
                 checked, sure, late, failures>>

\* uniqueProviderDestination() names a place where nothing is.
AnswerRename ==
  /\ pc = "conflict" /\ file["alt"] = Nothing
  /\ target' = "alt" /\ pc' = "open" /\ mine' = TRUE
  /\ UNCHANGED <<env, setting, file, cursor, attempt, done, cancelled, result, touched, checked,
                 sure, late, failures>>

AnswerSkip ==
  /\ pc = "conflict" /\ Return("skipped")
  /\ UNCHANGED <<env, setting, file, target, cursor, attempt, done, cancelled, history, failures>>

AnswerCancel ==
  /\ pc = "conflict" /\ cancelled' = TRUE /\ Return("failed")
  /\ UNCHANGED <<env, setting, file, target, cursor, attempt, done, history, failures>>

-----------------------------------------------------------------------------
(* streamCopy()                                                            *)

OpenFails ==
  /\ pc = "open" /\ Fault
  /\ pc' = IF cancelled THEN "over" ELSE "asking"
  /\ result' = IF cancelled THEN "failed" ELSE result
  /\ UNCHANGED <<env, setting, file, target, cursor, attempt, done, cancelled, history>>

\* Without seek() of both handles (which may fail) a resume goes no further.
Open ==
  /\ pc = "open"
  /\ file' = [file EXCEPT ![target] = IF start = 0 THEN <<>> ELSE @]
  /\ size' = IF known THEN Len(src) ELSE -1
  /\ block' = start + 1
  /\ \/ /\ ~(known /\ start > Len(src))
        /\ pc' = "poll" /\ ok' = TRUE /\ done' = done + start /\ UNCHANGED failures
     \/ /\ known /\ start > Len(src)
        /\ pc' = "close" /\ ok' = FALSE /\ UNCHANGED <<done, failures>>
     \/ /\ start > 0 /\ Fault
        /\ pc' = "close" /\ ok' = FALSE /\ UNCHANGED done
  /\ UNCHANGED <<env, setting, target, start, attempt, cancelled, result, history>>

StopStreaming(fine) ==
  /\ ok' = fine /\ pc' = IF fine /\ known THEN "check" ELSE "close"
  /\ UNCHANGED <<env, setting, file, target, start, size, block, attempt, done, cancelled,
                 result, touched, late, mine>>

\* The top of the loop: m_cancelled, then what remains.
PollCancelled ==
  pc = "poll" /\ cancelled /\ StopStreaming(FALSE) /\ UNCHANGED <<checked, sure, failures>>

PollContinue ==
  /\ pc = "poll" /\ ~cancelled /\ (known => block <= size)
  /\ pc' = "pass"
  /\ UNCHANGED <<env, setting, file, target, cursor, attempt, done, cancelled, result, history, failures>>

PollComplete ==
  /\ pc = "poll" /\ ~cancelled /\ known /\ block > size
  /\ StopStreaming(TRUE) /\ UNCHANGED <<checked, sure, failures>>

\* A block is read and written.
CopyBlock ==
  /\ pc = "pass"
  /\ \E b \in Handed :
       file' = [file EXCEPT ![target] = SubSeq(@, 1, block - 1) \o <<b>> \o SubSeq(@, block + 1, Len(@))]
  /\ block' = block + 1 /\ done' = done + 1 /\ pc' = "poll"
  /\ late' = late + IF cancelled THEN 1 ELSE 0
  /\ UNCHANGED <<env, setting, target, start, size, ok, attempt, cancelled, result, touched,
                 checked, sure, mine, failures>>

\* The last look at the source: one rewritten in place tells nothing.
Look(whole) ==
  /\ checked' = IF touched = "edited" THEN Unknown ELSE src
  /\ sure' = whole

\* The source is at its end: too early if its size was known.
EndOfSource ==
  /\ pc = "pass" /\ EndSeen /\ StopStreaming(~known)
  /\ Look(fresh /\ touched = "no")
  /\ UNCHANGED failures

CopyFails == pc = "pass" /\ Fault /\ StopStreaming(FALSE) /\ UNCHANGED <<checked, sure>>

\* One byte more, and the size again: a size that cannot be learnt, like one that
\* the provider only remembers, passes.
Check ==
  /\ pc = "check"
  /\ \/ Handed # {} /\ ok' = FALSE /\ Look(FALSE) /\ UNCHANGED failures
     \/ EndSeen /\ ok' = (fresh => Len(src) = size) /\ Look(fresh) /\ UNCHANGED failures
     \/ EndSeen /\ fresh /\ Fault /\ ok' = TRUE /\ Look(FALSE)
     \/ Fault /\ ok' = FALSE /\ Look(FALSE)
  /\ pc' = "close"
  /\ UNCHANGED <<env, setting, file, target, start, size, block, attempt, done, cancelled,
                 result, touched, late, mine>>

CloseCommits ==
  /\ pc = "close" /\ ok /\ Return("done")
  /\ UNCHANGED <<env, setting, file, target, cursor, attempt, done, cancelled, history, failures>>

\* Mutant: the bytes of the failed attempt stay counted.
GiveUpCounting(next) ==
  /\ \E n \in start..Len(file[target]) : file' = [file EXCEPT ![target] = SubSeq(@, 1, n)]
  /\ done' = done /\ pc' = next

\* After a failed attempt the target holds a beginning of what was written, and
\* m_doneBytes is what it was.
GiveUp(next) ==
  /\ \E n \in start..Len(file[target]) : file' = [file EXCEPT ![target] = SubSeq(@, 1, n)]
  /\ done' = 0 /\ pc' = next

\* Mutant: it is waited for as long as it takes.
CloseLockedForEver ==
  /\ pc = "close" /\ MayLock /\ ~cancelled
  /\ attempt' = 1 /\ pc' = "open" /\ done' = 0
  /\ file' = [file EXCEPT ![target] = SubSeq(@, 1, start)]
  /\ UNCHANGED <<env, setting, target, cursor, cancelled, result, history, failures>>

\* The lock of a transfer just cancelled is waited for, three times in all. A
\* server that answers 423 has stored nothing.
CloseLocked ==
  /\ pc = "close" /\ MayLock /\ attempt < 2 /\ ~cancelled
  /\ attempt' = attempt + 1 /\ pc' = "open" /\ done' = 0
  /\ file' = [file EXCEPT ![target] = SubSeq(@, 1, start)]
  /\ UNCHANGED <<env, setting, target, cursor, cancelled, result, history, failures>>

CloseFails ==
  /\ pc = "close"
  /\ \/ (~ok \/ (MayLock /\ (attempt = 2 \/ cancelled))) /\ UNCHANGED failures
     \/ ok /\ Fault
  /\ GiveUp(IF cancelled THEN "over" ELSE "asking")
  /\ result' = IF cancelled THEN "failed" ELSE result
  /\ UNCHANGED <<env, setting, target, cursor, attempt, cancelled, history>>

-----------------------------------------------------------------------------
(* resolveError(), the user and the world                                  *)

Retry ==
  /\ pc = "asking" /\ pc' = "probe"
  /\ UNCHANGED <<env, setting, file, target, cursor, attempt, done, cancelled, result, history, failures>>

Skip ==
  /\ pc = "asking" /\ Return("failed")
  /\ UNCHANGED <<env, setting, file, target, cursor, attempt, done, cancelled, history, failures>>

Abort ==
  /\ pc = "asking" /\ cancelled' = TRUE /\ Return("failed")
  /\ UNCHANGED <<env, setting, file, target, cursor, attempt, done, history, failures>>

Cancel ==
  /\ result = "none" /\ ~cancelled /\ cancelled' = TRUE
  /\ UNCHANGED <<env, setting, file, target, pc, cursor, attempt, done, result, history, failures>>

Change(new, how) ==
  /\ result = "none" /\ changes < MaxChanges
  /\ src' = new /\ changes' = changes + 1 /\ touched' = how
  /\ UNCHANGED <<setting, file, target, pc, cursor, attempt, done, cancelled, result, checked,
                 sure, late, mine, failures>>

Append1 ==
  /\ Len(src) < MaxBlocks
  /\ Change(Append(src, -(Len(src) + 1)), IF touched = "no" THEN "no" ELSE "edited")

Shrink == src # <<>> /\ Change(SubSeq(src, 1, Len(src) - 1), IF touched = "no" THEN "shrunk" ELSE touched)

Edit == \E i \in DOMAIN src : src[i] > 0 /\ Change([src EXCEPT ![i] = -i], "edited")

-----------------------------------------------------------------------------
Deciding ==
  \/ ProbeFree \/ ProbeMissed \/ ProbeShorter \/ ProbeOccupied \/ VerifyBlock \/ VerifyRefuses \/ Verified
Streaming ==
  \/ OpenFails \/ Open \/ PollCancelled \/ PollContinue \/ PollComplete
  \/ CopyBlock \/ EndOfSource \/ CopyFails \/ Check
  \/ CloseCommits \/ CloseLocked \/ CloseFails
Answering ==
  \/ AnswerOverwrite \/ AnswerRename \/ AnswerSkip \/ AnswerCancel \/ Retry \/ Skip \/ Abort
World == Cancel \/ Append1 \/ Shrink \/ Edit

Worker == Deciding \/ Streaming
Next == Worker \/ Answering \/ World

Spec == Init /\ [][Next]_vars

\* The worker runs its steps without waiting for anybody.
LiveSpec == Spec /\ WF_vars(Worker)

-----------------------------------------------------------------------------
Block == (-MaxBlocks)..MaxBlocks
Content == UNION {[1..n -> Block] : n \in Lengths}

\* Every variable has its type (the locals of transferFile() and streamCopy()).
TypeOK ==
  /\ src \in Content /\ file \in [Name -> Content \cup {Nothing}] /\ target \in Name
  /\ known \in BOOLEAN /\ fresh \in BOOLEAN /\ resumable \in BOOLEAN /\ ok \in BOOLEAN /\ cancelled \in BOOLEAN
  /\ pc \in {"probe", "verify", "conflict", "open", "poll", "pass", "check", "close", "asking", "over"}
  /\ start \in Lengths /\ size \in Lengths \cup {-1} /\ block \in 1..MaxBlocks + 1
  /\ attempt \in 0..2 /\ done \in Lengths
  /\ result \in {"none", "done", "skipped", "failed"} /\ (result # "none" <=> pc = "over")
  /\ touched \in {"no", "shrunk", "edited"} /\ checked \in Content \cup {Unknown}
  /\ sure \in BOOLEAN /\ late \in Nat /\ mine \in BOOLEAN /\ changes \in 0..MaxChanges /\ failures \in 0..MaxFailures

\* A transfer that reports success has written as many blocks as the source said it
\* had when it was opened, whatever was at the target and however often it was
\* resumed. Unless the source was rewritten in place meanwhile, they are the source's
\* as far as it still reaches; and one that grew or shrank was noticed, unless its
\* provider could not tell its size again, or told the one it remembered
\* (transferFile(): "Resuming is only safe once the partial's bytes are proven to be
\* this source's prefix").
DoneIsWhole ==
  result = "done" =>
    /\ known => Len(file[target]) = size
    /\ checked # Unknown =>
         /\ \A i \in DOMAIN checked \cap DOMAIN file[target] : file[target][i] = checked[i]
         /\ sure => file[target] = checked

\* The progress bar: a finished transfer has counted its bytes once, resumed or
\* not, and a failed one none (streamCopy(): "Roll back progress accounting").
CountedOnce ==
  result # "none" => done = IF result = "done" THEN Len(file[target]) ELSE 0

\* At most the block in hand is written after the cancellation.
CancelStops == late <= 1

\* The transfer goes on until it has ended or waits for an answer: a lock that
\* is never given back does not hold the worker.
Decides == []<>(result # "none" \/ pc \in {"conflict", "asking"})

\* FileOpTypes.h:47: the resolver is called "whenever a copy/move would overwrite
\* an existing destination file".
OverwritesByConsent ==
  [][pc = "open" /\ There /\ start = 0 /\ file'[target] # file[target] => mine]_vars

\* TransferProgressDialog.cpp:324: after an abort "the destination does not keep
\* a truncated file that looks complete".
AbortKeepsNoTruncatedFile ==
  cancelled /\ result = "failed" /\ mine =>
    file[target] = Nothing \/ Len(file[target]) >= Len(src)

=============================================================================

--------------------------- MODULE OperationQueue ---------------------------
(***************************************************************************)
(* The job queue of the file manager (core/operations/OperationQueue) with *)
(* the run-control flags of its workers (core/operations/FileOperations).  *)
(*                                                                         *)
(* The queue lives on the GUI thread. Worker 0 runs the local jobs one at  *)
(* a time; workers 1, 2, ... run the transfers between providers. A job is *)
(* handed to a worker by posting a call to the worker's event loop, its    *)
(* result comes back as a call posted to the GUI's, and so does a question *)
(* the worker blocks on. A dialog runs an event loop of its own: while one *)
(* is open, results and further questions still arrive, and only the       *)
(* dialog on top can be answered.                                          *)
(*                                                                         *)
(* The queue emits finished() in the middle of its own handler, between    *)
(* freeing the worker and starting the next job, and the main window may   *)
(* open a modal warning there: the worker is idle, and the next job waits, *)
(* until the user has read it.                                             *)
(*                                                                         *)
(* A worker owns one FileOperations for its whole life, so its flags       *)
(* (m_cancelled, m_paused, m_errorBatch) are state that one job leaves to  *)
(* the next. What a job does to files is the subject of other modules:     *)
(* here it is a number of entries, each of which may meet a conflict or an *)
(* error.                                                                  *)
(***************************************************************************)
EXTENDS Integers, Sequences, FiniteSets

CONSTANTS
  LocalJob, TransferJob,  \* the jobs of the two pipelines
  Kind,                   \* what each job does to its worker's flags
  NoJob,
  PoolCap,                \* the largest pool setMaxConcurrentTransfers() allows
  InitLimit,              \* m_maxConcurrentTransfers from the settings
  Entries,                \* bound: entries in a job that works on several
  MaxAsks,                \* bound: questions one job may ask
  MaxRequests             \* bound: cancel, pause, resume and limit requests

Job == LocalJob \cup TransferJob
Worker == 0..PoolCap

\* "batch": copyPaths, movePaths, deletePaths, deleteProviderPaths and
\* copyAcrossProviders; "link": createSymlinks; "single": copyAs (restoreTrashEntries
\* clears the same flags and does less); "plain": makeDirectory, renamePath and
\* their provider forms.
Kinds == {"batch", "link", "single", "plain"}

ASSUME JobAssumption == LocalJob \cap TransferJob = {} /\ NoJob \notin Job
ASSUME KindAssumption == Job \subseteq DOMAIN Kind /\ \A j \in Job : Kind[j] \in Kinds
ASSUME PoolAssumption == PoolCap \in Nat \ {0} /\ InitLimit \in 1..PoolCap
ASSUME EntriesAssumption == Entries \in Nat \ {0}
ASSUME BoundsAssumption == MaxAsks \in Nat /\ MaxRequests \in Nat

VARIABLES
  localQueue,     \* m_queue
  transferQueue,  \* m_transferQueue
  limit,          \* m_maxConcurrentTransfers
  localStarted,   \* m_ops exists
  pool,           \* m_transferWorkers.size()
  busy,           \* the workers whose busy flag is set
  gui,            \* the GUI thread: running, joining the workers, or gone
  events,         \* the calls posted to the GUI thread
  prompts,        \* the questions and warnings on screen, the top one last
  abortRequested, \* the main window's m_operationAbortRequested
  joined,         \* the workers whose threads have ended
  pc,             \* where each worker is
  job,            \* the job each worker was handed
  left,           \* entries of that job not finished yet
  asks,           \* questions that job has asked
  cancelled,      \* m_cancelled
  paused,         \* m_paused
  skipAll,        \* m_errorBatch = SkipAll
  fate,           \* history: what became of each job
  skipChosen,     \* history: the jobs for which the user chose "skip all"
  silenced,       \* history: the jobs an error of which was skipped unasked
  toldEarly,      \* history: the worker was told to stop before its job began
  toldLeft,       \* history: entries left when its job was told to stop, or -1
  requests        \* history: requests made

queueVars   == <<localQueue, transferQueue>>
poolVars    == <<limit, localStarted, pool>>
guiVars     == <<gui, events, prompts, joined, abortRequested>>
runVars     == <<pc, job, left, asks>>
flagVars    == <<cancelled, paused, skipAll>>
historyVars == <<skipChosen, silenced, toldEarly, toldLeft>>
vars == <<queueVars, poolVars, busy, guiVars, runVars, flagVars, fate, historyVars, requests>>

-----------------------------------------------------------------------------

Created == (IF localStarted THEN {0} ELSE {}) \cup 1..pool

ClearsCancel(j) == Kind[j] # "plain"
ClearsSkipAll(j) == Kind[j] = "batch"
Checkpoints(j) == Kind[j] \in {"batch", "link"}
Copies(j) == Kind[j] \in {"batch", "single"}
EntriesOf(j) == IF Checkpoints(j) THEN Entries ELSE 1

\* The user reaches the windows only while no dialog is open.
UserFree == gui = "running" /\ prompts = << >>

Init ==
  /\ localQueue = << >> /\ transferQueue = << >>
  /\ limit = InitLimit /\ localStarted = FALSE /\ pool = 0
  /\ busy = {}
  /\ gui = "running" /\ events = << >> /\ prompts = << >> /\ joined = {} /\ abortRequested = FALSE
  /\ pc = [w \in Worker |-> "idle"]
  /\ job = [w \in Worker |-> NoJob]
  /\ left = [w \in Worker |-> 0]
  /\ asks = [w \in Worker |-> 0]
  /\ cancelled = [w \in Worker |-> FALSE]
  /\ paused = [w \in Worker |-> FALSE]
  /\ skipAll = [w \in Worker |-> FALSE]
  /\ fate = [j \in Job |-> "new"]
  /\ skipChosen = {} /\ silenced = {}
  /\ toldEarly = [w \in Worker |-> FALSE]
  /\ toldLeft = [w \in Worker |-> -1]
  /\ requests = 0

-----------------------------------------------------------------------------
(* Handing jobs to workers                                                 *)

\* The place of worker w among a set of workers taken in index order.
Rank(ws, w) == Cardinality({v \in ws : v <= w})

\* Which of the free workers ws get a job of queue q.
Served(ws, q) == {w \in ws : Rank(ws, w) <= Len(q)}

\* Mutant: a local job starts whether or not the worker is busy.
FreeLocalAlways(b) == {0}

FreeLocal(b) == {0} \ b

\* A transfer worker beyond the limit exists but is given nothing.
FreeTransfer(p, n, b) == {w \in 1..p : w <= n} \ b

\* maybeStartNext() and maybeStartNextTransfer(): the free workers ws take the
\* jobs at the head of q, in order. b, p, jb and f are busy, pc, job and fate
\* as the caller leaves them.
StartNext(ws, q, b, p, jb, f) ==
  LET served == Served(ws, q)
      taken == {q[Rank(ws, w)] : w \in served}
  IN  /\ busy' = b \cup served
      /\ pc' = [w \in Worker |-> IF w \in served THEN "posted" ELSE p[w]]
      /\ job' = [w \in Worker |-> IF w \in served THEN q[Rank(ws, w)] ELSE jb[w]]
      /\ left' = [w \in Worker |-> IF w \in served THEN EntriesOf(q[Rank(ws, w)]) ELSE left[w]]
      /\ fate' = [j \in Job |-> IF j \in taken THEN "started" ELSE f[j]]

Remainder(ws, q) == SubSeq(q, Cardinality(Served(ws, q)) + 1, Len(q))

StartLocal(q, b, p, jb, f) ==
  /\ StartNext(FreeLocal(b), q, b, p, jb, f)
  /\ localQueue' = Remainder(FreeLocal(b), q)
  /\ UNCHANGED transferQueue

StartTransfers(q, n, m, b, p, jb, f) ==
  LET ws == FreeTransfer(n, m, b)
  IN  /\ StartNext(ws, q, b, p, jb, f)
      /\ transferQueue' = Remainder(ws, q)
      /\ UNCHANGED localQueue

\* enqueueCopy() and its siblings.
EnqueueLocal(j) ==
  /\ UserFree /\ j \in LocalJob /\ fate[j] = "new"
  /\ localStarted' = TRUE
  /\ StartLocal(Append(localQueue, j), busy, pc, job, [fate EXCEPT ![j] = "queued"])
  /\ UNCHANGED <<limit, pool, guiVars, asks, flagVars, historyVars, requests>>

\* enqueueProviderCopy() and its siblings: the first creates the whole pool.
EnqueueTransfer(j) ==
  /\ UserFree /\ j \in TransferJob /\ fate[j] = "new"
  /\ pool' = IF pool = 0 THEN limit ELSE pool
  /\ StartTransfers(Append(transferQueue, j), pool', limit, busy, pc, job,
                    [fate EXCEPT ![j] = "queued"])
  /\ UNCHANGED <<limit, localStarted, guiVars, asks, flagVars, historyVars, requests>>

-----------------------------------------------------------------------------
(* What the user asks of running jobs                                      *)

MayRequest == UserFree /\ requests < MaxRequests

\* requestCancel() on every worker: it clears a pause too, so that a paused
\* worker wakes up and sees the flag.
RequestCancel ==
  /\ cancelled' = [w \in Worker |-> w \in Created \/ cancelled[w]]
  /\ paused' = [w \in Worker |-> w \notin Created /\ paused[w]]
  /\ toldEarly' = [w \in Worker |-> pc[w] = "posted" \/ toldEarly[w]]
  /\ toldLeft' = [w \in Worker |-> IF pc[w] \in {"check", "unit", "asking"} /\ toldLeft[w] = -1
                                     THEN left[w] ELSE toldLeft[w]]
  /\ UNCHANGED <<skipAll, skipChosen, silenced>>

\* abortAll(): nothing queued survives.
DropQueued ==
  /\ fate' = [j \in Job |-> IF fate[j] = "queued" THEN "dropped" ELSE fate[j]]
  /\ localQueue' = << >> /\ transferQueue' = << >>

CancelActiveJobs ==
  /\ MayRequest /\ requests' = requests + 1
  /\ RequestCancel
  /\ UNCHANGED <<queueVars, poolVars, busy, guiVars, runVars, fate>>

\* Also cancelCurrent().
AbortAll ==
  /\ MayRequest /\ requests' = requests + 1
  /\ RequestCancel /\ DropQueued
  /\ UNCHANGED <<poolVars, busy, guiVars, runVars>>

SetPaused(on) ==
  /\ MayRequest /\ requests' = requests + 1
  /\ paused' = [w \in Worker |-> IF w \in Created THEN on ELSE paused[w]]
  /\ UNCHANGED <<queueVars, poolVars, busy, guiVars, runVars, cancelled, skipAll, fate, historyVars>>

PauseCurrent == SetPaused(TRUE)
ResumeCurrent == SetPaused(FALSE)

Clamped(n) == IF n < 1 THEN 1 ELSE IF n > PoolCap THEN PoolCap ELSE n

\* setMaxConcurrentTransfers(): the pool only grows.
SetLimit(n) ==
  /\ MayRequest /\ requests' = requests + 1
  /\ limit' = Clamped(n)
  /\ pool' = IF pool = 0 \/ limit' < pool THEN pool ELSE limit'
  /\ StartTransfers(transferQueue, pool', limit', busy, pc, job, fate)
  /\ UNCHANGED <<localStarted, guiVars, asks, flagVars, historyVars>>

-----------------------------------------------------------------------------
(* A worker's side of a job                                                *)

\* The worker ends its job and posts the result.
Report(w) ==
  /\ pc' = [pc EXCEPT ![w] = "reported"]
  /\ events' = Append(events, [is |-> "done", worker |-> w])

\* The job starts running: most operations open with m_cancelled = false, the
\* batches also with a fresh m_errorBatch.
Begin(w) ==
  /\ pc[w] = "posted"
  /\ pc' = [pc EXCEPT ![w] = IF Checkpoints(job[w]) THEN "check" ELSE "unit"]
  /\ cancelled' = [cancelled EXCEPT ![w] = @ /\ ~ClearsCancel(job[w])]
  /\ skipAll' = [skipAll EXCEPT ![w] = @ /\ ~ClearsSkipAll(job[w])]
  /\ asks' = [asks EXCEPT ![w] = 0]
  /\ UNCHANGED <<queueVars, poolVars, busy, guiVars, job, left, paused, fate, historyVars, requests>>

\* Mutant: while (m_paused) without the second half of waitIfPaused()'s loop.
CheckpointWaitsOutPause(w) ==
  /\ pc[w] = "check" /\ ~paused[w]
  /\ IF cancelled[w]
       THEN Report(w)
       ELSE pc' = [pc EXCEPT ![w] = "unit"] /\ UNCHANGED events
  /\ UNCHANGED <<queueVars, poolVars, busy, gui, prompts, joined, abortRequested, job, left, asks,
                 flagVars, fate, historyVars, requests>>

\* waitIfPaused() and the test after it, before every entry.
Checkpoint(w) ==
  /\ pc[w] = "check"
  /\ IF cancelled[w]
       THEN Report(w)
       ELSE ~paused[w] /\ pc' = [pc EXCEPT ![w] = "unit"] /\ UNCHANGED events
  /\ UNCHANGED <<queueVars, poolVars, busy, gui, prompts, joined, abortRequested, job, left, asks,
                 flagVars, fate, historyVars, requests>>

\* The worker is through with an entry, copied or not: the next checkpoint, or
\* the end of the job. A cancelled entry that was not completed ends it too.
EndEntry(w, done) ==
  /\ left' = [left EXCEPT ![w] = @ - 1]
  /\ IF left[w] = 1 \/ (~done /\ cancelled'[w])
       THEN Report(w)
       ELSE pc' = [pc EXCEPT ![w] = "check"] /\ UNCHANGED events

EntryDone(w) ==
  /\ pc[w] = "unit"
  /\ UNCHANGED cancelled
  /\ EndEntry(w, TRUE)
  /\ UNCHANGED <<queueVars, poolVars, busy, gui, prompts, joined, abortRequested, job, asks, paused,
                 skipAll, fate, historyVars, requests>>

\* A copy polls m_cancelled between the chunks of one file.
Interrupted(w) ==
  /\ pc[w] = "unit" /\ Copies(job[w]) /\ cancelled[w]
  /\ Report(w)
  /\ UNCHANGED <<queueVars, poolVars, busy, gui, prompts, joined, abortRequested, job, left, asks,
                 flagVars, fate, historyVars, requests>>

\* askConflict() and askError(): the worker posts the question and blocks.
Ask(w, question) ==
  /\ pc[w] = "unit" /\ asks[w] < MaxAsks
  /\ pc' = [pc EXCEPT ![w] = "asking"]
  /\ asks' = [asks EXCEPT ![w] = @ + 1]
  /\ events' = Append(events, [is |-> question, worker |-> w])
  /\ UNCHANGED <<queueVars, poolVars, busy, gui, prompts, joined, abortRequested, job, left,
                 flagVars, fate, historyVars, requests>>

AskConflict(w) == pc[w] = "unit" /\ Copies(job[w]) /\ Ask(w, "conflict")

\* resolveError(): a "skip all" given earlier answers for the user.
AskError(w) == ~skipAll[w] /\ Ask(w, "error")

ErrorSilenced(w) ==
  /\ pc[w] = "unit" /\ skipAll[w]
  /\ silenced' = silenced \cup {job[w]}
  /\ UNCHANGED cancelled
  /\ EndEntry(w, FALSE)
  /\ UNCHANGED <<queueVars, poolVars, busy, gui, prompts, joined, abortRequested, job, asks, paused,
                 skipAll, fate, skipChosen, toldEarly, toldLeft, requests>>

-----------------------------------------------------------------------------
(* The GUI thread's event loop                                             *)

Posted(kinds) == gui = "running" /\ events # << >> /\ Head(events).is \in kinds

\* Mutant: a finished transfer does not hand out the next one.
HandleDoneOnly ==
  /\ Posted({"done"})
  /\ events' = Tail(events)
  /\ LET w == Head(events).worker
     IN  /\ toldEarly' = [toldEarly EXCEPT ![w] = FALSE]
         /\ toldLeft' = [toldLeft EXCEPT ![w] = -1]
         /\ StartLocal(IF w = 0 THEN localQueue ELSE << >>, busy \ {w},
                       [pc EXCEPT ![w] = "idle"], job, [fate EXCEPT ![job[w]] = "done"])
  /\ UNCHANGED <<poolVars, gui, prompts, joined, abortRequested, asks, flagVars, skipChosen, silenced, requests>>

\* The main window's finished slot: an aborted batch is over with its last job.
FinishedSlot(b) ==
  abortRequested' = (abortRequested /\ ~(b = {} /\ localQueue = << >> /\ transferQueue = << >>))

\* onWorkerJobDone() and onTransferWorkerJobDone(): busy is cleared, finished() is
\* emitted and the next job started, all in one go.
HandleDone ==
  /\ Posted({"done"})
  /\ events' = Tail(events)
  /\ LET w == Head(events).worker
         p == [pc EXCEPT ![w] = "idle"]
         f == [fate EXCEPT ![job[w]] = "done"]
         b == busy \ {w}
     IN  /\ toldEarly' = [toldEarly EXCEPT ![w] = FALSE]
         /\ toldLeft' = [toldLeft EXCEPT ![w] = -1]
         /\ FinishedSlot(b)
         /\ IF w = 0 THEN StartLocal(localQueue, b, p, job, f)
                     ELSE StartTransfers(transferQueue, pool, limit, b, p, job, f)
  /\ UNCHANGED <<poolVars, gui, prompts, joined, asks, flagVars, skipChosen, silenced, requests>>

\* The same, as far as the warning the main window's slot opens when messages were
\* noted (whether there are any is left to chance).
HandleDoneWarned ==
  /\ Posted({"done"}) /\ ~abortRequested
  /\ events' = Tail(events)
  /\ LET w == Head(events).worker
     IN  /\ toldEarly' = [toldEarly EXCEPT ![w] = FALSE]
         /\ toldLeft' = [toldLeft EXCEPT ![w] = -1]
         /\ busy' = busy \ {w}
         /\ pc' = [pc EXCEPT ![w] = "idle"]
         /\ fate' = [fate EXCEPT ![job[w]] = "done"]
         /\ prompts' = Append(prompts, [is |-> "warning", worker |-> w])
  /\ UNCHANGED <<queueVars, poolVars, gui, joined, abortRequested, job, left, asks, flagVars,
                 skipChosen, silenced, requests>>

\* A question opens its dialog on top of those already open.
HandleAsk ==
  /\ Posted({"conflict", "error"})
  /\ prompts' = Append(prompts, Head(events))
  /\ events' = Tail(events)
  /\ UNCHANGED <<queueVars, poolVars, busy, gui, joined, abortRequested, runVars, flagVars, fate, historyVars, requests>>

Top == prompts[Len(prompts)]
AnswerTo(question) == gui = "running" /\ prompts # << >> /\ Top.is = question

CloseTop ==
  /\ prompts' = SubSeq(prompts, 1, Len(prompts) - 1)
  /\ UNCHANGED <<gui, joined>>

\* Mutant: the answer closes the dialog opened first.
AnswerGoOnOldest ==
  /\ AnswerTo("conflict") \/ AnswerTo("error")
  /\ prompts' = Tail(prompts)
  /\ UNCHANGED <<gui, joined>>
  /\ pc' = [pc EXCEPT ![Top.worker] = "unit"]
  /\ UNCHANGED <<queueVars, poolVars, busy, events, abortRequested, job, left, asks, flagVars, fate,
                 historyVars, requests>>

\* Overwrite, rename or retry: the worker goes on with the entry.
AnswerGoOn ==
  /\ AnswerTo("conflict") \/ AnswerTo("error")
  /\ CloseTop
  /\ pc' = [pc EXCEPT ![Top.worker] = "unit"]
  /\ UNCHANGED <<queueVars, poolVars, busy, events, abortRequested, job, left, asks, flagVars, fate,
                 historyVars, requests>>

\* Skip, and "skip all" of a conflict, which lasts for the job only.
AnswerSkip ==
  /\ AnswerTo("conflict") \/ AnswerTo("error")
  /\ CloseTop
  /\ UNCHANGED cancelled
  /\ EndEntry(Top.worker, FALSE)
  /\ UNCHANGED <<queueVars, poolVars, busy, abortRequested, job, asks, paused, skipAll, fate, historyVars, requests>>

\* "Skip all" of an error: m_errorBatch.
AnswerSkipAll ==
  /\ AnswerTo("error")
  /\ CloseTop
  /\ skipAll' = [skipAll EXCEPT ![Top.worker] = TRUE]
  /\ skipChosen' = skipChosen \cup {job[Top.worker]}
  /\ UNCHANGED cancelled
  /\ EndEntry(Top.worker, FALSE)
  /\ UNCHANGED <<queueVars, poolVars, busy, abortRequested, job, asks, paused, fate, silenced, toldEarly,
                 toldLeft, requests>>

\* Cancel of a conflict ends this worker's job and no other.
AnswerCancel ==
  /\ AnswerTo("conflict")
  /\ CloseTop
  /\ cancelled' = [cancelled EXCEPT ![Top.worker] = TRUE]
  /\ EndEntry(Top.worker, FALSE)
  /\ UNCHANGED <<queueVars, poolVars, busy, abortRequested, job, asks, paused, skipAll, fate, historyVars, requests>>

\* Abort of an error: the window's handler calls abortAll() before it answers,
\* and what ends from then on is no longer warned about.
AnswerAbort ==
  /\ AnswerTo("error")
  /\ CloseTop
  /\ abortRequested' = TRUE
  /\ RequestCancel /\ DropQueued
  /\ EndEntry(Top.worker, FALSE)
  /\ UNCHANGED <<poolVars, busy, job, asks, requests>>

Answer == AnswerGoOn \/ AnswerSkip \/ AnswerSkipAll \/ AnswerCancel \/ AnswerAbort

\* The warning is read: the rest of the handler that emitted finished() runs.
DismissWarning ==
  /\ AnswerTo("warning")
  /\ CloseTop
  /\ IF Top.worker = 0 THEN StartLocal(localQueue, busy, pc, job, fate)
                       ELSE StartTransfers(transferQueue, pool, limit, busy, pc, job, fate)
  /\ UNCHANGED <<poolVars, events, abortRequested, asks, flagVars, historyVars, requests>>

\* closeEvent() leaves the event loop without a word to the workers, and the
\* queue's destructor waits for them one by one: quit() lets the job that runs
\* come to its end.
CloseWindow ==
  /\ UserFree
  /\ gui' = "joining"
  /\ UNCHANGED <<queueVars, poolVars, busy, events, prompts, joined, abortRequested, runVars, flagVars,
                 fate, historyVars, requests>>

Unjoined == Created \ joined

Join ==
  /\ gui = "joining" /\ Unjoined # {}
  /\ LET w == CHOOSE v \in Unjoined : \A u \in Unjoined : v <= u
     IN  /\ pc[w] \in {"idle", "posted", "reported"}
         /\ joined' = joined \cup {w}
  /\ UNCHANGED <<queueVars, poolVars, busy, gui, events, prompts, abortRequested, runVars, flagVars,
                 fate, historyVars, requests>>

JoinDone ==
  /\ gui = "joining" /\ Unjoined = {}
  /\ gui' = "gone"
  /\ UNCHANGED <<queueVars, poolVars, busy, events, prompts, joined, abortRequested, runVars, flagVars,
                 fate, historyVars, requests>>

-----------------------------------------------------------------------------
WorkerStep(w) ==
  /\ w \in Created \ joined
  /\ \/ Begin(w) \/ Checkpoint(w) \/ EntryDone(w) \/ Interrupted(w)
     \/ AskConflict(w) \/ AskError(w) \/ ErrorSilenced(w)

UserStep ==
  \/ \E j \in Job : EnqueueLocal(j) \/ EnqueueTransfer(j)
  \/ CancelActiveJobs \/ AbortAll \/ PauseCurrent \/ ResumeCurrent
  \/ \E n \in 0..PoolCap+1 : SetLimit(n)
  \/ CloseWindow

Next ==
  \/ UserStep \/ Answer \/ DismissWarning
  \/ HandleDone \/ HandleDoneWarned \/ HandleAsk \/ Join \/ JoinDone
  \/ \E w \in Worker : WorkerStep(w)

\* A question is answered and a warning read in the end, and the threads and the event loop run.
\* A worker is not assumed to ask: it may come to the end of the entry.
Fairness ==
  /\ WF_vars(HandleDone \/ HandleDoneWarned) /\ WF_vars(HandleAsk) /\ WF_vars(Answer) /\ WF_vars(DismissWarning)
  /\ WF_vars(Join) /\ WF_vars(JoinDone)
  /\ \A w \in Worker : WF_vars(WorkerStep(w))

Spec == Init /\ [][Next]_vars
FairSpec == Spec /\ Fairness

-----------------------------------------------------------------------------
(* What the queue must keep                                                *)

Event == [is : {"done", "conflict", "error"}, worker : Worker]
Prompt == [is : {"conflict", "error", "warning"}, worker : Worker]

\* Every variable has its type (OperationQueue.h, FileOperations.h members).
TypeOK ==
  /\ localQueue \in Seq(LocalJob) /\ transferQueue \in Seq(TransferJob)
  /\ limit \in 1..PoolCap /\ localStarted \in BOOLEAN /\ pool \in 0..PoolCap
  /\ busy \subseteq Worker /\ joined \subseteq Worker
  /\ gui \in {"running", "joining", "gone"}
  /\ events \in Seq(Event) /\ prompts \in Seq(Prompt) /\ abortRequested \in BOOLEAN
  /\ pc \in [Worker -> {"idle", "posted", "check", "unit", "asking", "reported"}]
  /\ job \in [Worker -> Job \cup {NoJob}]
  /\ left \in [Worker -> 0..Entries] /\ asks \in [Worker -> 0..MaxAsks]
  /\ cancelled \in [Worker -> BOOLEAN] /\ paused \in [Worker -> BOOLEAN]
  /\ skipAll \in [Worker -> BOOLEAN]
  /\ fate \in [Job -> {"new", "queued", "started", "done", "dropped"}]
  /\ skipChosen \subseteq Job /\ silenced \subseteq Job
  /\ toldEarly \in [Worker -> BOOLEAN] /\ toldLeft \in [Worker -> -1..Entries]
  /\ requests \in 0..MaxRequests

Mentions(q, w, kinds) == {i \in 1..Len(q) : q[i].worker = w /\ q[i].is \in kinds}

\* A worker blocked in askConflict() or askError() has exactly one question on
\* its way to the user or on screen, a worker that is through with its job
\* exactly one result on its way, and nobody else has either: no worker waits
\* for an answer that cannot come, and no result is taken twice.
NobodyForgotten ==
  \A w \in Worker :
    /\ Cardinality(Mentions(events, w, {"conflict", "error"})) + Cardinality(Mentions(prompts, w, {"conflict", "error"}))
         = IF pc[w] = "asking" THEN 1 ELSE 0
    /\ Cardinality(Mentions(events, w, {"done"})) = IF pc[w] = "reported" THEN 1 ELSE 0

\* A worker told to stop while its job runs finishes at most the entry it is
\* working on, whatever pauses, resumes, answers and other jobs come after
\* (OperationQueue.h: "a worker stops at its next checkpoint").
StopsAtNextCheckpoint == \A w \in Worker : toldLeft[w] # -1 => left[w] >= toldLeft[w] - 1

\* The workers freed by a finished() that has not run to its end: its warning is open.
Warnings(ws) == {i \in 1..Len(prompts) : prompts[i].is = "warning" /\ prompts[i].worker \in ws}

\* Each pipeline keeps the promise of JobPipeline: FIFO, at most once, bounded
\* width, no job waiting beside an idle worker unless the end of the job before is
\* still being told to the user, nothing dropped that may still run.
InFlight(ws) == {job[w] : w \in busy \cap ws}
Submitted(js) == {j \in js : fate[j] # "new"}

LocalPipeline ==
  INSTANCE JobPipeline WITH Jobs <- LocalJob, Cap <- 1, line <- localQueue, limit <- 1,
                            running <- InFlight({0}), seen <- Submitted(LocalJob),
                            telling <- Cardinality(Warnings({0}))
TransferPipeline ==
  INSTANCE JobPipeline WITH Jobs <- TransferJob, Cap <- PoolCap, line <- transferQueue,
                            running <- InFlight(1..PoolCap), seen <- Submitted(TransferJob),
                            telling <- Cardinality(Warnings(1..PoolCap))

\* The local queue implements the pipeline with one worker.
LocalRefines == LocalPipeline!Spec
\* The transfer pool implements the pipeline with a width that may change.
TransfersRefine == TransferPipeline!Spec
PipelinesRefine == LocalRefines /\ TransfersRefine

\* A running job that was told to stop comes to its end, even if a pause is
\* requested after the cancellation and never lifted.
CancelledJobEnds == \A w \in Worker : toldLeft[w] # -1 ~> (toldLeft[w] = -1 \/ gui # "running")

\* Every submitted job is run to its end or dropped by an abort, unless the
\* user leaves a worker paused or closes the window.
JobsSettle ==
  \A j \in Job : fate[j] \in {"queued", "started"}
                   ~> (fate[j] \in {"done", "dropped"} \/ gui # "running" \/ \E w \in Worker : paused[w])

\* abortAll(): "tell every running worker to give up now" (OperationQueue.h:87):
\* a job that was handed to a worker when the user aborted does not run on as if
\* nothing had happened.
AbortReachesEveryJob ==
  \A w \in Worker : toldEarly[w] /\ pc[w] \in {"check", "unit", "asking"} => cancelled[w]

\* resolveError() skips an error unasked only when "skip all" was chosen "for
\* this batch" (FileOperations.cpp:217).
SilenceWasChosen == silenced \subseteq skipChosen

\* closeEvent() quits explicitly so that nothing keeps the program alive
\* (MainWindow.cpp:7073): once the window is closed the program ends.
CloseEnds == gui = "joining" ~> gui = "gone"

=============================================================================

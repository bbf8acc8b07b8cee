--------------------------- MODULE TransferWindow ---------------------------
(***************************************************************************)
(* The transfer window (ui/dialogs/TransferProgressDialog) and the         *)
(* question handlers of the main window (ui/MainWindow.cpp), composed with *)
(* OperationQueue.                                                         *)
(*                                                                         *)
(* The window knows the queue by its signals only and keeps a count of the *)
(* jobs of its own. The queue emits its signals on the GUI thread, in the  *)
(* middle of its own handlers, so the window's slots are part of the       *)
(* queue's steps: finished, then one started per job handed out. The main  *)
(* window hears of finished first, and while its warning is open this one  *)
(* has not heard of it.                                                    *)
(*                                                                         *)
(* The window shows itself late (a timer, or a progress report with large  *)
(* totals), not while a question is open, and hides when the batch is      *)
(* over. The mode for sending to a device, which shows it before any job,  *)
(* is left out, and so is what the labels say.                             *)
(***************************************************************************)
EXTENDS OperationQueue

VARIABLES
  win,         \* the members of the dialog, below
  hid,         \* history: the user closed the window during this batch
  miscounted   \* history: an abort left results behind that are still to come

wvars == <<vars, win, hid, miscounted>>

Window ==
  [activeJobs : Nat,       \* m_activeJobs
   batchActive : BOOLEAN,   \* m_batchActive
   paused : BOOLEAN,        \* m_paused: the button offers to resume
   shown : BOOLEAN,         \* m_shown
   visible : BOOLEAN,       \* the window is on screen
   hasError : BOOLEAN,      \* m_hasError
   suppressed : BOOLEAN,    \* m_showSuppressed
   wants : BOOLEAN,         \* m_wantsShowWhileSuppressed
   showTimer : BOOLEAN,     \* m_showTimer is armed
   hideTimer : BOOLEAN]     \* m_terminalHideTimer is armed

WInit ==
  /\ Init
  /\ win = [activeJobs |-> 0, batchActive |-> FALSE, paused |-> FALSE, shown |-> FALSE,
            visible |-> FALSE, hasError |-> FALSE, suppressed |-> FALSE, wants |-> FALSE,
            showTimer |-> FALSE, hideTimer |-> FALSE]
  /\ hid = FALSE /\ miscounted = FALSE

-----------------------------------------------------------------------------
(* The window's slots, as functions of its members                         *)

\* showIfHidden(): while a question is open the wish is only remembered.
Revealed(d) ==
  IF d.shown THEN d
  ELSE IF d.suppressed THEN [d EXCEPT !.wants = TRUE]
  ELSE [d EXCEPT !.shown = TRUE, !.visible = TRUE]

\* suppressAutoShow(false): the delay starts again, if work is still going on.
Unsuppressed(d) ==
  [d EXCEPT !.suppressed = FALSE, !.wants = FALSE,
            !.showTimer = @ \/ (d.wants /\ d.batchActive)]

\* A batch begins with its first job: onStarted() forgets the last one.
Opened(d) ==
  IF d.batchActive THEN d
  ELSE [d EXCEPT !.batchActive = TRUE, !.hideTimer = FALSE, !.hasError = FALSE, !.paused = FALSE]

\* onStarted(), n times.
Started(d, n) ==
  IF n = 0 THEN d
  ELSE [Opened(d) EXCEPT !.activeJobs = @ + n, !.showTimer = @ \/ ~d.shown]

\* Mutant: the batch is over with the first job, whatever is queued or runs.
FinishedAtOnce(d, pending) ==
  [d EXCEPT !.activeJobs = 0, !.batchActive = FALSE, !.showTimer = FALSE,
            !.hideTimer = @ \/ (d.shown /\ ~d.hasError)]

\* onFinished(): the batch is over once nothing runs and nothing is queued.
Finished(d, pending) ==
  LET n == IF d.activeJobs > 0 THEN d.activeJobs - 1 ELSE 0
  IN  IF n > 0 \/ pending > 0
        THEN [d EXCEPT !.activeJobs = n]
        ELSE [d EXCEPT !.activeJobs = 0, !.batchActive = FALSE, !.showTimer = FALSE,
                       !.hideTimer = @ \/ (d.shown /\ ~d.hasError)]

\* dismissAfterAbort(), which stops both timers and keeps the suppression.
Dismissed(d) ==
  [d EXCEPT !.activeJobs = 0, !.batchActive = FALSE, !.paused = FALSE, !.hasError = FALSE,
            !.shown = FALSE, !.visible = FALSE, !.showTimer = FALSE, !.hideTimer = FALSE]

-----------------------------------------------------------------------------
(* The queue's steps with what the window makes of their signals           *)

Keep == UNCHANGED <<win, hid, miscounted>>

\* The jobs that are out: with a worker, or with a result the main window's warning
\* holds up.
Out == Cardinality(busy) + Cardinality(Warnings(Worker))

\* The window's members change, and with them the histories: a batch that
\* begins has not been hidden by the user yet.
Sets(d) ==
  /\ win' = d
  /\ hid' = (hid /\ (d.batchActive => win.batchActive))
  /\ miscounted' = (miscounted /\ Out' # 0)

\* m_pendingJobs, which queueChanged brought up to date.
Pending == Len(localQueue) + Len(transferQueue)

HandedOut(b) == Cardinality(busy' \ b)

Enqueue ==
  /\ \E j \in Job : EnqueueLocal(j) \/ EnqueueTransfer(j)
  /\ Sets(Started(win, HandedOut(busy)))

Resize ==
  /\ \E n \in 0..PoolCap+1 : SetLimit(n)
  /\ Sets(Started(win, HandedOut(busy)))

JobDone ==
  /\ HandleDone
  /\ Sets(Started(Finished(win, Pending), HandedOut(busy \ {Head(events).worker})))

\* The main window's warning keeps the result from this window until it is read.
JobDoneWarned ==
  /\ HandleDoneWarned
  /\ Sets(win)

WarningRead ==
  /\ DismissWarning
  /\ Sets(Started(Finished(win, Pending), HandedOut(busy)))

\* The handlers suppress the window while their dialog is open.
OpenQuestion ==
  /\ HandleAsk
  /\ Sets([win EXCEPT !.suppressed = TRUE])

\* The suppression is a flag: an answer lifts it although an older question is
\* still on screen.
AnswerQuestion ==
  /\ AnswerGoOn \/ AnswerSkip \/ AnswerSkipAll \/ AnswerCancel
  /\ Sets(Unsuppressed(win))

\* An abort leaves the workers that run, and the results held up by a warning, to
\* report to a window that counts none.
Abandon(d) ==
  /\ win' = Dismissed(d) /\ hid' = FALSE
  /\ miscounted' = (Out # 0)

AnswerWithAbort == AnswerAbort /\ Abandon(Unsuppressed(win))

\* The window can be reached: on screen, and no modal question over it.
Reachable == UserFree /\ win.visible

\* onAbortClicked(), and the Cancel button, which calls cancelCurrent().
ClickAbort == Reachable /\ AbortAll /\ Abandon(win)

\* onPauseClicked(): the button toggles what it remembers.
ClickPause ==
  /\ Reachable
  /\ IF win.paused THEN ResumeCurrent ELSE PauseCurrent
  /\ Sets([win EXCEPT !.paused = ~@])

\* Mutant: hideEvent() leaves m_shown as it is.
CloseProgressKeepsShown ==
  /\ Reachable
  /\ win' = [win EXCEPT !.visible = FALSE]
  /\ hid' = win.batchActive
  /\ UNCHANGED <<vars, miscounted>>

\* The title bar's close button or Escape: hideEvent().
CloseProgress ==
  /\ Reachable
  /\ win' = [win EXCEPT !.visible = FALSE, !.shown = FALSE]
  /\ hid' = win.batchActive
  /\ UNCHANGED <<vars, miscounted>>

\* onProgress() with totals that are large: it does not ask whether a batch is on.
BigProgress ==
  /\ gui = "running" /\ \E w \in busy : pc[w] # "posted"
  /\ win' = Revealed(win) /\ win' # win
  /\ UNCHANGED <<vars, hid, miscounted>>

\* onErrorOccurred(): the message keeps a window up that the user has seen.
ErrorMessage ==
  /\ gui = "running" /\ \E w \in busy : pc[w] # "posted"
  /\ win.shown /\ ~win.hasError
  /\ win' = [win EXCEPT !.hasError = TRUE]
  /\ UNCHANGED <<vars, hid, miscounted>>

ShowTimerFires ==
  /\ gui = "running" /\ win.showTimer
  /\ LET d == [win EXCEPT !.showTimer = FALSE]
     IN  win' = IF d.batchActive THEN Revealed(d) ELSE d
  /\ UNCHANGED <<vars, hid, miscounted>>

\* Mutant: the window of a finished batch stays where it is.
HideTimerFiresIdle ==
  /\ gui = "running" /\ win.hideTimer
  /\ win' = [win EXCEPT !.hideTimer = FALSE]
  /\ UNCHANGED <<vars, hid, miscounted>>

HideTimerFires ==
  /\ gui = "running" /\ win.hideTimer
  /\ LET d == [win EXCEPT !.hideTimer = FALSE]
     IN  win' = IF ~d.batchActive /\ ~d.hasError /\ d.shown
                  THEN [d EXCEPT !.shown = FALSE, !.visible = FALSE] ELSE d
  /\ UNCHANGED <<vars, hid, miscounted>>

-----------------------------------------------------------------------------
ThreadStep(w) == WorkerStep(w) /\ Keep

Close == CloseWindow /\ Keep
Destroy == (Join \/ JoinDone) /\ Keep

WNext ==
  \/ Enqueue \/ Resize \/ JobDone \/ JobDoneWarned \/ WarningRead
  \/ OpenQuestion \/ AnswerQuestion \/ AnswerWithAbort
  \/ ClickAbort \/ ClickPause \/ CloseProgress
  \/ BigProgress \/ ErrorMessage \/ ShowTimerFires \/ HideTimerFires
  \/ Close \/ Destroy
  \/ \E w \in Worker : ThreadStep(w)

\* As in OperationQueue, and the two timers fire. No progress report, message
\* or click need ever come.
WFairness ==
  /\ WF_wvars(JobDone \/ JobDoneWarned) /\ WF_wvars(WarningRead)
  /\ WF_wvars(OpenQuestion) /\ WF_wvars(AnswerQuestion \/ AnswerWithAbort)
  /\ WF_wvars(Destroy)
  /\ WF_wvars(ShowTimerFires) /\ WF_wvars(HideTimerFires)
  /\ \A w \in Worker : WF_wvars(ThreadStep(w))

WSpec == WInit /\ [][WNext]_wvars
WFairSpec == WSpec /\ WFairness

-----------------------------------------------------------------------------
(* What the window must keep                                               *)

\* Every member has its type.
WTypeOK == win \in Window /\ hid \in BOOLEAN /\ miscounted \in BOOLEAN

\* The window's own count is the number of workers that hold a job and of results
\* a warning of the main window still holds up, and a batch is on exactly while
\* there is one, as long as no result of an aborted batch is still out
\* (TransferProgressDialog.cpp:529, "Keep the batch active until no worker is in
\* flight and no queued job remains").
BatchTracksQueue ==
  ~miscounted => win.activeJobs = Out /\ win.batchActive = (Out # 0)

\* A question is on screen, maybe under a warning.
Asked == \E i \in 1..Len(prompts) : prompts[i].is # "warning"

\* Work that goes on unseen will come to the screen: the delay is running, or a
\* question is open whose answer starts it again (kShowDelayMs), however often the
\* user closed the window in batches before (hideEvent() tells of the time when
\* it never came back).
WorkWillShow ==
  busy # {} /\ ~win.visible /\ ~hid /\ ~miscounted
    => win.showTimer \/ (win.wants /\ Asked)

\* A window whose batch ended without a message goes away by itself, also when
\* a late report of an aborted job brought it back, unless a worker is paused.
WindowGoesAway ==
  win.visible /\ ~win.batchActive /\ ~win.hasError
    ~> (~win.visible \/ win.batchActive \/ win.hasError \/ gui # "running" \/ \E w \in Worker : paused[w])

\* A result ends the batch only when no worker is left in flight
\* (TransferProgressDialog.cpp:529), also when the result is of an aborted job.
LateResultsEndNothing == [][(JobDone \/ WarningRead) /\ win.batchActive /\ ~win'.batchActive => busy' = {}]_wvars

\* The pause button tells what the workers do: one that is paused was paused by
\* the batch on screen (TransferProgressDialog.cpp:445 resets the button with a batch).
PauseIsShown == \A w \in busy : paused[w] => win.paused

\* suppressAutoShow(): the window "can never paint the progress window over the
\* decision the operation is blocked on" (TransferProgressDialog.h:69): it does not
\* come up while a question is open.
NeverOverAQuestion == [][Asked /\ Asked' => ~(~win.visible /\ win'.visible)]_wvars

=============================================================================

---------------------------- MODULE ClipboardSend ----------------------------
(***************************************************************************)
(* The queue of clipboard records a device sends to the account's others   *)
(* (ui/CloudClipboardController.cpp), one call at a time.  The queue runs  *)
(* on the GUI thread; calls answer later, in the order they finish, and    *)
(* nothing in an answer names the send it is for.  A picture is encoded on *)
(* another thread before it becomes a record.                              *)
(*                                                                         *)
(* Left out: status texts, progress, the selection, the records received   *)
(* (ClipboardDelivery), the limit of 50 records.  A session that ends on   *)
(* its own (AccountSession) is not signed out: the client only forgets its *)
(* tokens, the queue is not told, and the next sign-in aborts the call of  *)
(* the active send without a word.                                         *)
(***************************************************************************)
EXTENDS Naturals, FiniteSets, SequencesExt

CONSTANTS
  Rec,       \* records, by content
  Picture,   \* those that are images
  All, Peer, \* targets: every other device, or one of them
  NoSend,    \* an empty PendingSend
  MaxUser    \* bound: what the user does

ASSUME RecAssumption == Picture \subseteq Rec /\ IsFiniteSet(Rec)
ASSUME TargetAssumption == All # Peer
ASSUME NoSendAssumption ==
  NoSend \notin [rec : Rec, target : {All, Peer}, origin : {"manual", "automatic"}, gen : Nat]
ASSUME BoundAssumption == MaxUser \in Nat

VARIABLES
  here,       \* local records in the history
  gone,       \* records removed: their ids do not come back
  known,      \* Peer is in m_devices
  signed,     \* isLoggedIn()
  titled,     \* the title bar shows the account and offers to sign out
  signing,    \* the answer to login() is due
  pending,    \* m_pendingSends
  active,     \* m_activeSend
  scheduled,  \* m_nextSendScheduled
  timers,     \* timers that will call startNextSend()
  batch,      \* m_sendBatchTotal and the rest
  auto,       \* m_autoSendEnabled
  autoGen,    \* m_autoSendGeneration
  lastAuto,   \* m_lastAutomaticFingerprint, or none
  encoding,   \* pictures being encoded: [rec, target, wanted, gen]
  requests,   \* calls to the server that have not answered
  callGen,    \* m_requestGeneration
  user,       \* bound
  asked,      \* history: what the user asked to send that has not been settled
  stranded    \* history: a sign-in aborted the call of the send that is still active

store == <<here, gone>>
queue == <<pending, active, scheduled, timers, batch>>
capture == <<auto, autoGen, lastAuto, encoding>>
login == <<signed, titled, signing>>
session == <<login, requests, callGen, stranded>>
sendVars == <<store, known, queue, capture, session, user, asked>>

Target == {All, Peer}
Key(e) == [rec |-> e.rec, target |-> e.target]
Keys(s) == {Key(e) : e \in ToSet(s)}
Empty == [total |-> 0, completed |-> 0, delivered |-> 0, nobody |-> 0, failed |-> 0]
Busy == active # NoSend

Entry == [rec : Rec, target : Target, origin : {"manual", "automatic"}, gen : Nat]

SendTypeOK ==
  /\ here \subseteq Rec /\ gone \subseteq Rec /\ here \cap gone = {}
  /\ {known, signed, titled, signing, stranded, scheduled, auto} \subseteq BOOLEAN
  /\ pending \in Seq(Entry) /\ active \in Entry \cup {NoSend}
  /\ timers \in Nat /\ autoGen \in Nat /\ callGen \in Nat /\ user \in 0 .. MaxUser
  /\ batch \in [DOMAIN Empty -> Int]
  /\ lastAuto \in SUBSET Rec
  /\ encoding \subseteq [rec : Picture, target : Target, wanted : BOOLEAN, gen : Nat]
  /\ requests \subseteq [rec : Rec, target : Target, gen : Nat]
  /\ asked \subseteq [rec : Rec, target : Target]

SendInit ==
  /\ here = {} /\ gone = {} /\ known = TRUE
  /\ signed = TRUE /\ titled = TRUE /\ signing = FALSE /\ stranded = FALSE
  /\ pending = << >> /\ active = NoSend /\ scheduled = FALSE /\ timers = 0
  /\ batch = Empty
  /\ auto \in BOOLEAN /\ autoGen = 0 /\ lastAuto = {} /\ encoding = {}
  /\ requests = {} /\ callGen = 0
  /\ user = 0 /\ asked = {}

Acts == user < MaxUser /\ user' = user + 1

-----------------------------------------------------------------------------
(* The queue                                                               *)

IsKnownTarget(target) == target = All \/ known

\* Arms the timer for the queue as it will be.
Scheduled(active1, pending1) ==
  IF scheduled \/ active1 # NoSend \/ pending1 = << >>
  THEN UNCHANGED <<scheduled, timers>>
  ELSE scheduled' = TRUE /\ timers' = timers + 1

\* Of records, those the queue takes: here, and neither pending nor active.
Accepted(recs, target) ==
  {r \in recs \cap here' :
     LET k == [rec |-> r, target |-> target]
     IN  k \notin Keys(pending) /\ (Busy => Key(active) # k)}

\* A record already pending is not queued twice; asked for by hand, it is manual.
Upgraded(recs, target, origin) ==
  [n \in DOMAIN pending |->
     IF origin = "manual" /\ pending[n].target = target /\ pending[n].rec \in recs
     THEN [pending[n] EXCEPT !.origin = "manual"] ELSE pending[n]]

Enqueue(recs, target, origin, gen) ==
  \E order \in SetToSeqs(Accepted(recs, target)) :
    LET added == [n \in DOMAIN order |-> [rec |-> order[n], target |-> target,
                                          origin |-> origin, gen |-> gen]]
        count == IF ~Busy /\ pending = << >> THEN Empty ELSE batch
    IN  /\ pending' = Upgraded(recs, target, origin) \o added
        /\ batch' = IF added = << >> THEN batch
                    ELSE [count EXCEPT !.total = @ + Len(added)]
        /\ Scheduled(active, pending')

\* finishSendBatch(): reports, and starts over.
Reported(active1, pending1, counts) ==
  IF active1 # NoSend \/ pending1 # << >> THEN counts ELSE Empty

Counted(counts, outcome) == [counts EXCEPT !.completed = @ + 1, ![outcome] = @ + 1]

\* finishActiveSend(): whatever answered, the active send is the one that ends.
Finished(outcome) ==
  /\ active' = NoSend
  /\ batch' = Reported(NoSend, pending, Counted(batch, outcome))
  /\ pending' = pending
  /\ asked' = asked \ {Key(active)}
  /\ Scheduled(NoSend, pending)

\* The entries startNextSend() passes over: the record is gone, or the device is.
Sendable(e) == e.rec \in here /\ IsKnownTarget(e.target)
Passed == LET ok == {n \in DOMAIN pending : Sendable(pending[n])}
          IN  IF ok = {} THEN Len(pending) ELSE Min(ok) - 1

Request(e) == [rec |-> e.rec, target |-> e.target, gen |-> callGen]

\* Mutant: the timer leaves its flag up.
FlagStaysUp == scheduled

\* m_nextSendScheduled once the timer has fired.
Lowered == FALSE

\* The zero timer of scheduleNextSend(), and startNextSend(). Without a session, and
\* for a picture whose file cannot be opened, the send fails before a call is made,
\* and ends at once.
StartNextSend ==
  LET rest == SubSeq(pending, Passed + 1, Len(pending))
      skipped == asked \ Keys(SubSeq(pending, 1, Passed))
      left == [batch EXCEPT !.total = @ - Passed]
  IN  /\ timers > 0
      /\ \/ /\ Busy
            /\ scheduled' = Lowered /\ timers' = timers - 1
            /\ UNCHANGED <<pending, active, batch, requests, asked>>
         \/ /\ ~Busy /\ rest = << >>
            /\ scheduled' = Lowered /\ timers' = timers - 1
            /\ pending' = << >> /\ batch' = Empty /\ asked' = skipped
            /\ UNCHANGED <<active, requests>>
         \/ /\ ~Busy /\ rest # << >> /\ signed
            /\ scheduled' = Lowered /\ timers' = timers - 1
            /\ pending' = Tail(rest) /\ active' = Head(rest) /\ batch' = left
            /\ requests' = requests \cup {Request(Head(rest))}
            /\ asked' = skipped
         \/ /\ ~Busy /\ rest # << >> /\ (Head(rest).rec \in Picture \/ ~signed)
            /\ pending' = Tail(rest)
            /\ batch' = Reported(NoSend, pending', Counted(left, "failed"))
            /\ scheduled' = (Lowered \/ pending' # << >>)
            /\ timers' = IF pending' = << >> \/ Lowered THEN timers - 1 ELSE timers
            /\ asked' = skipped \ {Key(Head(rest))}
            /\ UNCHANGED <<active, requests>>
  /\ UNCHANGED <<store, known, capture, login, callGen, stranded, user>>

\* Mutant: an answer is taken whatever its generation.
CurrentAlways(c) == TRUE

Current(c) == c.gen = callGen

\* A call answers, or is given up after m_timeoutMs.
Answer(c, outcome) ==
  /\ requests' = requests \ {c}
  /\ IF Current(c) /\ Busy THEN Finished(outcome) ELSE UNCHANGED <<queue, asked>>
  /\ UNCHANGED <<store, known, capture, login, callGen, stranded, user>>

-----------------------------------------------------------------------------
(* The user, and the clipboard                                             *)

\* sendRecords(): the target is asked for when the queue takes it.
SendRecords(recs, target) ==
  /\ Acts /\ signed /\ IsKnownTarget(target)
  /\ UNCHANGED <<store, known, capture, session>>
  /\ Enqueue(recs, target, "manual", autoGen)
  /\ UNCHANGED active
  /\ asked' = asked \cup {[rec |-> r, target |-> target] : r \in recs \cap here}

\* enqueueAutomaticRecord(): the same content twice running is sent once.
SendAutomatically(r, target, gen) ==
  IF auto /\ signed /\ IsKnownTarget(target) /\ r \notin lastAuto
  THEN lastAuto' = {r} /\ Enqueue({r}, target, "automatic", gen)
  ELSE UNCHANGED <<lastAuto, pending, batch, scheduled, timers>>

\* captureClipboard(), a text.
CaptureText(r, target) ==
  /\ Acts /\ r \notin Picture \cup gone
  /\ here' = here \cup {r}
  /\ SendAutomatically(r, target, autoGen)
  /\ UNCHANGED <<gone, known, active, auto, autoGen, encoding, session, asked>>

\* captureClipboard(), a picture: what it may do is decided now, and again later.
CapturePicture(r, target) ==
  /\ Acts /\ r \in Picture \ gone
  /\ encoding' = encoding \cup {[rec |-> r, target |-> target, gen |-> autoGen,
                                 wanted |-> auto /\ signed /\ IsKnownTarget(target)]}
  /\ UNCHANGED <<store, known, queue, auto, autoGen, lastAuto, session, asked>>

MaySend(e) == e.wanted /\ auto /\ e.gen = autoGen /\ signed

\* addCapturedImage(): the encoded picture becomes a record, or could not be encoded.
Encoded(e) ==
  /\ encoding' = encoding \ {e}
  /\ \/ /\ here' = here \cup {e.rec}
        /\ IF MaySend(e) THEN SendAutomatically(e.rec, e.target, e.gen)
           ELSE UNCHANGED <<lastAuto, pending, batch, scheduled, timers>>
     \/ UNCHANGED <<here, lastAuto, pending, batch, scheduled, timers>>
  /\ UNCHANGED <<gone, known, active, auto, autoGen, session, user, asked>>

\* The entries of q that are in S (SelectSeq, of a set).
Those(q, S) ==
  LET those[n \in 0 .. Len(q)] ==
        IF n = 0 THEN << >>
        ELSE IF q[n] \in S THEN Append(those[n - 1], q[n]) ELSE those[n - 1]
  IN  those[Len(q)]

\* The total once entries have left the queue.
Shrunk(pending1) ==
  LET busy == IF Busy THEN 1 ELSE 0
  IN  [batch EXCEPT !.total = Max({batch.completed + busy,
                                   @ - (Len(pending) - Len(pending1))})]

\* Mutant: everything queued goes with the setting.
KeptNone == << >>

\* setAutoSendEnabled(false) drops what was queued automatically.
Kept == Those(pending, {e \in ToSet(pending) : e.origin = "manual"})

SetAutoSend ==
  /\ Acts
  /\ auto' = ~auto /\ autoGen' = autoGen + 1 /\ lastAuto' = {}
  /\ IF auto THEN pending' = Kept /\ batch' = Reported(active, Kept, Shrunk(Kept))
     ELSE UNCHANGED <<pending, batch>>
  /\ UNCHANGED <<store, known, active, scheduled, timers, encoding, session, asked>>

\* removeRecords(). A picture captured again while its record is removed would be
\* a new record: left out.
RemoveRecords(recs) ==
  LET left == Those(pending, {e \in ToSet(pending) : e.rec \notin recs})
  IN  /\ Acts /\ recs # {} /\ recs \subseteq here
      /\ \A e \in encoding : e.rec \notin recs
      /\ here' = here \ recs /\ gone' = gone \cup recs
      /\ pending' = left /\ batch' = Shrunk(left)
      /\ asked' = asked \ {k \in Keys(pending) : k.rec \in recs}
      /\ UNCHANGED <<known, active, scheduled, timers, capture, session>>

\* setDevices(): the account's list is fetched again.
SetDevices ==
  /\ Acts /\ known' = ~known
  /\ UNCHANGED <<store, queue, capture, session, asked>>

\* loggedOut(): clearSendQueue(), and no devices. Timers are not called off. The
\* title bar offers it also after the session has ended by itself.
LoggedOut ==
  /\ Acts /\ titled
  /\ signed' = FALSE /\ titled' = FALSE /\ signing' = FALSE /\ callGen' = callGen + 1
  /\ autoGen' = autoGen + 1 /\ lastAuto' = {} /\ known' = FALSE
  /\ pending' = << >> /\ active' = NoSend /\ batch' = Empty /\ scheduled' = FALSE
  /\ asked' = {} /\ stranded' = FALSE
  /\ UNCHANGED <<store, timers, auto, encoding, requests>>

\* refreshAccessToken(), for this or for any other request, failed: the tokens are
\* cleared and nothing else. A call that is under way may be answered still.
SessionEnds ==
  /\ signed /\ signed' = FALSE
  /\ UNCHANGED <<store, known, queue, capture, titled, signing, requests, callGen, stranded, user, asked>>

\* login(), or registerAccount(): invalidateAuthentication() aborts the calls of
\* whatever was under way, and their replies, of an older generation, say nothing.
Login ==
  /\ Acts /\ ~signed
  /\ signing' \in BOOLEAN
  /\ callGen' = callGen + 1
  /\ stranded' = Busy
  /\ UNCHANGED <<store, known, queue, capture, signed, titled, requests, asked>>

\* The answer to login(): loggedIn(), which tells the queue nothing, or an error.
LoggedIn ==
  /\ signing /\ signing' = FALSE
  /\ signed' \in BOOLEAN /\ titled' = (titled \/ signed')
  /\ UNCHANGED <<store, known, queue, capture, requests, callGen, stranded, user, asked>>

Outcome == {"delivered", "nobody", "failed"}

User ==
  \/ \E recs \in SUBSET here, target \in Target : SendRecords(recs, target)
  \/ \E r \in Rec, target \in Target : CaptureText(r, target) \/ CapturePicture(r, target)
  \/ \E recs \in SUBSET here : RemoveRecords(recs)
  \/ SetAutoSend \/ SetDevices \/ LoggedOut \/ Login

SendNext ==
  \/ User \/ StartNextSend \/ SessionEnds \/ LoggedIn
  \/ \E c \in requests, outcome \in Outcome : Answer(c, outcome)
  \/ \E e \in encoding : Encoded(e)

SendSpec == SendInit /\ [][SendNext]_sendVars

\* The event loop runs its timers, and a call answers or is aborted after m_timeoutMs.
SendFairSpec ==
  /\ SendSpec
  /\ WF_sendVars(StartNextSend)
  /\ \A c \in [rec : Rec, target : Target, gen : 0 .. MaxUser] :
       WF_sendVars(\E outcome \in Outcome : c \in requests /\ Answer(c, outcome))

-----------------------------------------------------------------------------
(* Properties                                                              *)

\* The calls whose answers will be taken are the active send's, and it has one.
\* finishActiveSend() ends whatever is active, so the answer to a call given up by an
\* earlier session must not reach it; and a send whose call is lost holds the queue
\* for ever. There is one way to lose it, and no other: a sign-in after the session
\* had ended by itself, which strands the send that was active.
AnswersAreTheActiveSends ==
  /\ {c \in requests : c.gen = callGen} = (IF Busy /\ ~stranded THEN {Request(active)} ELSE {})
  /\ stranded => Busy

\* The totals of a batch add up through records skipped, removed and dropped, so
\* that "Queued %1 of %2 records; %3 failed." is true (finishSendBatch()).
BatchCounts ==
  /\ batch.total = batch.completed + (IF Busy THEN 1 ELSE 0) + Len(pending)
  /\ batch.completed = batch.delivered + batch.nobody + batch.failed

\* Nothing the user asked for leaves the queue unsent, unless the user took it back;
\* nothing waits in it that the user has ruled out since: no removed record, and
\* no automatic send of before the setting was changed or the user signed out. A
\* session that ends by itself rules out nothing: what it leaves stays queued, and
\* fails, or goes with the next session, or waits behind a send it stranded.
QueueIsWhatWasAsked ==
  /\ asked \subseteq Keys(pending) \cup (IF Busy THEN {Key(active)} ELSE {})
  /\ \A e \in ToSet(pending) :
       /\ e.rec \notin gone
       /\ e.origin = "automatic" => auto /\ titled /\ e.gen = autoGen

\* Whatever is queued is settled in the end, by an answer, by the user or by the lack
\* of a session, unless a sign-in stranded the active send.
QueueDrains == []<>((pending = << >> /\ ~Busy) \/ stranded)
=============================================================================

------------------------- MODULE NetworkTabs_proofs -------------------------
(***************************************************************************)
(* Theorems about NetworkTabs and the sessions under it, for any number of *)
(* sessions, directories, attempts, outages and clicks.                    *)
(***************************************************************************)
EXTENDS NetworkTabs, SequenceTheorems, TLAPS

Cycling == {"attempt", "dial", "backoff"}

\* A request that is under way anywhere is an older one than the view's last, or is
\* that one, and of the directory on screen.
Fits(id, p) ==
  /\ id \in Nat /\ p \in Path \cup {NoPath} /\ id <= reqId
  /\ id # 0 => p \in Path
  /\ id # 0 /\ id = reqId /\ cur # NoSession => p = root

Call ==
  [slot : {"start", "retry", "retryWith"}]
    \cup {c \in [slot : {"list"}, id : Nat, path : Path] : c.id # 0 /\ Fits(c.id, c.path)}

Signal ==
  [is : {"state"}, from : Session, state : States] \cup [is : {"auth"}, from : Session]
    \cup [is : {"listFailed"}, from : Session, id : Nat, path : Path \cup {NoPath}]
    \cup {e \in [is : {"ready"}, from : Session, id : Nat, path : Path \cup {NoPath}] : Fits(e.id, e.path)}

\* The session works at a listing, or dials for one.
Lists(w) ==
  w.doing \in {"list", "relist"} \/ (w.doing \in Cycling /\ w.then \in {"list", "relist"})

Working(w) == Fits(w.job.id, w.job.path) /\ (Lists(w) => w.job.id # 0)

\* A session that has asked n times since the user acted, and stops if st: it has asked
\* only if it awaits the answer, and dials with credentials nobody has accepted yet only
\* before it asks.
Healthy(w, st, n) ==
  /\ w.tries <= MaxAttempts(w) /\ (w.doing = "backoff" => w.tries < MaxAttempts(w))
  /\ n \in {0, 1} /\ (n = 1 => w.awaiting)
  /\ w.doing \in Cycling /\ ~w.ever => n = 0
  /\ w.doing = "list" => w.ever
  /\ ~st /\ w.doing \notin Cycling /\ w.state = "connected" => w.ever

Tab == [path : Path, session : Session \cup {NoSession}, server : Session \cup {NoSession}]

TabsInv ==
  /\ TypeOK /\ tabs \in Seq(Tab) /\ reqId \in Nat
  /\ asked \in [Session -> {0, 1}] /\ calls \in [Session -> Seq(Call)] /\ events \in Seq(Signal)
  /\ \A s \in Session : Healthy(ses[s], s \in stopping, asked[s]) /\ Working(ses[s])

USE AttemptAssumption DEF AttemptAssumption

-----------------------------------------------------------------------------
(* Sequences of calls and signals                                          *)

LEMMA Wider == ASSUME NEW S, NEW T, S \subseteq T PROVE Seq(S) \subseteq Seq(T)
  <1>1. ASSUME NEW q \in Seq(S) PROVE q \in Seq(T)
    <2>1. Len(q) \in Nat /\ DOMAIN q = 1 .. Len(q) /\ q \in [1 .. Len(q) -> S]
      BY LenProperties
    <2>2. q \in [1 .. Len(q) -> T]
      BY <2>1
    <2> QED  BY <2>1, <2>2
  <1> QED  BY <1>1

LEMMA Signals ==
  ASSUME NEW s \in Session
  PROVE  /\ \A x \in States : StateChanged(s, x) \in Signal
         /\ AuthRequired(s) \in Signal
         /\ \A r \in Request : ListFailed(s, r) \in Signal
         /\ \A id, p : Fits(id, p) => ListReady(s, id, p) \in Signal
  BY DEF StateChanged, AuthRequired, ListFailed, ListReady, Signal, Request, Fits

LEMMA Emitted ==
  ASSUME NEW s, NEW q \in Seq(Signal), events \in Seq(Signal), Emit(s, q)
  PROVE  events' \in Seq(Signal)
  <1>1. events \o q \in Seq(Signal)
    BY ConcatProperties
  <1> QED  BY <1>1 DEF Emit

LEMMA Failed ==
  ASSUME NEW s \in Session, NEW w \in SessionRecord, NEW q \in Seq(Signal), events \in Seq(Signal),
         CycleFails(s, w, q)
  PROVE  /\ ses' = [ses EXCEPT ![s] = [w EXCEPT !.doing = "rest", !.tries = 0]]
         /\ events' \in Seq(Signal)
  <1>1. ListFailed(s, w.job) \in Signal
    BY Signals DEF SessionRecord
  <1>2. PICK r : r = IF w.then \in {"list", "relist"} THEN <<ListFailed(s, w.job)>> ELSE << >>
    OBVIOUS
  <1>3. r \in Seq(Signal)
    BY <1>1, <1>2
  <1>4. q \o r \in Seq(Signal)
    BY <1>3, ConcatProperties
  <1>5. Emit(s, q \o r)
    BY <1>2 DEF CycleFails
  <1>6. events' \in Seq(Signal)
    BY <1>4, <1>5, Emitted
  <1> QED  BY <1>6 DEF CycleFails, Become

-----------------------------------------------------------------------------
(* The sessions                                                            *)

\* A step of one session's thread.
LEMMA OneSession ==
  ASSUME TabsInv, NEW s \in Session, NEW w \in SessionRecord, NEW n,
         ses' = [ses EXCEPT ![s] = w], asked' = [asked EXCEPT ![s] = n],
         Healthy(w, s \in stopping, n), Working(w),
         calls' \in [Session -> Seq(Call)], events' \in Seq(Signal), link' \subseteq reach, wired' \subseteq Session,
         UNCHANGED <<login, stopping, trait, reach, guiVars>>
  PROVE  TabsInv'
  <1> USE DEF guiVars, tabVars, viewVars, promptVars
  <1>1. Call' = Call /\ Signal' = Signal /\ \A id, p : Fits(id, p)' <=> Fits(id, p)
    BY DEF Call, Signal, Fits
  <1>2. ses' \in [Session -> SessionRecord] /\ asked' \in [Session -> {0, 1}]
    BY DEF TabsInv, TypeOK, Healthy
  <1>3. ASSUME NEW t \in Session
        PROVE  Healthy(ses'[t], t \in stopping', asked'[t]) /\ Working(ses[t])'
    <2>1. CASE t = s
      BY <1>1, <2>1 DEF TabsInv, TypeOK, Working
    <2>2. CASE t # s
      BY <1>1, <2>2 DEF TabsInv, TypeOK, Working
    <2> QED  BY <2>1, <2>2
  <1>4. \A t \in Session : ses'[t].tries \in 0 .. MaxAttempts(ses'[t])
    BY <1>2, <1>3 DEF Healthy, SessionRecord, MaxAttempts
  <1>5. TypeOK'
    BY <1>2, <1>4 DEF TabsInv, TypeOK
  <1> QED  BY <1>1, <1>2, <1>3, <1>5 DEF TabsInv

LEMMA TabsInit == Init => TabsInv
  <1> SUFFICES ASSUME Init PROVE TabsInv
    OBVIOUS
  <1>1. NoPath \in Path \cup {NoPath} /\ Home \in Path /\ MaxRequests \in Nat /\ NoSession \notin Session
    BY HomeAssumption, SessionAssumption DEF HomeAssumption, SessionAssumption
  <1>2. ses \in [Session -> SessionRecord]
    BY <1>1 DEF Init, SessionInit, SessionRecord, States, Doing, Credentials, Request, NoRequest
  <1>3. PICK t : t = [path |-> Home, session |-> NoSession, server |-> NoSession]
    OBVIOUS
  <1>4. t \in Tab /\ tabs = <<t>>
    BY <1>1, <1>3 DEF Init, Tab
  <1>5. tabs \in Seq(Tab) /\ Len(tabs) = 1 /\ tabs[1] = t
    BY <1>4
  <1>6. ASSUME NEW s \in Session
        PROVE  Healthy(ses[s], s \in stopping, asked[s]) /\ Working(ses[s]) /\ ses[s].tries \in 0 .. MaxAttempts(ses[s])
    BY <1>1, <1>6 DEF Init, SessionInit, Healthy, Working, Fits, Lists, Cycling, MaxAttempts, NoRequest
  <1>7. TypeOK
    <2>1. /\ login \in [Session -> Credentials] /\ stopping \subseteq Session /\ wired \subseteq Session
          /\ link \subseteq reach
      BY DEF Init, SessionInit, Credentials
    <2>2. \A s \in Session : ses[s].tries \in 0 .. MaxAttempts(ses[s])
      BY <1>6
    <2>3. \A n \in 1 .. Len(tabs) :
            tabs[n] \in [path : Path, session : Session \cup {NoSession}, server : Session \cup {NoSession}]
      BY <1>4, <1>5 DEF Tab
    <2>4. /\ active \in 1 .. Len(tabs) /\ cur \in Session \cup {NoSession} /\ root \in Path /\ scan \in Path \cup {NoPath}
      BY <1>1, <1>5 DEF Init
    <2>7. /\ {loading, relist, loginLink} \subseteq BOOLEAN /\ status \in States \cup {"none", "login"}
      BY DEF Init
    <2>6. shown \in [from : Session \cup {NoSession}, path : Path \cup {NoPath}]
      BY <1>1 DEF Init
    <2>5. prompts \in Nat /\ requests \in 0 .. MaxRequests
      BY <1>1 DEF Init
    <2> QED  BY <1>2, <2>1, <2>2, <2>3, <2>4, <2>5, <2>6, <2>7 DEF TypeOK
  <1>8. reqId \in Nat /\ asked \in [Session -> {0, 1}] /\ calls \in [Session -> Seq(Call)] /\ events \in Seq(Signal)
    BY DEF Init, SessionInit
  <1> QED  BY <1>5, <1>6, <1>7, <1>8 DEF TabsInv

\* What the cycle and the slots of a session do.
LEMMA WorkStep ==
  ASSUME TabsInv, NEW s \in Session, Work(s), UNCHANGED guiVars
  PROVE  TabsInv'
  <1> USE DEF Become, serverVars
  <1>0. /\ TypeOK /\ ses \in [Session -> SessionRecord] /\ ses[s] \in SessionRecord
        /\ Healthy(ses[s], s \in stopping, asked[s]) /\ Working(ses[s])
        /\ asked \in [Session -> {0, 1}] /\ calls \in [Session -> Seq(Call)] /\ events \in Seq(Signal)
        /\ link \subseteq reach /\ wired \subseteq Session
    BY DEF TabsInv, TypeOK
  <1>a. /\ asked = [asked EXCEPT ![s] = asked[s]] /\ ses = [ses EXCEPT ![s] = ses[s]]
        /\ << >> \in Seq(Signal)
    BY <1>0
  <1>b. /\ ses[s].state \in States /\ ses[s].tries \in Nat /\ ses[s].ever \in BOOLEAN /\ ses[s].awaiting \in BOOLEAN
        /\ ses[s].dir \in Path \cup {NoPath} /\ ses[s].user \in Credentials /\ ses[s].doing \in Doing
        /\ ses[s].then \in Doing /\ ses[s].job \in Request
    BY <1>0 DEF SessionRecord
  <1>c. calls[s] # << >> => [calls EXCEPT ![s] = Tail(@)] \in [Session -> Seq(Call)]
    <2>1. ASSUME calls[s] # << >> PROVE Tail(calls[s]) \in Seq(Call)
      BY <1>0, <2>1, HeadTailProperties
    <2> QED  BY <1>0, <2>1
  <1>e. ses[s] \in SessionRecord /\ login[s] \in Credentials /\ \A x \in Cycling : x \in Doing
    BY <1>0 DEF TypeOK, Cycling, Doing
  <1>f. ses[s].tries + 1 \in Nat
    BY <1>b
  <1>d. calls[s] # << >> => Head(calls[s]) \in Call
    BY <1>0, HeadTailProperties
  <1>1. CASE Attempt(s) /\ s \in stopping
    <2>1. PICK v, q : v = ses[s] /\ q = << >>
      OBVIOUS
    <2>2. v \in SessionRecord /\ v.job \in Request
      BY <1>b, <1>e, <2>1 DEF SessionRecord, States
    <2>3. q \in Seq(Signal)
      BY <1>b, <2>1, Signals DEF States
    <2>4. CycleFails(s, v, q)
      BY <1>1, <2>1 DEF Attempt
    <2>5. PICK w : w = [v EXCEPT !.doing = "rest", !.tries = 0]
      OBVIOUS
    <2>6. ses' = [ses EXCEPT ![s] = w] /\ events' \in Seq(Signal)
      BY <1>0, <2>2, <2>3, <2>4, <2>5, Failed
    <2>7. w \in SessionRecord
      BY <2>2, <2>5 DEF SessionRecord, Doing
    <2>8. Healthy(w, s \in stopping, asked[s]) /\ Working(w)
      BY <1>0, <1>b, <1>1, <2>1, <2>5 DEF Attempt, Refused, Healthy, Working, Lists, Cycling, MaxAttempts
    <2> QED  BY <1>0, <1>a, <1>1, <2>6, <2>7, <2>8, OneSession DEF Attempt
  <1>2. CASE Attempt(s) /\ s \notin stopping
    <2>1. PICK w : w = [ses[s] EXCEPT !.state = IF ses[s].ever THEN "reconnecting" ELSE "connecting", !.doing = "dial"]
      OBVIOUS
    <2>2. w \in SessionRecord
      BY <1>b, <1>e, <1>f, <1>2, <2>1 DEF Attempt, SessionRecord, States, Doing, Request, Cycle, Take
    <2>3. Healthy(w, s \in stopping, asked[s]) /\ Working(w)
      BY <1>0, <1>b, <1>2, <2>1 DEF Attempt, Healthy, Working, Lists, Cycling, MaxAttempts, Cycle, Take, Rests, Refused
    <2>4. events' \in Seq(Signal)
      <3>1. PICK q : q = <<StateChanged(s, IF ses[s].ever THEN "reconnecting" ELSE "connecting")>>
        OBVIOUS
      <3>2. q \in Seq(Signal)
        BY <1>0, <1>b, <1>2, <3>1, Signals DEF Working, Request, Attempt, States
      <3> QED  BY <1>0, <1>2, <3>1, <3>2, Emitted DEF Attempt
    <2> QED  BY <1>0, <1>a, <1>2, <2>1, <2>2, <2>3, <2>4, OneSession DEF Attempt, Cycle
  <1>3. CASE DialStopped(s)
    <2>1. PICK v, q : v = ses[s] /\ q = << >>
      OBVIOUS
    <2>2. v \in SessionRecord /\ v.job \in Request
      BY <1>b, <1>e, <2>1 DEF SessionRecord, States
    <2>3. q \in Seq(Signal)
      BY <1>b, <2>1, Signals DEF States
    <2>4. CycleFails(s, v, q)
      BY <1>3, <2>1 DEF DialStopped
    <2>5. PICK w : w = [v EXCEPT !.doing = "rest", !.tries = 0]
      OBVIOUS
    <2>6. ses' = [ses EXCEPT ![s] = w] /\ events' \in Seq(Signal)
      BY <1>0, <2>2, <2>3, <2>4, <2>5, Failed
    <2>7. w \in SessionRecord
      BY <2>2, <2>5 DEF SessionRecord, Doing
    <2>8. Healthy(w, s \in stopping, asked[s]) /\ Working(w)
      BY <1>0, <1>b, <1>3, <2>1, <2>5 DEF DialStopped, Refused, Healthy, Working, Lists, Cycling, MaxAttempts
    <2> QED  BY <1>0, <1>a, <1>3, <2>6, <2>7, <2>8, OneSession DEF DialStopped
  <1>4. CASE DialOk(s)
    <2>1. PICK w : w = [ses[s] EXCEPT !.state = "connected", !.ever = TRUE, !.tries = 0, !.doing = ses[s].then, !.user = IF ses[s].ever THEN @ ELSE login[s]]
      OBVIOUS
    <2>2. w \in SessionRecord
      BY <1>b, <1>e, <1>f, <1>4, <2>1 DEF DialOk, SessionRecord, States, Doing, Request, Cycle, Take
    <2>3. Healthy(w, s \in stopping, asked[s]) /\ Working(w)
      BY <1>0, <1>b, <1>4, <2>1 DEF DialOk, Healthy, Working, Lists, Cycling, MaxAttempts, Cycle, Take, Rests, Refused
    <2>4. events' \in Seq(Signal)
      <3>1. PICK q : q = <<StateChanged(s, "connected")>>
        OBVIOUS
      <3>2. q \in Seq(Signal)
        BY <1>0, <1>b, <1>4, <3>1, Signals DEF Working, Request, DialOk, States
      <3> QED  BY <1>0, <1>4, <3>1, <3>2, Emitted DEF DialOk
    <2>5. /\ ses' = [ses EXCEPT ![s] = w] /\ asked' = [asked EXCEPT ![s] = asked[s]]
          /\ calls' \in [Session -> Seq(Call)] /\ wired' \subseteq Session
          /\ UNCHANGED <<login, stopping, trait, reach, guiVars>>
      BY <1>0, <1>a, <1>4, <2>1 DEF DialOk
    <2>6. link' \subseteq reach
      BY <1>0, <1>4 DEF DialOk, TypeOK
    <2> QED  BY <2>2, <2>3, <2>4, <2>5, <2>6, OneSession
  <1>5. CASE DialRefused(s)
    <2>1. PICK v, q : v = [ses[s] EXCEPT !.awaiting = TRUE, !.state = "idle"] /\ q = <<StateChanged(s, "idle"), AuthRequired(s)>>
      OBVIOUS
    <2>2. v \in SessionRecord /\ v.job \in Request
      BY <1>b, <1>e, <2>1 DEF SessionRecord, States
    <2>3. q \in Seq(Signal)
      BY <1>b, <2>1, Signals DEF States
    <2>4. CycleFails(s, v, q)
      BY <1>5, <2>1 DEF DialRefused
    <2>5. PICK w : w = [v EXCEPT !.doing = "rest", !.tries = 0]
      OBVIOUS
    <2>6. ses' = [ses EXCEPT ![s] = w] /\ events' \in Seq(Signal)
      BY <1>0, <2>2, <2>3, <2>4, <2>5, Failed
    <2>7. w \in SessionRecord
      BY <2>2, <2>5 DEF SessionRecord, Doing
    <2>8. Healthy(w, s \in stopping, asked[s] + 1) /\ Working(w)
      BY <1>0, <1>b, <1>5, <2>1, <2>5 DEF DialRefused, Refused, Healthy, Working, Lists, Cycling, MaxAttempts
    <2> QED  BY <1>0, <1>a, <1>5, <2>6, <2>7, <2>8, OneSession DEF DialRefused
  <1>6. CASE DialFails(s) /\ ses[s].tries < MaxAttempts(ses[s])
    <2>1. PICK w : w = [ses[s] EXCEPT !.doing = "backoff"]
      OBVIOUS
    <2>2. w \in SessionRecord
      BY <1>b, <1>e, <1>f, <1>6, <2>1 DEF DialFails, SessionRecord, States, Doing, Request, Cycle, Take
    <2>3. Healthy(w, s \in stopping, asked[s]) /\ Working(w)
      BY <1>0, <1>b, <1>6, <2>1 DEF DialFails, Healthy, Working, Lists, Cycling, MaxAttempts, Cycle, Take, Rests, Refused
    <2>4. events' \in Seq(Signal)
      BY <1>0, <1>6 DEF DialFails
    <2> QED  BY <1>0, <1>a, <1>6, <2>1, <2>2, <2>3, <2>4, OneSession DEF DialFails, Cycle
  <1>7. CASE DialFails(s) /\ ~(ses[s].tries < MaxAttempts(ses[s]))
    <2>1. PICK v, q : v = [ses[s] EXCEPT !.state = "failed"] /\ q = <<StateChanged(s, "failed")>>
      OBVIOUS
    <2>2. v \in SessionRecord /\ v.job \in Request
      BY <1>b, <1>e, <2>1 DEF SessionRecord, States
    <2>3. q \in Seq(Signal)
      BY <1>b, <2>1, Signals DEF States
    <2>4. CycleFails(s, v, q)
      BY <1>7, <2>1 DEF DialFails
    <2>5. PICK w : w = [v EXCEPT !.doing = "rest", !.tries = 0]
      OBVIOUS
    <2>6. ses' = [ses EXCEPT ![s] = w] /\ events' \in Seq(Signal)
      BY <1>0, <2>2, <2>3, <2>4, <2>5, Failed
    <2>7. w \in SessionRecord
      BY <2>2, <2>5 DEF SessionRecord, Doing
    <2>8. Healthy(w, s \in stopping, asked[s]) /\ Working(w)
      BY <1>0, <1>b, <1>7, <2>1, <2>5 DEF DialFails, Refused, Healthy, Working, Lists, Cycling, MaxAttempts
    <2> QED  BY <1>0, <1>a, <1>7, <2>6, <2>7, <2>8, OneSession DEF DialFails
  <1>8. CASE Backoff(s) /\ s \in stopping
    <2>1. PICK v, q : v = ses[s] /\ q = << >>
      OBVIOUS
    <2>2. v \in SessionRecord /\ v.job \in Request
      BY <1>b, <1>e, <2>1 DEF SessionRecord, States
    <2>3. q \in Seq(Signal)
      BY <1>b, <2>1, Signals DEF States
    <2>4. CycleFails(s, v, q)
      BY <1>8, <2>1 DEF Backoff
    <2>5. PICK w : w = [v EXCEPT !.doing = "rest", !.tries = 0]
      OBVIOUS
    <2>6. ses' = [ses EXCEPT ![s] = w] /\ events' \in Seq(Signal)
      BY <1>0, <2>2, <2>3, <2>4, <2>5, Failed
    <2>7. w \in SessionRecord
      BY <2>2, <2>5 DEF SessionRecord, Doing
    <2>8. Healthy(w, s \in stopping, asked[s]) /\ Working(w)
      BY <1>0, <1>b, <1>8, <2>1, <2>5 DEF Backoff, Refused, Healthy, Working, Lists, Cycling, MaxAttempts
    <2> QED  BY <1>0, <1>a, <1>8, <2>6, <2>7, <2>8, OneSession DEF Backoff
  <1>9. CASE Backoff(s) /\ s \notin stopping
    <2>1. PICK w : w = [ses[s] EXCEPT !.tries = @ + 1, !.doing = "attempt"]
      OBVIOUS
    <2>2. w \in SessionRecord
      BY <1>b, <1>e, <1>f, <1>9, <2>1 DEF Backoff, SessionRecord, States, Doing, Request, Cycle, Take
    <2>3. Healthy(w, s \in stopping, asked[s]) /\ Working(w)
      BY <1>0, <1>b, <1>9, <2>1 DEF Backoff, Healthy, Working, Lists, Cycling, MaxAttempts, Cycle, Take, Rests, Refused
    <2>4. events' \in Seq(Signal)
      BY <1>0, <1>9 DEF Backoff
    <2> QED  BY <1>0, <1>a, <1>9, <2>1, <2>2, <2>3, <2>4, OneSession DEF Backoff, Cycle
  <1>10. CASE OnStart(s)
    <2>1. PICK w : w = Cycle([ses[s] EXCEPT !.ever = FALSE, !.awaiting = FALSE, !.state = "connecting"], "rest")
      OBVIOUS
    <2>2. w \in SessionRecord
      BY <1>b, <1>e, <1>f, <1>10, <2>1 DEF OnStart, SessionRecord, States, Doing, Request, Cycle, Take
    <2>3. Healthy(w, s \in stopping, 0) /\ Working(w)
      BY <1>0, <1>b, <1>10, <2>1 DEF OnStart, Healthy, Working, Lists, Cycling, MaxAttempts, Cycle, Take, Rests, Refused
    <2>4. events' \in Seq(Signal)
      <3>1. PICK q : q = <<StateChanged(s, "connecting")>>
        OBVIOUS
      <3>2. q \in Seq(Signal)
        BY <1>0, <1>b, <1>10, <3>1, Signals DEF Working, Request, OnStart, States
      <3> QED  BY <1>0, <1>10, <3>1, <3>2, Emitted DEF OnStart
    <2>5. calls' \in [Session -> Seq(Call)]
      BY <1>0, <1>c, <1>10 DEF OnStart, Take
    <2> QED  BY <1>0, <1>a, <1>10, <2>1, <2>2, <2>3, <2>4, <2>5, OneSession DEF OnStart, Cycle
  <1>11. CASE OnRequestList(s)
    <2>1. PICK r : r = [id |-> Head(calls[s]).id, path |-> Head(calls[s]).path]
      OBVIOUS
    <2>2. calls[s] # << >> /\ Head(calls[s]).slot = "list" /\ Head(calls[s]) \in Call
      BY <1>d, <1>11 DEF OnRequestList, Take
    <2>3. r \in Request /\ r.id # 0 /\ Fits(r.id, r.path)
      BY <2>1, <2>2 DEF Call, Request
    <2>4. /\ calls' \in [Session -> Seq(Call)]
          /\ UNCHANGED <<login, stopping, wired, asked, serverVars>>
      BY <1>0, <1>c, <1>11 DEF OnRequestList, Take
    <2>5. CASE UNCHANGED ses /\ (UNCHANGED events \/ Emit(s, <<ListFailed(s, r)>>))
      <3>1. PICK q : q = <<ListFailed(s, r)>>
        OBVIOUS
      <3>2. q \in Seq(Signal)
        BY <2>3, <3>1, Signals
      <3>3. events' \in Seq(Signal)
        BY <1>0, <2>5, <3>1, <3>2, Emitted
      <3>4. ses' = [ses EXCEPT ![s] = ses[s]]
        BY <1>a, <2>5
      <3> QED  BY <1>0, <1>a, <2>4, <3>3, <3>4, OneSession
    <2>6. CASE /\ ses[s].state = "connected" /\ s \notin stopping
               /\ ses' = [ses EXCEPT ![s] = [ses[s] EXCEPT !.job = r, !.doing = "list"]] /\ UNCHANGED events
      <3>1. PICK w : w = [ses[s] EXCEPT !.job = r, !.doing = "list"]
        OBVIOUS
      <3>2. w \in SessionRecord
        BY <1>b, <1>e, <2>3, <3>1 DEF SessionRecord, Doing
      <3>3. Healthy(w, s \in stopping, asked[s]) /\ Working(w)
        BY <1>0, <1>b, <1>11, <2>3, <2>6, <3>1 DEF OnRequestList, Take, Healthy, Working, Lists, Cycling, MaxAttempts
      <3> QED  BY <1>0, <1>a, <2>4, <2>6, <3>1, <3>2, <3>3, OneSession
    <2>7. CASE /\ ~Rests(ses[s])
               /\ ses' = [ses EXCEPT ![s] = Cycle([ses[s] EXCEPT !.job = r], "list")] /\ UNCHANGED events
      <3>1. PICK w : w = Cycle([ses[s] EXCEPT !.job = r], "list")
        OBVIOUS
      <3>2. w \in SessionRecord
        BY <1>b, <1>e, <2>3, <3>1 DEF SessionRecord, Doing, Cycle
      <3>3. Healthy(w, s \in stopping, asked[s]) /\ Working(w)
        BY <1>0, <1>b, <1>11, <2>3, <2>7, <3>1 DEF OnRequestList, Take, Rests, Cycle, Healthy, Working, Lists, Cycling, MaxAttempts
      <3> QED  BY <1>0, <1>a, <2>4, <2>7, <3>1, <3>2, <3>3, OneSession
    <2>8. PICK v : v = [ses[s] EXCEPT !.job = r]
      OBVIOUS
    <2>9. v.state = ses[s].state /\ (Rests(v) <=> Rests(ses[s])) /\ v.job = r
      BY <1>e, <2>8 DEF SessionRecord, Rests
    <2>10. \/ UNCHANGED ses /\ (UNCHANGED events \/ Emit(s, <<ListFailed(s, r)>>))
           \/ v.state = "connected" /\ s \notin stopping /\ ses' = [ses EXCEPT ![s] = [v EXCEPT !.doing = "list"]] /\ UNCHANGED events
           \/ ~Rests(v) /\ ses' = [ses EXCEPT ![s] = Cycle(v, "list")] /\ UNCHANGED events
      BY <1>11, <2>1, <2>8 DEF OnRequestList
    <2>11. [v EXCEPT !.doing = "list"] = [ses[s] EXCEPT !.job = r, !.doing = "list"]
      BY <2>8
    <2> QED  BY <2>5, <2>6, <2>7, <2>8, <2>9, <2>10, <2>11
  <1>12. CASE Listed(s)
    <2>1. PICK w : w = [ses[s] EXCEPT !.dir = ses[s].job.path, !.doing = "rest"]
      OBVIOUS
    <2>2. w \in SessionRecord
      BY <1>b, <1>e, <1>f, <1>12, <2>1 DEF Listed, SessionRecord, States, Doing, Request, Cycle, Take
    <2>3. Healthy(w, s \in stopping, asked[s]) /\ Working(w)
      BY <1>0, <1>b, <1>12, <2>1 DEF Listed, Healthy, Working, Lists, Cycling, MaxAttempts, Cycle, Take, Rests, Refused
    <2>4. events' \in Seq(Signal)
      <3>1. PICK q : q = <<ListReady(s, ses[s].job.id, ses[s].job.path)>>
        OBVIOUS
      <3>2. q \in Seq(Signal)
        BY <1>0, <1>b, <1>12, <3>1, Signals DEF Working, Request, Listed
      <3> QED  BY <1>0, <1>12, <3>1, <3>2, Emitted DEF Listed
    <2> QED  BY <1>0, <1>a, <1>12, <2>1, <2>2, <2>3, <2>4, OneSession DEF Listed, Cycle
  <1>13. CASE ListDenied(s)
    <2>1. PICK w : w = [ses[s] EXCEPT !.awaiting = TRUE, !.doing = "rest"]
      OBVIOUS
    <2>2. w \in SessionRecord
      BY <1>b, <1>e, <1>f, <1>13, <2>1 DEF ListDenied, SessionRecord, States, Doing, Request, Cycle, Take
    <2>3. Healthy(w, s \in stopping, (IF ses[s].awaiting THEN asked[s] ELSE asked[s] + 1)) /\ Working(w)
      BY <1>0, <1>b, <1>13, <2>1 DEF ListDenied, Healthy, Working, Lists, Cycling, MaxAttempts, Cycle, Take, Rests, Refused
    <2>4. events' \in Seq(Signal)
      <3>1. PICK q, r : q = (IF ses[s].awaiting THEN << >> ELSE <<AuthRequired(s)>>) /\ r = <<ListFailed(s, ses[s].job)>>
        OBVIOUS
      <3>2. q \in Seq(Signal) /\ r \in Seq(Signal)
        BY <1>b, <3>1, Signals
      <3>3. q \o r \in Seq(Signal)
        BY <3>2, ConcatProperties
      <3> QED  BY <1>0, <1>13, <3>1, <3>3, Emitted DEF ListDenied
    <2> QED  BY <1>0, <1>a, <1>13, <2>1, <2>2, <2>3, <2>4, OneSession DEF ListDenied, Cycle
  <1>14. CASE ListLost(s) /\ trait[s] = "denies"
    <2>1. PICK w : w = [ses[s] EXCEPT !.doing = "rest"]
      OBVIOUS
    <2>2. w \in SessionRecord
      BY <1>b, <1>e, <1>f, <1>14, <2>1 DEF ListLost, SessionRecord, States, Doing, Request, Cycle, Take
    <2>3. Healthy(w, s \in stopping, asked[s]) /\ Working(w)
      BY <1>0, <1>b, <1>14, <2>1 DEF ListLost, Healthy, Working, Lists, Cycling, MaxAttempts, Cycle, Take, Rests, Refused
    <2>4. events' \in Seq(Signal)
      <3>1. PICK q : q = <<ListFailed(s, ses[s].job)>>
        OBVIOUS
      <3>2. q \in Seq(Signal)
        BY <1>0, <1>b, <1>14, <3>1, Signals DEF Working, Request, ListLost
      <3> QED  BY <1>0, <1>14, <3>1, <3>2, Emitted DEF ListLost
    <2> QED  BY <1>0, <1>a, <1>14, <2>1, <2>2, <2>3, <2>4, OneSession DEF ListLost, Cycle
  <1>15. CASE ListLost(s) /\ trait[s] # "denies"
    <2>1. PICK w : w = Cycle(ses[s], "relist")
      OBVIOUS
    <2>2. w \in SessionRecord
      BY <1>b, <1>e, <1>f, <1>15, <2>1 DEF ListLost, SessionRecord, States, Doing, Request, Cycle, Take
    <2>3. Healthy(w, s \in stopping, asked[s]) /\ Working(w)
      BY <1>0, <1>b, <1>15, <2>1 DEF ListLost, Healthy, Working, Lists, Cycling, MaxAttempts, Cycle, Take, Rests, Refused
    <2>4. events' \in Seq(Signal)
      BY <1>0, <1>15 DEF ListLost
    <2> QED  BY <1>0, <1>a, <1>15, <2>1, <2>2, <2>3, <2>4, OneSession DEF ListLost, Cycle
  <1>16. CASE Relist(s)
    <2>1. PICK w : w = [ses[s] EXCEPT !.dir = ses[s].job.path, !.doing = "rest"]
      OBVIOUS
    <2>2. w \in SessionRecord
      BY <1>b, <1>e, <1>f, <1>16, <2>1 DEF Relist, SessionRecord, States, Doing, Request, Cycle, Take
    <2>3. Healthy(w, s \in stopping, asked[s]) /\ Working(w)
      BY <1>0, <1>b, <1>16, <2>1 DEF Relist, Healthy, Working, Lists, Cycling, MaxAttempts, Cycle, Take, Rests, Refused
    <2>4. events' \in Seq(Signal)
      <3>1. PICK q : q = <<ListReady(s, ses[s].job.id, ses[s].job.path)>>
        OBVIOUS
      <3>2. q \in Seq(Signal)
        BY <1>0, <1>b, <1>16, <3>1, Signals DEF Working, Request, Relist
      <3> QED  BY <1>0, <1>16, <3>1, <3>2, Emitted DEF Relist
    <2> QED  BY <1>0, <1>a, <1>16, <2>1, <2>2, <2>3, <2>4, OneSession DEF Relist, Cycle
  <1>17. CASE Refresh(s)
    <2>1. PICK w : w = [ses[s] EXCEPT !.doing = "rest"]
      OBVIOUS
    <2>2. w \in SessionRecord
      BY <1>b, <1>e, <1>f, <1>17, <2>1 DEF Refresh, SessionRecord, States, Doing, Request, Cycle, Take
    <2>3. Healthy(w, s \in stopping, asked[s]) /\ Working(w)
      BY <1>0, <1>b, <1>17, <2>1 DEF Refresh, Healthy, Working, Lists, Cycling, MaxAttempts, Cycle, Take, Rests, Refused
    <2>4. events' \in Seq(Signal)
      <3>1. Fits(0, ses[s].dir)
        BY <1>0, <1>b DEF TabsInv, Fits
      <3>2. PICK q : q = <<ListReady(s, 0, ses[s].dir)>>
        OBVIOUS
      <3>3. q \in Seq(Signal)
        BY <3>1, <3>2, Signals
      <3> QED  BY <1>0, <1>17, <3>2, <3>3, Emitted DEF Refresh
    <2> QED  BY <1>0, <1>a, <1>17, <2>1, <2>2, <2>3, <2>4, OneSession DEF Refresh, Cycle
  <1>18. CASE OnRetry(s) /\ s \in stopping
    <2>1. PICK w : w = ses[s]
      OBVIOUS
    <2>2. w \in SessionRecord
      BY <1>b, <1>e, <1>f, <1>18, <2>1 DEF OnRetry, SessionRecord, States, Doing, Request, Cycle, Take
    <2>3. Healthy(w, s \in stopping, asked[s]) /\ Working(w)
      BY <1>0, <1>b, <1>18, <2>1 DEF OnRetry, Healthy, Working, Lists, Cycling, MaxAttempts, Cycle, Take, Rests, Refused
    <2>4. events' \in Seq(Signal)
      BY <1>0, <1>18 DEF OnRetry
    <2>5. calls' \in [Session -> Seq(Call)]
      BY <1>0, <1>c, <1>18 DEF OnRetry, Take
    <2> QED  BY <1>0, <1>a, <1>18, <2>1, <2>2, <2>3, <2>4, <2>5, OneSession DEF OnRetry, Cycle
  <1>19. CASE OnRetry(s) /\ s \notin stopping
    <2>1. PICK w : w = Cycle([ses[s] EXCEPT !.awaiting = FALSE], "refresh")
      OBVIOUS
    <2>2. w \in SessionRecord
      BY <1>b, <1>e, <1>f, <1>19, <2>1 DEF OnRetry, SessionRecord, States, Doing, Request, Cycle, Take
    <2>3. Healthy(w, s \in stopping, 0) /\ Working(w)
      BY <1>0, <1>b, <1>19, <2>1 DEF OnRetry, Healthy, Working, Lists, Cycling, MaxAttempts, Cycle, Take, Rests, Refused
    <2>4. events' \in Seq(Signal)
      BY <1>0, <1>19 DEF OnRetry
    <2>5. calls' \in [Session -> Seq(Call)]
      BY <1>0, <1>c, <1>19 DEF OnRetry, Take
    <2> QED  BY <1>0, <1>a, <1>19, <2>1, <2>2, <2>3, <2>4, <2>5, OneSession DEF OnRetry, Cycle
  <1>20. CASE OnRetryWith(s) /\ s \in stopping
    <2>1. PICK w : w = ses[s]
      OBVIOUS
    <2>2. w \in SessionRecord
      BY <1>b, <1>e, <1>f, <1>20, <2>1 DEF OnRetryWith, SessionRecord, States, Doing, Request, Cycle, Take
    <2>3. Healthy(w, s \in stopping, asked[s]) /\ Working(w)
      BY <1>0, <1>b, <1>20, <2>1 DEF OnRetryWith, Healthy, Working, Lists, Cycling, MaxAttempts, Cycle, Take, Rests, Refused
    <2>4. events' \in Seq(Signal)
      BY <1>0, <1>20 DEF OnRetryWith
    <2>5. calls' \in [Session -> Seq(Call)]
      BY <1>0, <1>c, <1>20 DEF OnRetryWith, Take
    <2> QED  BY <1>0, <1>a, <1>20, <2>1, <2>2, <2>3, <2>4, <2>5, OneSession DEF OnRetryWith, Cycle
  <1>21. CASE OnRetryWith(s) /\ s \notin stopping
    <2>1. PICK w : w = Cycle([ses[s] EXCEPT !.ever = FALSE, !.awaiting = FALSE], "rest")
      OBVIOUS
    <2>2. w \in SessionRecord
      BY <1>b, <1>e, <1>f, <1>21, <2>1 DEF OnRetryWith, SessionRecord, States, Doing, Request, Cycle, Take
    <2>3. Healthy(w, s \in stopping, 0) /\ Working(w)
      BY <1>0, <1>b, <1>21, <2>1 DEF OnRetryWith, Healthy, Working, Lists, Cycling, MaxAttempts, Cycle, Take, Rests, Refused
    <2>4. events' \in Seq(Signal)
      BY <1>0, <1>21 DEF OnRetryWith
    <2>5. calls' \in [Session -> Seq(Call)]
      BY <1>0, <1>c, <1>21 DEF OnRetryWith, Take
    <2> QED  BY <1>0, <1>a, <1>21, <2>1, <2>2, <2>3, <2>4, <2>5, OneSession DEF OnRetryWith, Cycle
  <1>22. CASE OnHeartbeat(s)
    <2>1. PICK w : w = Cycle(ses[s], "refresh")
      OBVIOUS
    <2>2. w \in SessionRecord
      BY <1>b, <1>e, <1>f, <1>22, <2>1 DEF OnHeartbeat, SessionRecord, States, Doing, Request, Cycle, Take
    <2>3. Healthy(w, s \in stopping, asked[s]) /\ Working(w)
      BY <1>0, <1>b, <1>22, <2>1 DEF OnHeartbeat, Healthy, Working, Lists, Cycling, MaxAttempts, Cycle, Take, Rests, Refused
    <2>4. events' \in Seq(Signal)
      BY <1>0, <1>22 DEF OnHeartbeat
    <2> QED  BY <1>0, <1>a, <1>22, <2>1, <2>2, <2>3, <2>4, OneSession DEF OnHeartbeat, Cycle
  <1>23. CASE Deleted(s)
    <2>1. PICK w : w = [ses[s] EXCEPT !.doing = "gone"]
      OBVIOUS
    <2>2. w \in SessionRecord
      BY <1>b, <1>e, <1>f, <1>23, <2>1 DEF Deleted, SessionRecord, States, Doing, Request, Cycle, Take
    <2>3. Healthy(w, s \in stopping, asked[s]) /\ Working(w)
      BY <1>0, <1>b, <1>23, <2>1 DEF Deleted, Healthy, Working, Lists, Cycling, MaxAttempts, Cycle, Take, Rests, Refused
    <2>4. events' \in Seq(Signal)
      BY <1>0, <1>23 DEF Deleted
    <2>5. calls' \in [Session -> Seq(Call)]
      BY <1>0, <1>23 DEF Deleted
    <2> QED  BY <1>0, <1>a, <1>23, <2>1, <2>2, <2>3, <2>4, <2>5, OneSession DEF Deleted, Cycle
  <1> QED
    BY <1>1, <1>2, <1>3, <1>4, <1>5, <1>6, <1>7, <1>8, <1>9, <1>10, <1>11, <1>12,
       <1>13, <1>14, <1>15, <1>16, <1>17, <1>18, <1>19, <1>20, <1>21, <1>22, <1>23
    DEF Work, Attempt, DialFails, Backoff

-----------------------------------------------------------------------------
(* The view                                                                *)

\* What the panel's variables have to be.
Shell ==
  /\ tabs \in Seq(Tab) /\ active \in 1 .. Len(tabs) /\ cur \in Session \cup {NoSession}
  /\ reqId \in Nat /\ root \in Path /\ scan \in Path \cup {NoPath}
  /\ shown \in [from : Session \cup {NoSession}, path : Path \cup {NoPath}]
  /\ loading \in BOOLEAN /\ relist \in BOOLEAN /\ loginLink \in BOOLEAN
  /\ status \in States \cup {"none", "login"} /\ prompts \in Nat /\ requests \in 0 .. MaxRequests

\* A step either numbers a new request, or shows a local directory, or goes nowhere.
Moved == reqId' = reqId + 1 \/ (reqId' = reqId /\ (cur' = NoSession \/ (cur' = cur /\ root' = root)))

LEMMA Moves ==
  ASSUME reqId \in Nat, Moved
  PROVE  /\ \A id, p : Fits(id, p) => Fits(id, p)'
         /\ Seq(Call) \subseteq Seq(Call') /\ Seq(Signal) \subseteq Seq(Signal')
  <1>1. ASSUME NEW id, NEW p, Fits(id, p) PROVE Fits(id, p)'
    BY <1>1 DEF Fits, Moved
  <1>2. Call \subseteq Call' /\ Signal \subseteq Signal'
    BY <1>1 DEF Call, Signal
  <1> QED  BY <1>1, <1>2, Wider

LEMMA ShellTyped == TabsInv => Shell
  <1> SUFFICES ASSUME TabsInv PROVE Shell
    OBVIOUS
  <1>1. loading \in BOOLEAN /\ relist \in BOOLEAN /\ loginLink \in BOOLEAN
    BY DEF TabsInv, TypeOK
  <1> QED  BY <1>1 DEF TabsInv, TypeOK, Shell

\* setRootPath() asks for a directory of the new tab, or shows a local one.
LEMMA Loaded ==
  ASSUME TabsInv, NEW p \in Path, NEW t \in Session \cup {NoSession}, NEW x \in [Session -> Seq(Call)],
         Load(p, t, x), cur' = t
  PROVE  /\ Moved /\ root' = p /\ reqId' \in Nat /\ scan' \in Path \cup {NoPath} /\ loading' \in BOOLEAN
         /\ shown' \in [from : Session \cup {NoSession}, path : Path \cup {NoPath}]
         /\ calls' \in [Session -> Seq(Call')]
  <1>1. Shell
    BY ShellTyped
  <1>2. CASE t = NoSession
    <2>1. UNCHANGED <<reqId, shown>> /\ root' = p /\ scan' = p /\ loading' = TRUE /\ calls' = x
      BY <1>2 DEF Load
    <2>2. Moved
      BY <1>2, <2>1 DEF Moved
    <2>3. calls' \in [Session -> Seq(Call')]
      BY <1>1, <2>1, <2>2, Moves DEF Shell
    <2> QED  BY <1>1, <2>1, <2>2, <2>3 DEF Shell
  <1>3. CASE t # NoSession
    <2>1. /\ root' = p /\ scan' = NoPath /\ reqId' = reqId + 1
          /\ calls' = [x EXCEPT ![t] = Append(@, List(reqId', p))]
          /\ loading' \in BOOLEAN /\ (shown' = shown \/ shown' = Blank)
      BY <1>3 DEF Load
    <2>2. Moved /\ t \in Session
      BY <1>3, <2>1 DEF Moved
    <2>3. List(reqId', p) \in Call'
      BY <1>1, <2>1 DEF Shell, List, Call, Fits
    <2>4. x[t] \in Seq(Call') /\ x \in [Session -> Seq(Call')]
      BY <1>1, <2>2, Moves DEF Shell
    <2>5. Append(x[t], List(reqId', p)) \in Seq(Call')
      BY <2>3, <2>4, AppendProperties
    <2>6. calls' \in [Session -> Seq(Call')]
      BY <2>1, <2>2, <2>4, <2>5
    <2> QED  BY <1>1, <2>1, <2>2, <2>6 DEF Shell, Blank
  <1> QED  BY <1>2, <1>3

\* A step of the panel: it may stop sessions, and disturbs none.
LEMMA PanelStep ==
  ASSUME TabsInv, Moved, Shell', calls' \in [Session -> Seq(Call')],
         events' \in Seq(Signal) \/ events' \in Seq(Signal'),
         ses' \in [Session -> SessionRecord],
         \A s \in Session : Healthy(ses'[s], s \in stopping, asked[s]) /\ Working(ses'[s]),
         login' \in [Session -> Credentials], wired' \subseteq Session,
         stopping \subseteq stopping', stopping' \subseteq Session, UNCHANGED <<asked, serverVars>>
  PROVE  TabsInv'
  <1>1. reqId \in Nat /\ link \subseteq reach /\ asked \in [Session -> {0, 1}]
    BY DEF TabsInv, TypeOK
  <1>2. events' \in Seq(Signal')
    BY <1>1, Moves
  <1>3. ASSUME NEW s \in Session
        PROVE  /\ Healthy(ses'[s], s \in stopping', asked'[s]) /\ Working(ses[s])'
               /\ ses'[s].tries \in 0 .. MaxAttempts(ses'[s])
    <2>1. Healthy(ses'[s], s \in stopping, asked[s]) /\ Working(ses'[s]) /\ ses'[s] \in SessionRecord
      OBVIOUS
    <2>2. Healthy(ses'[s], s \in stopping', asked'[s])
      BY <2>1 DEF Healthy
    <2>3. Working(ses[s])'
      BY <1>1, <2>1, Moves DEF Working
    <2>4. ses'[s].tries \in 0 .. MaxAttempts(ses'[s])
      BY <2>1 DEF Healthy, SessionRecord, MaxAttempts
    <2> QED  BY <2>2, <2>3, <2>4
  <1>5. ({loading, relist, loginLink} \subseteq BOOLEAN)'
    BY DEF Shell
  <1>6. \A n \in 1 .. Len(tabs') :
          tabs'[n] \in [path : Path, session : Session \cup {NoSession}, server : Session \cup {NoSession}]
    BY ElementOfSeq DEF Shell, Tab
  <1>4. TypeOK'
    BY <1>1, <1>3, <1>5, <1>6 DEF TypeOK, Shell, serverVars
  <1> QED  BY <1>1, <1>2, <1>3, <1>4 DEF TabsInv, Shell

LEMMA Removed ==
  ASSUME NEW q \in Seq(Tab), NEW n \in 1 .. Len(q)
  PROVE  RemoveAt(q, n) \in Seq(Tab) /\ Len(RemoveAt(q, n)) = Len(q) - 1
  <1>1. Len(q) \in Nat /\ n \in 1 .. Len(q)
    BY LenProperties
  <1>2. \A i \in 1 .. Len(q) : q[i] \in Tab
    BY ElementOfSeq
  <1>3. PICK a, b : a = SubSeq(q, 1, n - 1) /\ b = SubSeq(q, n + 1, Len(q))
    OBVIOUS
  <1>4. a \in Seq(Tab) /\ Len(a) = n - 1
    <2>1. n - 1 \in Int /\ 1 \in Int /\ \A i \in 1 .. n - 1 : q[i] \in Tab
      BY <1>1, <1>2
    <2>2. SubSeq(q, 1, n - 1) \in Seq(Tab) /\ Len(SubSeq(q, 1, n - 1)) = IF 1 <= n - 1 THEN n - 1 - 1 + 1 ELSE 0
      BY <2>1, SubSeqProperties
    <2> QED  BY <1>1, <1>3, <2>2
  <1>5. b \in Seq(Tab) /\ Len(b) = Len(q) - n
    <2>1. n + 1 \in Int /\ Len(q) \in Int /\ \A i \in n + 1 .. Len(q) : q[i] \in Tab
      BY <1>1, <1>2
    <2>2. SubSeq(q, n + 1, Len(q)) \in Seq(Tab)
          /\ Len(SubSeq(q, n + 1, Len(q))) = IF n + 1 <= Len(q) THEN Len(q) - (n + 1) + 1 ELSE 0
      BY <2>1, SubSeqProperties
    <2> QED  BY <1>1, <1>3, <2>2
  <1>6. a \o b \in Seq(Tab) /\ Len(a \o b) = Len(a) + Len(b)
    BY <1>4, <1>5, ConcatProperties
  <1>7. RemoveAt(q, n) = a \o b
    BY <1>3 DEF RemoveAt
  <1>8. (n - 1) + (Len(q) - n) = Len(q) - 1
    BY <1>1
  <1>9. Len(a \o b) = Len(q) - 1
    BY <1>4, <1>5, <1>6, <1>8
  <1> QED  BY <1>6, <1>7, <1>9

LEMMA ParkedTyped ==
  ASSUME Shell
  PROVE  /\ Parked \in Seq(Tab) /\ Len(Parked) = Len(tabs) /\ Len(tabs) \in Nat
         /\ \A p \in Path : /\ [tabs EXCEPT ![active].path = p] \in Seq(Tab)
                            /\ Len([tabs EXCEPT ![active].path = p]) = Len(tabs)
  <1>1. tabs[active] \in Tab /\ tabs \in Seq(Tab) /\ DOMAIN tabs = 1 .. Len(tabs) /\ Len(tabs) \in Nat
    BY ElementOfSeq, LenProperties DEF Shell
  <1>2. ASSUME NEW t \in Tab PROVE [tabs EXCEPT ![active] = t] \in Seq(Tab) /\ Len([tabs EXCEPT ![active] = t]) = Len(tabs)
    BY <1>1, ExceptSeq DEF Shell
  <1>3. ASSUME NEW p \in Path PROVE [tabs[active] EXCEPT !.path = p] \in Tab
    BY <1>1 DEF Tab
  <1>4. [tabs[active] EXCEPT !.path = root, !.session = cur] \in Tab
    BY <1>1 DEF Tab, Shell
  <1>5. Parked = [tabs EXCEPT ![active] = [tabs[active] EXCEPT !.path = root, !.session = cur]]
    BY <1>1 DEF Parked, Shell
  <1>6. \A p : [tabs EXCEPT ![active].path = p] = [tabs EXCEPT ![active] = [tabs[active] EXCEPT !.path = p]]
    OBVIOUS
  <1> QED  BY <1>1, <1>2, <1>3, <1>4, <1>5, <1>6

\* The user's clicks.
LEMMA UserStep ==
  ASSUME TabsInv, User
  PROVE  TabsInv'
  <1> USE DEF MayAct, Attach, tabVars, viewVars, promptVars
  <1>0. /\ TypeOK /\ Shell /\ calls \in [Session -> Seq(Call)] /\ events \in Seq(Signal)
        /\ ses \in [Session -> SessionRecord] /\ login \in [Session -> Credentials]
        /\ \A s \in Session : Healthy(ses[s], s \in stopping, asked[s]) /\ Working(ses[s])
        /\ stopping \subseteq Session /\ wired \subseteq Session
    BY ShellTyped DEF TabsInv, TypeOK
  <1>a. /\ Parked \in Seq(Tab) /\ Len(Parked) = Len(tabs) /\ Len(tabs) \in Nat
        /\ \A p \in Path : /\ [tabs EXCEPT ![active].path = p] \in Seq(Tab)
                           /\ Len([tabs EXCEPT ![active].path = p]) = Len(tabs)
    BY <1>0, ParkedTyped
  <1>b. \A n \in 1 .. Len(tabs) : tabs[n] \in Tab /\ tabs[n].path \in Path /\ tabs[n].session \in Session \cup {NoSession}
    <2>1. ASSUME NEW n \in 1 .. Len(tabs) PROVE tabs[n] \in Tab
      BY <1>0, ElementOfSeq DEF Shell
    <2>2. ASSUME NEW t \in Tab PROVE t.path \in Path /\ t.session \in Session \cup {NoSession}
      BY DEF Tab
    <2> QED  BY <2>1, <2>2
  <1>c. \A s \in Session : ses[s].state \in States
    BY <1>0 DEF SessionRecord
  <1>d. requests < MaxRequests /\ requests' = requests + 1 => requests' \in 0 .. MaxRequests
    BY <1>0, HomeAssumption DEF Shell, HomeAssumption
  <1>e. Home \in Path
    BY HomeAssumption DEF HomeAssumption
  <1>1. ASSUME NEW p \in Path, Navigate(p) PROVE TabsInv'
    <2>1. Load(p, cur, calls) /\ cur' = cur /\ cur \in Session \cup {NoSession}
      BY <1>0, <1>1 DEF Navigate, Shell
    <2>2. /\ Moved /\ root' = p /\ reqId' \in Nat /\ scan' \in Path \cup {NoPath} /\ loading' \in BOOLEAN
          /\ shown' \in [from : Session \cup {NoSession}, path : Path \cup {NoPath}]
          /\ calls' \in [Session -> Seq(Call')]
      BY <1>0, <1>1, <2>1, Loaded
    <2>3. Shell'
      BY <1>0, <1>1, <1>a, <1>d, <2>2 DEF Navigate, Shell
    <2> QED  BY <1>0, <1>1, <2>2, <2>3, PanelStep DEF Navigate
  <1>2. ASSUME NEW n \in 1 .. Len(tabs), SwitchTab(n) PROVE TabsInv'
    <2>1. PICK p, t : p = tabs[n].path /\ t = tabs[n].session
      OBVIOUS
    <2>2. p \in Path /\ t \in Session \cup {NoSession} /\ Load(p, t, calls) /\ cur' = t
      BY <1>2, <1>b, <2>1 DEF SwitchTab
    <2>3. /\ Moved /\ root' = p /\ reqId' \in Nat /\ scan' \in Path \cup {NoPath} /\ loading' \in BOOLEAN
          /\ shown' \in [from : Session \cup {NoSession}, path : Path \cup {NoPath}]
          /\ calls' \in [Session -> Seq(Call')]
      BY <1>0, <2>2, Loaded
    <2>4. tabs' = Parked /\ active' = n /\ relist' = FALSE /\ prompts' = prompts
          /\ loginLink' \in BOOLEAN /\ status' \in States \cup {"none", "login"}
      BY <1>2, <1>c, <2>1, <2>2 DEF SwitchTab
    <2>5. Shell'
      BY <1>0, <1>2, <1>a, <1>d, <2>2, <2>3, <2>4 DEF SwitchTab, Shell
    <2>6. wired' \subseteq Session
      BY <1>0, <1>2, <2>1, <2>2 DEF SwitchTab
    <2> QED  BY <1>0, <1>2, <2>3, <2>5, <2>6, PanelStep DEF SwitchTab
  <1>3. CASE NewTab
    <2>1. PICK p : p = IF cur = NoSession THEN root ELSE Home
      OBVIOUS
    <2>2. p \in Path /\ Load(p, NoSession, calls) /\ cur' = NoSession
      BY <1>0, <1>3, <1>e, <2>1 DEF NewTab, Shell
    <2>3. /\ Moved /\ root' = p /\ reqId' \in Nat /\ scan' \in Path \cup {NoPath} /\ loading' \in BOOLEAN
          /\ shown' \in [from : Session \cup {NoSession}, path : Path \cup {NoPath}]
          /\ calls' \in [Session -> Seq(Call')]
      BY <1>0, <2>2, Loaded
    <2>4. PICK t : t = [path |-> p, session |-> NoSession, server |-> NoSession]
      OBVIOUS
    <2>5. t \in Tab /\ tabs' = Append(Parked, t) /\ active' = Len(tabs')
      BY <1>3, <2>1, <2>2, <2>4 DEF NewTab, Tab
    <2>6. tabs' \in Seq(Tab) /\ active' \in 1 .. Len(tabs')
      BY <1>a, <2>5, AppendProperties
    <2>7. Shell'
      BY <1>0, <1>3, <1>d, <2>2, <2>3, <2>6 DEF NewTab, Shell
    <2> QED  BY <1>0, <1>3, <2>3, <2>7, PanelStep DEF NewTab
  <1>4. ASSUME NEW s \in Session, NEW p \in Path, OpenServer(s, p) PROVE TabsInv'
    <2>1. PICK x : x = Post(s, [slot |-> "start"])
      OBVIOUS
    <2>2. x \in [Session -> Seq(Call)]
      <3>1. [slot |-> "start"] \in Call
        BY DEF Call
      <3>2. Append(calls[s], [slot |-> "start"]) \in Seq(Call)
        BY <1>0, <3>1, AppendProperties
      <3> QED  BY <1>0, <2>1, <3>2 DEF Post
    <2>3. Load(p, s, x) /\ cur' = s
      BY <1>4, <2>1 DEF OpenServer
    <2>4. /\ Moved /\ root' = p /\ reqId' \in Nat /\ scan' \in Path \cup {NoPath} /\ loading' \in BOOLEAN
          /\ shown' \in [from : Session \cup {NoSession}, path : Path \cup {NoPath}]
          /\ calls' \in [Session -> Seq(Call')]
      BY <1>0, <2>2, <2>3, Loaded
    <2>5. PICK t : t = [path |-> p, session |-> NoSession, server |-> s]
      OBVIOUS
    <2>6. t \in Tab /\ tabs' = Append(Parked, t) /\ active' = Len(tabs')
      BY <1>4, <2>5 DEF OpenServer, Tab
    <2>7. tabs' \in Seq(Tab) /\ active' \in 1 .. Len(tabs')
      BY <1>a, <2>6, AppendProperties
    <2>8. Shell'
      BY <1>0, <1>4, <1>d, <2>3, <2>4, <2>7 DEF OpenServer, Shell
    <2>9. PICK w : w = [ses[s] EXCEPT !.doing = "rest", !.dir = p]
      OBVIOUS
    <2>10. w \in SessionRecord
      <3>1. ses[s] \in SessionRecord /\ "rest" \in Doing
        BY <1>0 DEF Doing
      <3> QED  BY <2>9, <3>1 DEF SessionRecord
    <2>11. ses' = [ses EXCEPT ![s] = w] /\ ses[s] \in SessionRecord /\ ses[s].doing = "unborn"
      BY <1>0, <1>4, <2>9 DEF OpenServer, Become
    <2>12. Healthy(w, s \in stopping, asked[s]) /\ Working(w)
      BY <1>0, <2>9, <2>11 DEF Healthy, Working, Lists, Cycling, MaxAttempts, SessionRecord
    <2>13. ses' \in [Session -> SessionRecord]
           /\ \A y \in Session : Healthy(ses'[y], y \in stopping, asked[y]) /\ Working(ses'[y])
      <3>1. ASSUME NEW y \in Session PROVE Healthy(ses'[y], y \in stopping, asked[y]) /\ Working(ses'[y])
        <4>1. CASE y = s
          BY <1>0, <2>11, <2>12, <4>1
        <4>2. CASE y # s
          BY <1>0, <2>11, <4>2
        <4> QED  BY <4>1, <4>2
      <3> QED  BY <1>0, <2>10, <2>11, <3>1
    <2> QED  BY <1>0, <1>4, <2>4, <2>8, <2>13, PanelStep DEF OpenServer
  <1>5. ASSUME NEW n \in 1 .. Len(tabs), CloseTab(n) PROVE TabsInv'
    <2>1. /\ tabs' = RemoveAt(tabs, n) /\ Len(tabs) > 1 /\ active' = ActiveAfterClose
          /\ Len(tabs') = Len(tabs) - 1 /\ tabs' \in Seq(Tab)
      BY <1>0, <1>5, Removed DEF CloseTab, Shell
    <2>2. active' \in 1 .. Len(tabs')
      BY <1>0, <1>a, <2>1 DEF ActiveAfterClose, Shell
    <2>3. PICK p, t : p = tabs'[active'].path /\ t = tabs'[active'].session
      OBVIOUS
    <2>4. p \in Path /\ t \in Session \cup {NoSession}
      <3>1. tabs'[active'] \in Tab
        BY <2>1, <2>2, ElementOfSeq
      <3> QED  BY <2>3, <3>1 DEF Tab
    <2>5. /\ Load(p, t, calls) /\ cur' = t /\ relist' = FALSE /\ prompts' = prompts
          /\ loginLink' \in BOOLEAN /\ status' \in States \cup {"none", "login"} /\ wired' \subseteq Session
      BY <1>0, <1>5, <1>c, <2>3, <2>4 DEF CloseTab
    <2>6. /\ Moved /\ root' = p /\ reqId' \in Nat /\ scan' \in Path \cup {NoPath} /\ loading' \in BOOLEAN
          /\ shown' \in [from : Session \cup {NoSession}, path : Path \cup {NoPath}]
          /\ calls' \in [Session -> Seq(Call')]
      BY <1>0, <2>4, <2>5, Loaded
    <2>7. Shell'
      BY <1>0, <1>5, <1>d, <2>1, <2>2, <2>4, <2>5, <2>6 DEF CloseTab, Shell
    <2>8. stopping \subseteq stopping' /\ stopping' \subseteq Session
      BY <1>0, <1>5 DEF CloseTab, DropUnowned
    <2> QED  BY <1>0, <1>5, <2>5, <2>6, <2>7, <2>8, PanelStep DEF CloseTab
  <1>6. ASSUME NEW c \in {"right", "wrong"}, Answer(c) PROVE TabsInv'
    <2>1. Moved /\ UNCHANGED viewVars /\ cur' = cur
      BY <1>6 DEF Answer, Moved
    <2>2. calls' \in [Session -> Seq(Call)] /\ login' \in [Session -> Credentials]
      <3>1. [slot |-> "retryWith"] \in Call
        BY DEF Call
      <3>2. ASSUME cur \in Session PROVE Post(cur, [slot |-> "retryWith"]) \in [Session -> Seq(Call)]
        <4>1. Append(calls[cur], [slot |-> "retryWith"]) \in Seq(Call)
          BY <1>0, <3>1, <3>2, AppendProperties
        <4> QED  BY <1>0, <3>2, <4>1 DEF Post
      <3>3. c \in Credentials
        BY <1>6 DEF Credentials
      <3>4. calls' \in [Session -> Seq(Call)]
        BY <1>0, <1>6, <3>2 DEF Answer, Shell
      <3>5. login' \in [Session -> Credentials]
        BY <1>0, <1>6, <3>3 DEF Answer, Shell
      <3> QED  BY <3>4, <3>5
    <2>3. calls' \in [Session -> Seq(Call')]
      BY <1>0, <2>1, <2>2, Moves DEF Shell
    <2>4. Shell'
      <3>1. prompts' \in Nat
        BY <1>0, <1>6 DEF Answer, Shell
      <3>2. relist' \in BOOLEAN
        BY <1>0, <1>6 DEF Answer, Shell
      <3>3. requests' \in 0 .. MaxRequests /\ UNCHANGED <<tabVars, viewVars, status, loginLink>>
        BY <1>0, <1>6, <1>d DEF Answer, Shell
      <3> QED  BY <1>0, <2>1, <3>1, <3>2, <3>3 DEF Shell
    <2> QED  BY <1>0, <1>6, <2>1, <2>2, <2>3, <2>4, PanelStep DEF Answer
  <1>7. CASE Cancel
    <2>1. Moved
      BY <1>7 DEF Cancel, Moved
    <2>2. Shell'
      BY <1>0, <1>7 DEF Cancel, Shell
    <2>3. calls' \in [Session -> Seq(Call')]
      BY <1>0, <1>7, <2>1, Moves DEF Cancel, Shell, sessionVars
    <2> QED  BY <1>0, <1>7, <2>1, <2>2, <2>3, PanelStep DEF Cancel, sessionVars
  <1>8. CASE ClickLink
    <2>1. Moved
      BY <1>8 DEF ClickLink, Moved
    <2>2. Shell'
      BY <1>0, <1>8, <1>d DEF ClickLink, Shell
    <2>3. calls' \in [Session -> Seq(Call)]
      <3>1. [slot |-> "retry"] \in Call
        BY DEF Call
      <3>2. ASSUME cur \in Session PROVE Post(cur, [slot |-> "retry"]) \in [Session -> Seq(Call)]
        <4>1. Append(calls[cur], [slot |-> "retry"]) \in Seq(Call)
          BY <1>0, <3>1, <3>2, AppendProperties
        <4> QED  BY <1>0, <3>2, <4>1 DEF Post
      <3> QED  BY <1>0, <1>8, <3>2 DEF ClickLink, Shell
    <2>4. calls' \in [Session -> Seq(Call')]
      BY <1>0, <2>1, <2>3, Moves DEF Shell
    <2> QED  BY <1>0, <1>8, <2>1, <2>2, <2>4, PanelStep DEF ClickLink
  <1> QED  BY <1>1, <1>2, <1>3, <1>4, <1>5, <1>6, <1>7, <1>8 DEF User

\* The signals and the local scan.
LEMMA SignalStep ==
  ASSUME TabsInv, Deliver \/ OnScanFinished
  PROVE  TabsInv'
  <1> USE DEF Posted, tabVars, viewVars, promptVars
  <1>0. /\ TypeOK /\ Shell /\ calls \in [Session -> Seq(Call)] /\ events \in Seq(Signal)
        /\ ses \in [Session -> SessionRecord] /\ login \in [Session -> Credentials]
        /\ \A s \in Session : Healthy(ses[s], s \in stopping, asked[s]) /\ Working(ses[s])
        /\ stopping \subseteq Session /\ wired \subseteq Session
    BY ShellTyped DEF TabsInv, TypeOK
  <1>1. events # << >> => Head(events) \in Signal /\ Tail(events) \in Seq(Signal)
    BY <1>0, HeadTailProperties
  <1>2. CASE OnStateChanged
    <2>1. events' \in Seq(Signal) /\ Head(events).is = "state" /\ Head(events) \in Signal
      BY <1>1, <1>2 DEF OnStateChanged
    <2>2. Head(events).state \in States
      BY <2>1 DEF Signal
    <2>3. /\ status' \in States \cup {"none", "login"} /\ loginLink' \in BOOLEAN /\ relist' \in BOOLEAN
          /\ UNCHANGED <<tabs, active, cur, prompts, requests>>
      BY <1>0, <1>2, <2>2 DEF OnStateChanged, Shell
    <2>4. /\ Moved /\ root' \in Path /\ reqId' \in Nat /\ scan' \in Path \cup {NoPath} /\ loading' \in BOOLEAN
          /\ shown' \in [from : Session \cup {NoSession}, path : Path \cup {NoPath}]
          /\ calls' \in [Session -> Seq(Call')]
      <3>1. CASE Load(root, cur, calls)
        <4>1. PICK p, t : p = root /\ t = cur
          OBVIOUS
        <4>2. p \in Path /\ t \in Session \cup {NoSession} /\ Load(p, t, calls) /\ cur' = t
          BY <1>0, <2>3, <3>1, <4>1 DEF Shell
        <4> QED  BY <1>0, <4>2, Loaded
      <3>2. CASE UNCHANGED <<viewVars, calls>>
        <4>1. Moved
          BY <2>3, <3>2 DEF Moved
        <4>2. calls' \in [Session -> Seq(Call')]
          BY <1>0, <3>2, <4>1, Moves DEF Shell
        <4> QED  BY <1>0, <3>2, <4>1, <4>2 DEF Shell
      <3> QED  BY <1>2, <3>1, <3>2 DEF OnStateChanged
    <2>5. Shell'
      BY <1>0, <2>3, <2>4 DEF Shell
    <2> QED  BY <1>0, <1>2, <2>1, <2>4, <2>5, PanelStep DEF OnStateChanged
  <1>3. CASE OnListReady
    <2>1. PICK e : e = Head(events)
      OBVIOUS
    <2>2. /\ e \in Signal /\ e.is = "ready" /\ events' \in Seq(Signal) /\ Mine(e) /\ Current(e)
          /\ shown' = [from |-> e.from, path |-> e.path] /\ root' = e.path /\ loading' = FALSE
          /\ UNCHANGED <<calls, reqId, cur>>
      BY <1>1, <1>3, <2>1 DEF OnListReady
    <2>3. e.from \in Session /\ Fits(e.id, e.path)
      BY <2>2 DEF Signal
    <2>4. root' \in Path /\ (cur = NoSession \/ root' = root)
      BY <1>0, <2>2, <2>3 DEF Current, Fits, Shell
    <2>5. Moved
      BY <2>2, <2>4 DEF Moved
    <2>6. Shell'
      <3>1. e.path \in Path \cup {NoPath}
        BY <2>3 DEF Fits
      <3>2. shown' \in [from : Session \cup {NoSession}, path : Path \cup {NoPath}]
        BY <2>2, <2>3, <3>1
      <3>3. UNCHANGED <<tabVars, scan, promptVars, requests>>
        BY <1>3 DEF OnListReady
      <3> QED  BY <1>0, <2>2, <2>4, <3>2, <3>3 DEF Shell
    <2>7. calls' \in [Session -> Seq(Call')]
      BY <1>0, <2>2, <2>5, Moves DEF Shell
    <2> QED  BY <1>0, <1>3, <2>2, <2>5, <2>6, <2>7, PanelStep DEF OnListReady
  <1>4. CASE OnListFailed
    <2>1. Moved /\ events' \in Seq(Signal)
      BY <1>1, <1>4 DEF OnListFailed, Moved
    <2>2. Shell'
      BY <1>0, <1>4 DEF OnListFailed, Shell
    <2>3. calls' \in [Session -> Seq(Call')]
      BY <1>0, <1>4, <2>1, Moves DEF OnListFailed, Shell
    <2> QED  BY <1>0, <1>4, <2>1, <2>2, <2>3, PanelStep DEF OnListFailed
  <1>5. CASE OnAuthRequired
    <2>1. Moved /\ events' \in Seq(Signal)
      BY <1>1, <1>5 DEF OnAuthRequired, Moved
    <2>2. Shell'
      BY <1>0, <1>5 DEF OnAuthRequired, Shell
    <2>3. calls' \in [Session -> Seq(Call')]
      BY <1>0, <1>5, <2>1, Moves DEF OnAuthRequired, Shell
    <2> QED  BY <1>0, <1>5, <2>1, <2>2, <2>3, PanelStep DEF OnAuthRequired
  <1>6. CASE Ignored
    <2>1. Moved /\ events' \in Seq(Signal)
      BY <1>1, <1>6 DEF Ignored, Moved, guiVars
    <2>2. Shell'
      BY <1>0, <1>6 DEF Ignored, Shell, guiVars
    <2>3. calls' \in [Session -> Seq(Call')]
      BY <1>0, <1>6, <2>1, Moves DEF Ignored, Shell
    <2> QED  BY <1>0, <1>6, <2>1, <2>2, <2>3, PanelStep DEF Ignored
  <1>7. CASE OnScanFinished
    <2>1. Moved
      BY <1>7 DEF OnScanFinished, Moved
    <2>2. /\ scan' = NoPath /\ loading' \in BOOLEAN
          /\ shown' = shown \/ shown' = [from |-> NoSession, path |-> root]
      BY <1>0, <1>7 DEF OnScanFinished, Shell
    <2>3. Shell'
      BY <1>0, <1>7, <2>2 DEF OnScanFinished, Shell
    <2>4. calls' \in [Session -> Seq(Call')]
      BY <1>0, <1>7, <2>1, Moves DEF OnScanFinished, Shell, sessionVars
    <2> QED  BY <1>0, <1>7, <2>1, <2>3, <2>4, PanelStep DEF OnScanFinished, sessionVars
  <1> QED  BY <1>2, <1>3, <1>4, <1>5, <1>6, <1>7 DEF Deliver

\* The network.
LEMMA ServerStep ==
  ASSUME TabsInv, NEW s \in Session, Outage(s) \/ Restored(s), UNCHANGED guiVars
  PROVE  TabsInv'
  <1> USE DEF guiVars, tabVars, viewVars, promptVars, sessionVars
  <1>1. link' \subseteq reach' /\ UNCHANGED sessionVars
    BY DEF TabsInv, TypeOK, Outage, Restored
  <1>2. Call' = Call /\ Signal' = Signal /\ \A w : Fits(w.job.id, w.job.path)' <=> Fits(w.job.id, w.job.path)
    BY DEF Call, Signal, Fits
  <1>3. ASSUME NEW t \in Session PROVE Healthy(ses'[t], t \in stopping', asked'[t]) /\ Working(ses[t])'
    BY <1>1, <1>2 DEF TabsInv, Working
  <1>4. TypeOK'
    BY <1>1 DEF TabsInv, TypeOK
  <1> QED  BY <1>1, <1>2, <1>3, <1>4 DEF TabsInv

LEMMA TabsStep == TabsInv /\ [Next]_vars => TabsInv'
  <1> SUFFICES ASSUME TabsInv, [Next]_vars PROVE TabsInv'
    OBVIOUS
  <1>1. CASE UNCHANGED vars
    <2> USE <1>1 DEF vars, guiVars, tabVars, viewVars, promptVars, sessionVars, serverVars
    <2>1. Call' = Call /\ Signal' = Signal /\ \A w : Fits(w.job.id, w.job.path)' <=> Fits(w.job.id, w.job.path)
      BY DEF Call, Signal, Fits
    <2>2. ASSUME NEW t \in Session PROVE Healthy(ses'[t], t \in stopping', asked'[t]) /\ Working(ses[t])'
      BY <2>1 DEF TabsInv, Working
    <2>3. TypeOK'
      BY DEF TabsInv, TypeOK
    <2> QED  BY <2>1, <2>2, <2>3 DEF TabsInv
  <1>2. CASE Next
    BY <1>2, UserStep, SignalStep, WorkStep, ServerStep DEF Next, Server
  <1> QED  BY <1>1, <1>2

LEMMA TabsAlways == Spec => []TabsInv
  BY TabsInit, TabsStep, PTL DEF Spec

-----------------------------------------------------------------------------
(* What the tabs and their sessions promise                                *)

\* Every variable of the panel and of the sessions has its type: a tab is active, and a
\* cycle never exceeds its attempts (reconnectCycle()).
THEOREM TypeCorrect == Spec => []TypeOK
  <1>1. TabsInv => TypeOK
    BY DEF TabsInv
  <1> QED  BY <1>1, TabsAlways, PTL

\* A session asks for credentials at most once between two acts of the user, however
\* many listings wait behind the question, whatever the heartbeat finds and however
\* often the link breaks (m_awaitingCredentials).
THEOREM PromptsOnce == Spec => []PromptsOncePerAttempt
  <1>1. TabsInv => PromptsOncePerAttempt
    <2> SUFFICES ASSUME TabsInv, NEW s \in Session PROVE asked[s] <= 1
      BY DEF PromptsOncePerAttempt
    <2>1. asked[s] \in {0, 1}
      BY DEF TabsInv
    <2> QED  BY <2>1
  <1> QED  BY <1>1, TabsAlways, PTL

\* On a tab with a server only that server's listings land, of the directory asked for
\* last: none of another tab, none that was overtaken, whatever is parked, adopted,
\* closed or restarted meanwhile (sender() and reqId in onSessionListReady()).
THEOREM ListingsLand == Spec => NetworkListingsLand
  <1>1. ASSUME TabsInv, [Next]_vars, NEW s \in Session, cur = s, cur' = s, shown' # shown, shown' # Blank
        PROVE  shown' = [from |-> s, path |-> root]
    <2> USE DEF tabVars, viewVars, promptVars, guiVars
    <2>0. s # NoSession /\ events \in Seq(Signal)
      BY <1>1, SessionAssumption DEF SessionAssumption, TabsInv
    <2>1. \A p, t, x : Load(p, t, x) => UNCHANGED shown \/ shown' = Blank
      BY DEF Load
    <2>2. ~User /\ ~UNCHANGED vars
      BY <1>1, <2>1 DEF User, Navigate, SwitchTab, NewTab, OpenServer, CloseTab, Answer, Cancel, ClickLink, vars
    <2>3. ~OnScanFinished
      BY <1>1, <2>0 DEF OnScanFinished
    <2>4. ~OnStateChanged /\ ~OnListFailed /\ ~OnAuthRequired /\ ~Ignored
      BY <1>1, <2>1 DEF OnStateChanged, OnListFailed, OnAuthRequired, Ignored
    <2>5. OnListReady
      BY <1>1, <2>2, <2>3, <2>4 DEF Next, Deliver
    <2>6. PICK e : e = Head(events)
      OBVIOUS
    <2>7. /\ e.is = "ready" /\ e \in Signal /\ Mine(e) /\ Current(e) /\ shown' = [from |-> e.from, path |-> e.path]
      BY <2>0, <2>5, <2>6, HeadTailProperties DEF OnListReady, Posted
    <2>8. Fits(e.id, e.path) /\ e.from = s
      BY <1>1, <2>0, <2>7 DEF Signal, Mine, Sender
    <2>9. e.path = root
      BY <1>1, <2>0, <2>7, <2>8 DEF Current, Fits
    <2> QED  BY <2>7, <2>8, <2>9
  <1>2. TabsInv /\ [Next]_vars =>
          [\A s \in Session :
             (cur = s /\ cur' = s /\ shown' # shown /\ shown' # Blank) => shown' = [from |-> s, path |-> root]]_vars
    BY <1>1
  <1> QED  BY <1>2, TabsAlways, PTL DEF Spec, NetworkListingsLand

=============================================================================

--------------------------- MODULE NetworkSession ---------------------------
(***************************************************************************)
(* core/network/NetworkSession.cpp: the worker thread behind one server    *)
(* tab.  Requests are posted to it (calls) and handled one at a time; what *)
(* it emits is posted to the models subscribed at that moment (wired), in  *)
(* one queue of the GUI thread (events).  A connect cycle is bounded, asks *)
(* for credentials instead of dialling in vain, and looks at m_stopping    *)
(* between its steps.                                                      *)
(*                                                                         *)
(* External: the server.  Its trait says whether it wants credentials to   *)
(* connect ("login"), to list ("denies", a backend that reports a          *)
(* ListStatus) or never ("open").  Left out: the wording of errors, the    *)
(* notice of a reused session, the length of the sleeps.                   *)
(***************************************************************************)
EXTENDS Naturals, Sequences

CONSTANTS
  Session,                  \* sessions the user may open
  NoSession,                \* a null session; also "the local file system"
  Path,                     \* directories, local and remote alike
  NoPath,
  Traits,                   \* the kinds of server
  InitialConnectAttempts,   \* kInitialConnectAttempts
  MaxReconnects,            \* kMaxReconnects
  MaxOutages                \* bound: how often a link may go down

ASSUME SessionAssumption == NoSession \notin Session /\ NoPath \notin Path
ASSUME TraitAssumption == Traits \subseteq {"open", "login", "denies"}
ASSUME AttemptAssumption == InitialConnectAttempts \in Nat \ {0} /\ MaxReconnects \in Nat \ {0}
ASSUME OutageAssumption == MaxOutages \in Nat

VARIABLES
  calls,      \* [Session -> Seq]: calls posted to the worker
  ses,        \* [Session -> record]: the members of the session and its program counter
  login,      \* [Session -> credentials]: what m_connectFn carries
  stopping,   \* sessions whose m_stopping is set
  events,     \* signals posted to the GUI thread, oldest first
  wired,      \* sessions the model is subscribed to
  trait,      \* [Session -> Traits]
  reach,      \* servers that can be dialled
  link,       \* sessions whose transport is alive
  outages,
  asked       \* [Session -> Nat]: history, prompts since the user last acted

sessionVars == <<calls, ses, login, stopping, events, wired, asked>>
serverVars == <<trait, reach, link, outages>>

States == {"idle", "connecting", "connected", "reconnecting", "failed"}
Credentials == {"anonymous", "right", "wrong"}

\* "then" is what doing becomes when the connect cycle succeeds.
Doing == {"unborn", "rest", "attempt", "dial", "backoff", "list", "relist", "refresh", "gone"}

Request == [id : Nat, path : Path \cup {NoPath}]
NoRequest == [id |-> 0, path |-> NoPath]

SessionRecord ==
  [state : States, tries : Nat, ever : BOOLEAN, awaiting : BOOLEAN, dir : Path \cup {NoPath},
   user : Credentials, doing : Doing, then : Doing, job : Request]

StateChanged(s, x) == [is |-> "state", from |-> s, state |-> x]
ListReady(s, id, p) == [is |-> "ready", from |-> s, id |-> id, path |-> p]
ListFailed(s, r) == [is |-> "listFailed", from |-> s, id |-> r.id, path |-> r.path]
AuthRequired(s) == [is |-> "auth", from |-> s]

\* A queued signal is posted only to receivers connected when it is emitted.
Emit(s, signals) == events' = IF s \in wired THEN events \o signals ELSE events

Become(s, w) == ses' = [ses EXCEPT ![s] = w]

SessionInit ==
  /\ calls = [s \in Session |-> << >>]
  /\ ses = [s \in Session |->
              [state |-> "idle", tries |-> 0, ever |-> FALSE, awaiting |-> FALSE, dir |-> NoPath,
               user |-> "anonymous", doing |-> "unborn", then |-> "rest", job |-> NoRequest]]
  /\ login = [s \in Session |-> "anonymous"]
  /\ stopping = {} /\ events = << >> /\ wired = {}
  /\ trait \in [Session -> Traits]
  /\ reach = Session /\ link = {} /\ outages = 0
  /\ asked = [s \in Session |-> 0]

-----------------------------------------------------------------------------
(* reconnectCycle()                                                        *)

MaxAttempts(w) == IF w.ever THEN MaxReconnects ELSE InitialConnectAttempts

Cycle(w, then) == [w EXCEPT !.doing = "attempt", !.tries = 1, !.then = then]

\* Mutant: a listing whose reconnect gave up is not answered.
CycleFailsSilently(s, w, signals) ==
  /\ Become(s, [w EXCEPT !.doing = "rest", !.tries = 0])
  /\ Emit(s, signals)

\* The cycle returns false: a listing that waited for it has failed.
CycleFails(s, w, signals) ==
  /\ Become(s, [w EXCEPT !.doing = "rest", !.tries = 0])
  /\ Emit(s, signals \o IF w.then \in {"list", "relist"} THEN <<ListFailed(s, w.job)>> ELSE << >>)

Attempt(s) ==
  LET w == ses[s]
      x == IF w.ever THEN "reconnecting" ELSE "connecting"
  IN  /\ w.doing = "attempt"
      /\ IF s \in stopping
           THEN CycleFails(s, w, << >>)
           ELSE /\ Become(s, [w EXCEPT !.state = x, !.doing = "dial"])
                /\ Emit(s, <<StateChanged(s, x)>>)
      /\ UNCHANGED <<calls, login, stopping, wired, asked, serverVars>>

\* External: a first connect presents m_connectFn's credentials, a reconnect
\* those that were accepted before.
Refused(s) ==
  ~ses[s].ever /\ (login[s] = "wrong" \/ (login[s] = "anonymous" /\ trait[s] = "login"))

\* stop() or the last owner's drop came while the provider was dialling.
DialStopped(s) ==
  /\ ses[s].doing = "dial" /\ s \in stopping
  /\ CycleFails(s, ses[s], << >>)
  /\ UNCHANGED <<calls, login, stopping, wired, asked, serverVars>>

DialOk(s) ==
  LET w == ses[s]
  IN  /\ w.doing = "dial" /\ s \notin stopping /\ s \in reach /\ ~Refused(s)
      /\ Become(s, [w EXCEPT !.state = "connected", !.ever = TRUE, !.tries = 0, !.doing = w.then,
                             !.user = IF w.ever THEN @ ELSE login[s]])
      /\ Emit(s, <<StateChanged(s, "connected")>>)
      /\ link' = link \cup {s}
      /\ UNCHANGED <<calls, login, stopping, wired, asked, trait, reach, outages>>

DialRefused(s) ==
  /\ ses[s].doing = "dial" /\ s \notin stopping /\ s \in reach /\ Refused(s)
  /\ CycleFails(s, [ses[s] EXCEPT !.awaiting = TRUE, !.state = "idle"],
                <<StateChanged(s, "idle"), AuthRequired(s)>>)
  /\ asked' = [asked EXCEPT ![s] = @ + 1]
  /\ UNCHANGED <<calls, login, stopping, wired, serverVars>>

DialFails(s) ==
  LET w == ses[s]
  IN  /\ w.doing = "dial" /\ s \notin stopping /\ s \notin reach
      /\ IF w.tries < MaxAttempts(w)
           THEN Become(s, [w EXCEPT !.doing = "backoff"]) /\ UNCHANGED events
           ELSE CycleFails(s, [w EXCEPT !.state = "failed"], <<StateChanged(s, "failed")>>)
      /\ UNCHANGED <<calls, login, stopping, wired, asked, serverVars>>

Backoff(s) ==
  LET w == ses[s]
  IN  /\ w.doing = "backoff"
      /\ IF s \in stopping
           THEN CycleFails(s, w, << >>)
           ELSE Become(s, [w EXCEPT !.tries = @ + 1, !.doing = "attempt"]) /\ UNCHANGED events
      /\ UNCHANGED <<calls, login, stopping, wired, asked, serverVars>>

-----------------------------------------------------------------------------
(* The slots                                                               *)

Take(s, slot) ==
  /\ ses[s].doing = "rest" /\ calls[s] # << >> /\ Head(calls[s]).slot = slot
  /\ calls' = [calls EXCEPT ![s] = Tail(@)]

\* onStart() does not look at m_stopping; the cycle does.
OnStart(s) ==
  /\ Take(s, "start")
  /\ Become(s, Cycle([ses[s] EXCEPT !.ever = FALSE, !.awaiting = FALSE, !.state = "connecting"], "rest"))
  /\ Emit(s, <<StateChanged(s, "connecting")>>)
  /\ asked' = [asked EXCEPT ![s] = 0]
  /\ UNCHANGED <<login, stopping, wired, serverVars>>

\* Mutant: ensureConnected() without the test of m_awaitingCredentials.
RestsFailed(w) == w.state = "failed"

\* ensureConnected() does not dial for a listing: only the user restarts these.
Rests(w) == w.awaiting \/ w.state = "failed"

OnRequestList(s) ==
  LET r == [id |-> Head(calls[s]).id, path |-> Head(calls[s]).path]
      w == [ses[s] EXCEPT !.job = r]
  IN  /\ Take(s, "list")
      /\ \/ s \in stopping /\ UNCHANGED <<ses, events>>
         \/ s \notin stopping /\ w.state = "connected"
              /\ Become(s, [w EXCEPT !.doing = "list"]) /\ UNCHANGED events
         \/ s \notin stopping /\ w.state # "connected" /\ Rests(w)
              /\ UNCHANGED ses /\ Emit(s, <<ListFailed(s, r)>>)
         \/ s \notin stopping /\ w.state # "connected" /\ ~Rests(w)
              /\ Become(s, Cycle(w, "list")) /\ UNCHANGED events
      /\ UNCHANGED <<login, stopping, wired, asked, serverVars>>

\* External: a share that lets anybody in and then refuses to enumerate.
Denied(s) == trait[s] = "denies" /\ ses[s].user = "anonymous"

Listed(s) ==
  LET w == ses[s]
  IN  /\ w.doing = "list" /\ s \in link /\ ~Denied(s)
      /\ Become(s, [w EXCEPT !.dir = w.job.path, !.doing = "rest"])
      /\ Emit(s, <<ListReady(s, w.job.id, w.job.path)>>)
      /\ UNCHANGED <<calls, login, stopping, wired, asked, serverVars>>

ListDenied(s) ==
  LET w == ses[s]
  IN  /\ w.doing = "list" /\ s \in link /\ Denied(s)
      /\ Become(s, [w EXCEPT !.awaiting = TRUE, !.doing = "rest"])
      /\ Emit(s, (IF w.awaiting THEN << >> ELSE <<AuthRequired(s)>>) \o <<ListFailed(s, w.job)>>)
      /\ asked' = [asked EXCEPT ![s] = IF w.awaiting THEN @ ELSE @ + 1]
      /\ UNCHANGED <<calls, login, stopping, wired, serverVars>>

\* A backend that reports a ListStatus says so; for the others an empty result
\* whose last good directory does not answer either means the link is down.
ListLost(s) ==
  LET w == ses[s]
  IN  /\ w.doing = "list" /\ s \notin link
      /\ IF trait[s] = "denies"
           THEN Become(s, [w EXCEPT !.doing = "rest"]) /\ Emit(s, <<ListFailed(s, w.job)>>)
           ELSE Become(s, Cycle(w, "relist")) /\ UNCHANGED events
      /\ UNCHANGED <<calls, login, stopping, wired, asked, serverVars>>

\* The second listing is delivered whatever came of it.
Relist(s) ==
  LET w == ses[s]
  IN  /\ w.doing = "relist"
      /\ Become(s, [w EXCEPT !.dir = w.job.path, !.doing = "rest"])
      /\ Emit(s, <<ListReady(s, w.job.id, w.job.path)>>)
      /\ UNCHANGED <<calls, login, stopping, wired, asked, serverVars>>

\* After a retry or a heartbeat's reconnect: request 0.
Refresh(s) ==
  /\ ses[s].doing = "refresh"
  /\ Become(s, [ses[s] EXCEPT !.doing = "rest"])
  /\ Emit(s, <<ListReady(s, 0, ses[s].dir)>>)
  /\ UNCHANGED <<calls, login, stopping, wired, asked, serverVars>>

OnRetry(s) ==
  /\ Take(s, "retry")
  /\ IF s \in stopping
       THEN UNCHANGED <<ses, asked>>
       ELSE /\ Become(s, Cycle([ses[s] EXCEPT !.awaiting = FALSE], "refresh"))
            /\ asked' = [asked EXCEPT ![s] = 0]
  /\ UNCHANGED <<login, stopping, events, wired, serverVars>>

OnRetryWith(s) ==
  /\ Take(s, "retryWith")
  /\ IF s \in stopping
       THEN UNCHANGED <<ses, asked>>
       ELSE /\ Become(s, Cycle([ses[s] EXCEPT !.ever = FALSE, !.awaiting = FALSE], "rest"))
            /\ asked' = [asked EXCEPT ![s] = 0]
  /\ UNCHANGED <<login, stopping, events, wired, serverVars>>

\* The timer runs from the first connect on; a probe that answers changes nothing.
OnHeartbeat(s) ==
  /\ ses[s].doing = "rest" /\ s \notin stopping /\ ses[s].state = "connected" /\ s \notin link
  /\ Become(s, Cycle(ses[s], "refresh"))
  /\ UNCHANGED <<calls, login, stopping, events, wired, asked, serverVars>>

\* shutdownAsync(): the thread's event loop ends when the handler returns, and
\* the object takes its subscriptions with it.
Deleted(s) ==
  /\ ses[s].doing = "rest" /\ s \in stopping
  /\ Become(s, [ses[s] EXCEPT !.doing = "gone"])
  /\ calls' = [calls EXCEPT ![s] = << >>]
  /\ wired' = wired \ {s}
  /\ UNCHANGED <<login, stopping, events, asked, serverVars>>

Work(s) ==
  \/ Attempt(s) \/ DialStopped(s) \/ DialOk(s) \/ DialRefused(s) \/ DialFails(s) \/ Backoff(s)
  \/ OnStart(s) \/ OnRequestList(s) \/ Listed(s) \/ ListDenied(s) \/ ListLost(s) \/ Relist(s)
  \/ Refresh(s) \/ OnRetry(s) \/ OnRetryWith(s) \/ OnHeartbeat(s) \/ Deleted(s)

\* External: the network.
Outage(s) ==
  /\ s \in reach /\ outages < MaxOutages
  /\ outages' = outages + 1 /\ reach' = reach \ {s} /\ link' = link \ {s}
  /\ UNCHANGED <<trait, sessionVars>>

Restored(s) ==
  /\ s \notin reach /\ reach' = reach \cup {s}
  /\ UNCHANGED <<trait, link, outages, sessionVars>>
=============================================================================

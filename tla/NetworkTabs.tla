----------------------------- MODULE NetworkTabs -----------------------------
(***************************************************************************)
(* The tabs of one panel (ui/FilePanel.cpp, ui/TabManager.cpp), the model  *)
(* that lists for the active one (core/filesystem/FileSystemModel.cpp) and *)
(* the network sessions they share (NetworkSession).  All of it runs on    *)
(* the GUI thread: the user's actions, and the signals of the sessions and *)
(* of the local scan in the order they were posted.  A dialog for          *)
(* credentials is modal: signals are delivered under it, clicks are not.   *)
(*                                                                         *)
(* Left out: the Back and Forward histories (which may hold a connection   *)
(* too), archives, search results, the computer view, selections, the      *)
(* other panel.  The model is one panel's.                                 *)
(***************************************************************************)
EXTENDS NetworkSession, SequencesExt

CONSTANTS
  Home,         \* the home directory
  MaxRequests   \* bound: user actions

ASSUME HomeAssumption == Home \in Path /\ MaxRequests \in Nat

VARIABLES
  tabs,       \* Seq of [path, session, server]: TabState; server is the tab's saved connection
  active,     \* m_activeIndex, from 1
  cur,        \* m_session of the model
  reqId,      \* m_reqId
  root,       \* m_rootPath
  shown,      \* the listing on screen: whose, and of what
  loading,    \* between loadStarted and loadFinished
  scan,       \* path of the local scan under way that is not superseded
  relist,     \* m_relistOnConnect
  status,     \* the status line's connection state
  loginLink,  \* m_awaitingLogin
  prompts,    \* open dialogs for credentials
  requests

tabVars == <<tabs, active, cur>>
viewVars == <<reqId, root, shown, loading, scan>>
promptVars == <<relist, status, loginLink, prompts>>
guiVars == <<tabVars, viewVars, promptVars, requests>>
vars == <<sessionVars, serverVars, guiVars>>

Blank == [from |-> NoSession, path |-> NoPath]

TypeOK ==
  /\ ses \in [Session -> SessionRecord] /\ login \in [Session -> Credentials]
  /\ stopping \subseteq Session /\ wired \subseteq Session /\ link \subseteq reach
  /\ \A s \in Session : ses[s].tries \in 0 .. MaxAttempts(ses[s])
  /\ \A n \in 1 .. Len(tabs) :
       tabs[n] \in [path : Path, session : Session \cup {NoSession}, server : Session \cup {NoSession}]
  /\ active \in 1 .. Len(tabs) /\ cur \in Session \cup {NoSession}
  /\ root \in Path /\ scan \in Path \cup {NoPath}
  /\ shown \in [from : Session \cup {NoSession}, path : Path \cup {NoPath}]
  /\ {loading, relist, loginLink} \subseteq BOOLEAN
  /\ status \in States \cup {"none", "login"}
  /\ prompts \in Nat /\ requests \in 0 .. MaxRequests

Init ==
  /\ SessionInit
  /\ tabs = <<[path |-> Home, session |-> NoSession, server |-> NoSession]>>
  /\ active = 1 /\ cur = NoSession
  /\ reqId = 0 /\ root = Home
  /\ shown = [from |-> NoSession, path |-> Home]
  /\ loading = FALSE /\ scan = NoPath
  /\ relist = FALSE /\ status = "none" /\ loginLink = FALSE /\ prompts = 0 /\ requests = 0

-----------------------------------------------------------------------------
(* The model                                                               *)

Post(s, call) == [calls EXCEPT ![s] = Append(@, call)]
List(id, p) == [slot |-> "list", id |-> id, path |-> p]

\* setRootPath(p) over session s with x posted before.  A local scan that is
\* overtaken by another load is discarded by its generation: it is dropped here.
Load(p, s, x) ==
  /\ root' = p
  /\ \/ /\ s = NoSession
        /\ scan' = p /\ loading' = TRUE /\ calls' = x
        /\ UNCHANGED <<reqId, shown>>
     \/ /\ s # NoSession
        /\ scan' = NoPath
        /\ reqId' = reqId + 1
        /\ calls' = [x EXCEPT ![s] = Append(@, List(reqId', p))]
        /\ loading' = (ses[s].state = "connected")
        /\ shown' = IF ses[s].state = "connected" THEN shown ELSE Blank

\* The last owner of a session is gone: the deleter stops it.
DropUnowned ==
  stopping' = stopping \cup
    {s \in Session : /\ ses[s].doing # "unborn" /\ s # cur'
                     /\ \A n \in 1 .. Len(tabs') : tabs'[n].session # s}

\* attachConnection() with a session: subscribe, then read its state.
Attach(s, subscribed) ==
  /\ cur' = s
  /\ wired' = subscribed \cup ({s} \ {NoSession})
  /\ relist' = FALSE
  /\ status' = IF s = NoSession THEN "none" ELSE ses[s].state
  /\ loginLink' = (loginLink /\ s = NoSession)

-----------------------------------------------------------------------------
(* The user                                                                *)

MayAct == prompts = 0 /\ requests < MaxRequests /\ requests' = requests + 1

\* saveCurrentTabState() and parkConnectionInto(): detachConnection() drops the
\* subscription.
Parked == [tabs EXCEPT ![active].path = root, ![active].session = cur]

Navigate(p) ==
  /\ MayAct
  /\ Load(p, cur, calls)
  /\ tabs' = [tabs EXCEPT ![active].path = p]
  /\ UNCHANGED <<ses, login, stopping, events, wired, asked, serverVars, active, cur, promptVars>>

SwitchTab(n) ==
  /\ MayAct /\ n # active
  /\ tabs' = Parked /\ active' = n
  /\ Attach(tabs[n].session, wired \ {cur})
  /\ Load(tabs[n].path, tabs[n].session, calls)
  /\ UNCHANGED <<ses, login, stopping, events, asked, serverVars, prompts>>

\* The status line is left as it was.
NewTab ==
  LET p == IF cur = NoSession THEN root ELSE Home
  IN  /\ MayAct
      /\ tabs' = Append(Parked, [path |-> p, session |-> NoSession, server |-> NoSession])
      /\ active' = Len(tabs')
      /\ cur' = NoSession /\ wired' = wired \ {cur} /\ relist' = FALSE
      /\ Load(p, NoSession, calls)
      /\ UNCHANGED <<ses, login, stopping, events, asked, serverVars, status, loginLink, prompts>>

\* beginServerConnection(), connectNetwork() and the navigation behind it.
OpenServer(s, p) ==
  /\ MayAct /\ ses[s].doing = "unborn"
  /\ tabs' = Append(Parked, [path |-> p, session |-> NoSession, server |-> s])
  /\ active' = Len(tabs')
  /\ cur' = s /\ wired' = (wired \ {cur}) \cup {s} /\ relist' = FALSE
  /\ Become(s, [ses[s] EXCEPT !.doing = "rest", !.dir = p])
  /\ Load(p, s, Post(s, [slot |-> "start"]))
  /\ UNCHANGED <<login, stopping, events, asked, serverVars, status, loginLink, prompts>>

\* TabManager::closeTab(): the index stays where it is unless it is past the end.
ActiveAfterClose == IF active > Len(tabs) - 1 THEN Len(tabs) - 1 ELSE active

CloseTab(n) ==
  /\ MayAct /\ Len(tabs) > 1
  /\ tabs' = RemoveAt(tabs, n)
  /\ active' = ActiveAfterClose
  /\ LET t == tabs'[active']
     IN  /\ Attach(t.session, IF n = active THEN wired \ {cur} ELSE wired)
         /\ Load(t.path, t.session, calls)
  /\ DropUnowned
  /\ UNCHANGED <<ses, login, events, asked, serverVars, prompts>>

\* provideCredentials(), after the dialog.
Answer(credentials) ==
  /\ prompts > 0 /\ requests < MaxRequests /\ requests' = requests + 1
  /\ prompts' = prompts - 1
  /\ IF cur = NoSession
       THEN UNCHANGED <<relist, login, calls>>
       ELSE /\ relist' = TRUE
            /\ login' = [login EXCEPT ![cur] = credentials]
            /\ calls' = Post(cur, [slot |-> "retryWith"])
  /\ UNCHANGED <<ses, stopping, events, wired, asked, serverVars, tabVars, viewVars, status, loginLink>>

\* Cancelled: showLoginPrompt() leaves a link.
Cancel ==
  /\ prompts > 0
  /\ prompts' = prompts - 1
  /\ loginLink' = TRUE /\ status' = "login"
  /\ UNCHANGED <<sessionVars, serverVars, tabVars, viewVars, relist, requests>>

\* The link of the status line: log in, or retry.
ClickLink ==
  /\ MayAct /\ status \in {"failed", "login"}
  /\ prompts' = IF loginLink THEN prompts + 1 ELSE prompts
  /\ calls' = IF loginLink \/ cur = NoSession THEN calls ELSE Post(cur, [slot |-> "retry"])
  /\ UNCHANGED <<ses, login, stopping, events, wired, asked, serverVars, tabVars, viewVars,
                 relist, status, loginLink>>

-----------------------------------------------------------------------------
(* The signals                                                             *)

\* QObject::sender(): null once the connection the signal came by is gone.
Sender(e) == IF e.from \in wired THEN e.from ELSE NoSession

Mine(e) == Sender(e) = cur

Posted(kind) ==
  /\ events # << >> /\ Head(events).is = kind
  /\ events' = Tail(events)

OnStateChanged ==
  LET e == Head(events)
      again == e.state = "connected" /\ relist
  IN  /\ Posted("state") /\ Mine(e)
      /\ status' = e.state /\ loginLink' = FALSE
      /\ relist' = (relist /\ e.state # "connected")
      /\ IF again THEN Load(root, cur, calls) ELSE UNCHANGED <<viewVars, calls>>
      /\ UNCHANGED <<ses, login, stopping, wired, asked, serverVars, tabVars, prompts, requests>>

\* Mutant: a listing is taken whatever request it answers.
CurrentAnyRequest(e) == e.id # 0 \/ e.path = root

\* Request 0 is the session's own refresh of a directory.
Current(e) == IF e.id = 0 THEN e.path = root ELSE e.id = reqId

OnListReady ==
  LET e == Head(events)
  IN  /\ Posted("ready") /\ Mine(e) /\ Current(e)
      /\ shown' = [from |-> e.from, path |-> e.path]
      /\ root' = e.path /\ loading' = FALSE
      /\ UNCHANGED <<calls, ses, login, stopping, wired, asked, serverVars, tabVars, reqId, scan,
                     promptVars, requests>>

OnListFailed ==
  LET e == Head(events)
  IN  /\ Posted("listFailed") /\ Mine(e) /\ e.id \in {0, reqId}
      /\ loading' = FALSE
      /\ UNCHANGED <<calls, ses, login, stopping, wired, asked, serverVars, tabVars, reqId, root,
                     shown, scan, promptVars, requests>>

OnAuthRequired ==
  /\ Posted("auth") /\ Mine(Head(events))
  /\ prompts' = prompts + 1
  /\ UNCHANGED <<calls, ses, login, stopping, wired, asked, serverVars, tabVars, viewVars,
                 relist, status, loginLink, requests>>

Ignored ==
  /\ events # << >> /\ events' = Tail(events)
  /\ LET e == Head(events)
     IN  \/ ~Mine(e)
         \/ e.is = "ready" /\ ~Current(e)
         \/ e.is = "listFailed" /\ e.id \notin {0, reqId}
  /\ UNCHANGED <<calls, ses, login, stopping, wired, asked, serverVars, guiVars>>

Deliver == OnStateChanged \/ OnListReady \/ OnListFailed \/ OnAuthRequired \/ Ignored

OnScanFinished ==
  /\ scan # NoPath /\ scan' = NoPath
  /\ IF cur = NoSession /\ scan = root
       THEN shown' = [from |-> NoSession, path |-> root] /\ loading' = FALSE
       ELSE UNCHANGED <<shown, loading>>
  /\ UNCHANGED <<sessionVars, serverVars, tabVars, reqId, root, promptVars, requests>>

-----------------------------------------------------------------------------

User ==
  \/ \E p \in Path : Navigate(p)
  \/ \E n \in 1 .. Len(tabs) : SwitchTab(n) \/ CloseTab(n)
  \/ NewTab
  \/ \E s \in Session, p \in Path : OpenServer(s, p)
  \/ \E c \in {"right", "wrong"} : Answer(c)
  \/ Cancel
  \/ ClickLink

Server == \E s \in Session : Outage(s) \/ Restored(s)

Next ==
  \/ User
  \/ Deliver
  \/ OnScanFinished
  \/ \E s \in Session : Work(s) /\ UNCHANGED guiVars
  \/ Server /\ UNCHANGED guiVars

Spec == Init /\ [][Next]_vars

\* Threads run, posted signals are delivered and scans end; the user, the
\* network and the timer owe nothing.
LiveSpec ==
  /\ Spec
  /\ WF_vars(Deliver) /\ WF_vars(OnScanFinished)
  /\ \A s \in Session : WF_vars(Work(s) /\ UNCHANGED guiVars)

-----------------------------------------------------------------------------
(* Properties                                                              *)

\* While the active tab has a server, a listing that lands comes from that
\* server's session, and is of the directory asked for last (or, for the
\* session's own refresh, of the one on screen): never another tab's, never a
\* superseded one (the sender() and reqId tests of onSessionListReady()).
NetworkListingsLand ==
  [][\A s \in Session :
       (cur = s /\ cur' = s /\ shown' # shown /\ shown' # Blank)
         => shown' = [from |-> s, path |-> root]]_vars

\* One attempt of the user's asks for credentials at most once, whatever
\* listings are queued behind it ("two password dialogs for one connection
\* attempt", reconnectCycle()).
PromptsOncePerAttempt == \A s \in Session : asked[s] <= 1

\* Whatever the tab, the server and the network do, a load ends: each request
\* is answered, or superseded by one that is.
LoadingEnds == loading ~> ~loading

\* "A background tab's session is owned solely by its TabState and is torn down
\* when closeTab() drops that TabState" (closeTabAt()): the session of a tab
\* that is still there is not stopped.
KeepsConnections == \A n \in 1 .. Len(tabs) : tabs[n].server \notin stopping

\* "a parked background session's stale result; not the active tab"
\* (onSessionListReady()): a local tab that has finished loading shows no
\* server's listing.
LocalTabsStayLocal == (cur = NoSession /\ ~loading) => shown.from = NoSession

\* "A parked session still pending credentials is re-offered its prompt"
\* (adoptConnectionFrom()): an active session that waits for credentials, with
\* nothing under way, has its dialog or its link on screen.
PromptOffered ==
  (/\ cur # NoSession /\ events = << >> /\ calls[cur] = << >>
   /\ ses[cur].doing = "rest" /\ ses[cur].awaiting)
    => prompts > 0 \/ status = "login"
=============================================================================

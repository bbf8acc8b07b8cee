--------------------------- MODULE AccountSession ---------------------------
(***************************************************************************)
(* The session of one device with the account server: the client           *)
(* (core/account/AccountClient.cpp) and the server's handlers              *)
(* (server/src/api.rs), with a network that delays and loses.              *)
(*                                                                         *)
(* The server knows one pair of tokens per device. The access token dies   *)
(* young; the refresh token buys a new pair once, and is spent. The client *)
(* keeps the pair in memory and the refresh token in the keyring, which    *)
(* may refuse a change; the client does not look whether it has. Calls     *)
(* travel on connections of their own, so they reach the server in any     *)
(* order, and one the client gave up may reach it still.                   *)
(*                                                                         *)
(* Pairs are numbered as they are issued; 0 is an empty string. A client's *)
(* call with an older generation is one that an invalidation aborted.      *)
(***************************************************************************)
EXTENDS Naturals, FiniteSets

CONSTANTS
  Req,         \* the application's requests, each made once
  Auth,        \* stands for the client itself, as the owner of its own calls
  MaxPairs,    \* bound: pairs the server issues
  MaxSigns,    \* bound: sign-ins, registrations, logouts and restarts
  MaxLosses,   \* bound: calls given up after m_timeoutMs
  MaxRefusals  \* bound: changes the keyring refuses

ASSUME OwnerAssumption == Auth \notin Req
ASSUME BoundsAssumption == MaxPairs \in Nat \ {0} /\ MaxSigns \in Nat /\ MaxLosses \in Nat /\ MaxRefusals \in Nat

VARIABLES
  pair,      \* server: the pair the device's rows in "tokens" hold, or 0
  fresh,     \* server: its access token has not expired
  issued,    \* server: the last pair issued
  calls,     \* calls under way, below
  access,    \* m_accessToken
  refresh,   \* m_refreshToken
  titled,    \* the title bar shows the account and offers to sign out
  named,     \* m_account or m_credentialDeviceId names the device
  ring,      \* the keyring's entry, or 0
  behind,    \* history: it refused the last change the client wanted
  req,       \* what became of each request
  signs, losses, refusals,  \* bounds
  signedOut, \* history: what became of the keyring's entry since the user signed out
  cause      \* history: the first event that may cost the device its session

server == <<pair, fresh, issued>>
keyring == <<ring, behind, refusals>>
tokens == <<access, refresh, titled, keyring>>
bounds == <<signs, losses>>
vars == <<server, calls, tokens, named, req, bounds, signedOut, cause>>

Pair == 0..MaxPairs
Kinds == {"use", "refresh", "login", "restore", "logout", "revoke"}

\* owner: the request a call is for. token: what it presents. retry: a 401 may be
\* answered by a refresh. at: on its way; answered; given up by the client and on
\* its way; answered, but of an older generation. status: what the server said.
Call == [is : Kinds, owner : Req \cup {Auth}, token : Pair, retry : BOOLEAN,
         at : {"sent", "answered", "orphan", "stale"},
         status : {"due", "ok", "refused", "none"}, brings : Pair]

Init ==
  /\ pair = 0 /\ fresh = FALSE /\ issued = 0
  /\ calls = {} /\ access = 0 /\ refresh = 0 /\ ring = 0 /\ behind = FALSE
  /\ named = FALSE /\ titled = FALSE
  /\ req = [r \in Req |-> "new"]
  /\ signs = 0 /\ losses = 0 /\ refusals = 0
  /\ signedOut = "no" /\ cause = "none"

-----------------------------------------------------------------------------
(* The client sends                                                        *)

New(is, owner, token, retry) ==
  [is |-> is, owner |-> owner, token |-> token, retry |-> retry,
   at |-> "sent", status |-> "due", brings |-> 0]

\* Mutant: invalidateAuthentication() leaves replies that are already here valid.
InvalidatedSentOnly(cs) ==
  {IF c.at = "sent" THEN [c EXCEPT !.at = "orphan"] ELSE c : c \in cs}

\* ++m_requestGeneration and the aborts: no reply of an earlier call is taken.
\* What is on its way to the server may arrive all the same.
Invalidated(cs) ==
  {CASE c.at = "sent" -> [c EXCEPT !.at = "orphan"]
     [] c.at = "answered" -> [c EXCEPT !.at = "stale"]
     [] OTHER -> c : c \in cs}

\* The requests whose calls an invalidation ends: their handlers never run.
Superseded == [r \in Req |-> IF req[r] = "open" THEN "superseded" ELSE req[r]]

\* A call that would bring tokens and whose answer nobody will take: the device may
\* be left with a pair the server has replaced.
Blames(why, blamed) == cause' = IF cause = "none" /\ blamed THEN why ELSE cause
Carries(c) == c.is \in {"refresh", "login", "restore"}
Strays(cs) == Blames("stray", \E c \in cs : Carries(c) /\ c.at \in {"sent", "answered"})

\* CredentialStore::save(), and remove() for token = 0, whose results are ignored.
Store(token) ==
  \/ ring' = token /\ behind' = FALSE /\ UNCHANGED refusals
  \/ refusals < MaxRefusals /\ refusals' = refusals + 1 /\ behind' = TRUE /\ UNCHANGED ring

\* A request of the application, which asks for isLoggedIn() first.
Use(r) ==
  /\ req[r] = "new" /\ access # 0
  /\ req' = [req EXCEPT ![r] = "open"]
  /\ calls' = calls \cup {New("use", r, access, TRUE)}
  /\ UNCHANGED <<server, tokens, named, bounds, signedOut, cause>>

MaySign == signs < MaxSigns /\ signs' = signs + 1

\* invalidateAuthentication(), then a call of the client's own.
StartOver(newCalls, newRefresh, names) ==
  /\ calls' = Invalidated(calls) \cup newCalls
  /\ req' = Superseded
  /\ access' = 0 /\ refresh' = newRefresh /\ named' = names
  /\ Strays(calls)
  /\ UNCHANGED <<server, keyring, losses>>

\* The account dialog offers to sign in or to register while isLoggedIn() is false.
Login ==
  /\ access = 0
  /\ MaySign /\ signedOut' = "no"
  /\ StartOver({New("login", Auth, 0, FALSE)}, 0, TRUE)
  /\ UNCHANGED titled

\* registerAccount(): the new account's mail is answered elsewhere.
RegisterAccount ==
  /\ access = 0
  /\ MaySign
  /\ StartOver({}, 0, FALSE)
  /\ UNCHANGED <<signedOut, titled>>

\* logout(): nobody waits for the server's part. The keyring's entry is found by the
\* device's name.
Logout ==
  /\ titled /\ titled' = FALSE
  /\ MaySign
  /\ calls' = Invalidated(calls) \cup
                (IF access # 0 THEN {[New("logout", Auth, access, FALSE) EXCEPT !.at = "orphan"]} ELSE {})
  /\ req' = Superseded
  /\ access' = 0 /\ refresh' = 0 /\ named' = FALSE
  /\ IF named THEN Store(0) /\ signedOut' = (IF behind' THEN "refused" ELSE "yes")
              ELSE UNCHANGED keyring /\ signedOut' = "unnamed"
  /\ Strays(calls)
  /\ UNCHANGED <<server, losses>>

\* The program ends or dies and starts again: only the keyring is left, and
\* restoreSession() presents what it holds.
Restart ==
  /\ MaySign
  /\ calls' = {c \in Invalidated(calls) : c.at = "orphan"} \cup
                (IF ring # 0 THEN {New("restore", Auth, ring, FALSE)} ELSE {})
  /\ req' = Superseded
  /\ access' = 0 /\ refresh' = ring /\ named' = (ring # 0) /\ titled' = FALSE
  /\ Strays(calls)
  /\ signedOut' = IF signedOut = "refused" THEN "restored" ELSE signedOut
  /\ UNCHANGED <<server, keyring, losses>>

-----------------------------------------------------------------------------
(* The server                                                              *)

Reached(c) == c.at \in {"sent", "orphan"}

\* The server's answer goes to whoever still waits.
Answer(c, status, brings) ==
  calls' = (calls \ {c}) \cup
             (IF c.at = "sent" THEN {[c EXCEPT !.at = "answered", !.status = status, !.brings = brings]} ELSE {})

\* issue_tokens(): the device's other tokens are deleted.
Issue(c) ==
  /\ issued < MaxPairs
  /\ issued' = issued + 1 /\ pair' = issued + 1 /\ fresh' = TRUE
  /\ Answer(c, "ok", issued + 1)

Authentic(c) == c.token = pair /\ pair # 0 /\ fresh

\* Any handler that needs authenticate().
ServeUse(c) ==
  /\ Reached(c) /\ c.is = "use"
  /\ Answer(c, IF Authentic(c) THEN "ok" ELSE "refused", 0)
  /\ UNCHANGED server

ServeRefresh(c) ==
  /\ Reached(c) /\ c.is \in {"refresh", "restore"}
  /\ IF c.token = pair /\ pair # 0 THEN Issue(c)
                                   ELSE Answer(c, "refused", 0) /\ UNCHANGED server

\* login(): the password is right or wrong.
ServeLogin(c) ==
  /\ Reached(c) /\ c.is = "login"
  /\ Issue(c) \/ (Answer(c, "refused", 0) /\ UNCHANGED server)

\* logout() and, by another device, forget_device(): authenticate() and the deletion
\* are two calls of the database.
ServeLogout(c) ==
  /\ Reached(c) /\ c.is = "logout"
  /\ calls' = (calls \ {c}) \cup (IF Authentic(c) THEN {[c EXCEPT !.is = "revoke"]} ELSE {})
  /\ UNCHANGED server

ServeRevoke(c) ==
  /\ Reached(c) /\ c.is = "revoke"
  /\ calls' = calls \ {c}
  /\ pair' = 0 /\ fresh' = FALSE
  /\ Blames("overtaken", c.token # pair)
  /\ UNCHANGED issued

Serve(c) ==
  /\ \/ ServeRevoke(c)
     \/ (ServeUse(c) \/ ServeRefresh(c) \/ ServeLogin(c) \/ ServeLogout(c)) /\ UNCHANGED cause
  /\ UNCHANGED <<tokens, named, req, bounds, signedOut>>

\* ACCESS_TTL_MINUTES have passed.
Expire ==
  /\ fresh /\ fresh' = FALSE
  /\ UNCHANGED <<pair, issued, calls, tokens, named, req, bounds, signedOut, cause>>

\* Another device of the account removes this one.
ForgetDevice ==
  /\ pair # 0 /\ pair' = 0 /\ fresh' = FALSE
  /\ Blames("removed", TRUE)
  /\ UNCHANGED <<issued, calls, tokens, named, req, bounds, signedOut>>

\* The client gives up after m_timeoutMs; the server may have answered by then or
\* see the call still.
TimesOut(c) ==
  /\ c.at \in {"sent", "answered"} /\ c.status # "none"
  /\ IF issued = MaxPairs THEN UNCHANGED losses ELSE losses < MaxLosses /\ losses' = losses + 1
  /\ calls' = (calls \ {c})
       \cup {[c EXCEPT !.at = "answered", !.status = "none", !.brings = 0]}
       \cup (IF c.at = "sent" THEN {[c EXCEPT !.at = "orphan"]} ELSE {})
  /\ Blames("lost", Carries(c))
  /\ UNCHANGED <<server, tokens, named, req, signs, signedOut>>

-----------------------------------------------------------------------------
(* The client takes an answer: the lambda on finished()                    *)

\* Mutant: only the access token is renewed.
AcceptedAccess(c) ==
  /\ access' = c.brings /\ refresh' = (IF refresh = 0 THEN c.brings ELSE refresh)
  /\ named' = TRUE /\ Store(c.brings)

\* Mutant: the keyring is written at the sign-in only.
AcceptedInMemory(c) ==
  /\ access' = c.brings /\ refresh' = c.brings
  /\ named' = TRUE /\ IF ring = 0 THEN Store(c.brings) ELSE UNCHANGED keyring

\* acceptTokens(): the memory has the pair, and the keyring if it takes it: "A keyring
\* that refuses the write costs the user a re-login next launch".
Accepted(c) ==
  /\ access' = c.brings /\ refresh' = c.brings
  /\ named' = TRUE /\ Store(c.brings)

TakeStale(c) ==
  /\ c.at = "stale"
  /\ calls' = calls \ {c}
  /\ UNCHANGED <<server, tokens, named, req, bounds, signedOut, cause>>

Replayable(c) == c.status = "refused" /\ c.retry /\ refresh # 0

SameTokenSpent == \E d \in calls : d.is = "refresh" /\ d.at # "orphan" /\ d.token = refresh

\* A 401 is answered by a refresh with the token in memory, whoever else does so.
TakeUse(c) ==
  /\ c.at = "answered" /\ c.is = "use"
  /\ IF Replayable(c)
       THEN /\ calls' = (calls \ {c}) \cup {New("refresh", c.owner, refresh, FALSE)}
            /\ Blames("raced", SameTokenSpent)
            /\ UNCHANGED req
       ELSE /\ calls' = calls \ {c}
            /\ req' = [req EXCEPT ![c.owner] = IF c.status = "ok" THEN "done" ELSE "failed"]
            /\ UNCHANGED cause
  /\ UNCHANGED <<server, tokens, named, bounds, signedOut>>

\* Mutant: a refresh that fails ends the session and says nothing.
TakeRefreshSilently(c) ==
  /\ c.at = "answered" /\ c.is = "refresh"
  /\ IF c.status = "ok"
       THEN Accepted(c) /\ UNCHANGED titled /\ calls' = (calls \ {c}) \cup {New("use", c.owner, c.brings, FALSE)}
       ELSE access' = 0 /\ refresh' = 0 /\ calls' = calls \ {c} /\ UNCHANGED <<keyring, named, titled>>
  /\ UNCHANGED <<server, bounds, req, signedOut, cause>>

\* refreshAccessToken(): the request is replayed once, or the session is over.
TakeRefresh(c) ==
  /\ c.at = "answered" /\ c.is = "refresh"
  /\ IF c.status = "ok"
       THEN /\ Accepted(c) /\ UNCHANGED titled
            /\ calls' = (calls \ {c}) \cup {New("use", c.owner, c.brings, FALSE)}
            /\ UNCHANGED req
       ELSE /\ access' = 0 /\ refresh' = 0
            /\ calls' = calls \ {c}
            /\ req' = [req EXCEPT ![c.owner] = "failed"]
            /\ UNCHANGED <<keyring, named, titled>>
  /\ UNCHANGED <<server, bounds, signedOut, cause>>

\* The replies of login() and restoreSession(), which start a new session.
TakeSignIn(c) ==
  /\ c.at = "answered" /\ c.is \in {"login", "restore"}
  /\ calls' = calls \ {c}
  /\ IF c.status = "ok" THEN Accepted(c) /\ titled' = TRUE ELSE UNCHANGED <<tokens, named>>
  /\ UNCHANGED <<server, req, bounds, signedOut, cause>>

Take == \E c \in calls : TakeStale(c) \/ TakeUse(c) \/ TakeRefresh(c) \/ TakeSignIn(c)

-----------------------------------------------------------------------------
UserStep == (\E r \in Req : Use(r)) \/ Login \/ RegisterAccount \/ Logout \/ Restart
TimeStep == Expire \/ ForgetDevice

Next ==
  \/ UserStep \/ TimeStep \/ Take
  \/ \E c \in calls : Serve(c) \/ TimesOut(c)

\* A call the client waits for is answered or given up, and answers are taken. What
\* the client gave up need never arrive.
Fairness ==
  /\ WF_vars(Take)
  /\ WF_vars(\E c \in calls : c.at = "sent" /\ (Serve(c) \/ TimesOut(c)))

Spec == Init /\ [][Next]_vars
FairSpec == Spec /\ Fairness

-----------------------------------------------------------------------------
(* What a session must keep                                                *)

TypeOK ==
  /\ pair \in Pair /\ fresh \in BOOLEAN /\ issued \in Pair
  /\ calls \subseteq Call
  /\ access \in Pair /\ refresh \in Pair /\ ring \in Pair
  /\ named \in BOOLEAN /\ titled \in BOOLEAN /\ behind \in BOOLEAN
  /\ req \in [Req -> {"new", "open", "done", "failed", "superseded"}]
  /\ signs \in 0..MaxSigns /\ losses \in 0..MaxLosses /\ refusals \in 0..MaxRefusals
  /\ signedOut \in {"no", "yes", "refused", "restored", "unnamed"}
  /\ cause \in {"none", "lost", "stray", "raced", "removed", "overtaken"}

\* Whoever is signed in stays so until the user ends it, whatever expires and however
\* late the calls arrive, unless one of the known causes has come up
\* (AccountClient.cpp:208, "the ordinary case, not an error").
SessionKept ==
  [][access # 0 /\ access' = 0 /\ signs' = signs => cause # "none"]_vars

\* The keyring holds the refresh token the server will take at the next start, once
\* the calls that bring tokens are done, unless it refused the last one it was given
\* (AccountClient.cpp:274). A refusal costs a sign-in at the next start and no more:
\* with the next token it takes the keyring is right again, and SessionKept does not
\* have it among its causes.
KeyringFollows ==
  cause = "none" /\ ~behind /\ ring # 0 /\ (\A c \in calls : c.is = "use") => ring = pair

\* After a logout no late reply signs the device in again, in memory or at the next
\* start (AccountClient.cpp:385). Where the keyring refused the removal its entry
\* stays, and until the next start the device is signed out all the same.
LogoutIsFinal ==
  /\ signedOut \in {"yes", "refused"} => access = 0 /\ refresh = 0
  /\ signedOut = "yes" => ring = 0

\* Every request is answered, fails, or is ended by the user's own step.
RequestsSettle == \A r \in Req : req[r] = "open" ~> req[r] # "open"

\* A renewed session stays: two requests that meet the expiry together are both "the
\* ordinary case" (AccountClient.cpp:208) and must not sign the device out.
ExpiryIsOrdinary ==
  [][access # 0 /\ access' = 0 /\ signs' = signs => cause \notin {"none", "raced"}]_vars

\* A new session is not ended by the logout of the one before.
LogoutEndsItsOwn == cause # "overtaken"

\* Signing out forgets the stored session (AccountClient.h:134), also when the
\* account had been replaced by a registration in between.
LogoutForgets == signedOut = "unnamed" => ring = 0

=============================================================================

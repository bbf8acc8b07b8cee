-------------------------- MODULE ClipboardDelivery --------------------------
(***************************************************************************)
(* Clipboard content on its way from the server to the devices it is for:  *)
(* the server's rows (server/src/clipboard.rs, api.rs) and each receiving  *)
(* device's controller (ui/CloudClipboardController.cpp), which is told    *)
(* over its agent socket (AgentLink) and then asks.  Every call travels on *)
(* its own; each may be lost on the way there or on the way back, and one  *)
(* the device gave up may reach the server still.                          *)
(*                                                                         *)
(* Left out: content, and the dedupe of equal content; the sender          *)
(* (ClipboardSend); how a session comes to end by itself (AccountSession); *)
(* status texts.                                                           *)
(* The server purges expired rows before every handler reads, so expiry    *)
(* is modelled as the rows' removal.                                       *)
(***************************************************************************)
EXTENDS AgentLink, Bags

CONSTANTS
  Payload,    \* what is sent, each once
  Away,       \* devices of the account that stay switched off
  MaxFaults,  \* bound: calls lost, records that cannot be saved, rows that expire
  MaxResets   \* bound: restarts, sign-outs and removals of a device, sessions that end

ASSUME DeliveryAssumption == Away \subseteq Device /\ MaxFaults \in Nat /\ MaxResets \in Nat

VARIABLES
  owned,     \* server: the account's devices
  sent,      \* payloads ever sent
  payload,   \* server: rows of clipboard_payloads
  row,       \* server: rows of clipboard_deliveries
  owed,      \* server: announcements of a committed send still to be pushed
  due,       \* lists asked for that have not reached the server
  lists,     \* lists on their way to the device
  calls,     \* downloads and acknowledgements
  entry,     \* m_deliveries
  done,      \* m_completedDeliveryIds
  faults, resets,  \* bounds
  kept,      \* history: payloads the device has saved
  saves,     \* history: how often since it started or signed in
  missed,    \* history: something failed since the device last asked
  stuck      \* history: downloads a sign-in aborted; the entries stay

server == <<owned, sent, payload, row, owed>>
transit == <<due, lists, calls>>
client == <<entry, done>>
bounds == <<faults, resets>>
seen == <<kept, saves, missed, stuck>>
vars == <<linkVars, server, transit, client, bounds, seen>>

\* A call given up is an orphan until it reaches the server.
Call == [p : Payload, is : {"download", "ack"}, at : {"due", "ok", "failed", "orphan"}]

TypeOK ==
  /\ LinkTypeOK
  /\ owned \subseteq Device /\ payload \subseteq sent /\ sent \subseteq Payload
  /\ row \in [Device -> [Payload -> {"none", "pending", "delivered"}]]
  /\ owed \subseteq Device \X Payload
  /\ due \in [Device -> Nat] /\ \A d \in Device : IsABag(lists[d])
  /\ calls \in [Device -> SUBSET Call]
  /\ entry \in [Device -> [Payload -> {"none", "downloading", "acking", "awaiting"}]]
  /\ done \in [Device -> SUBSET Payload] /\ kept \in [Device -> SUBSET Payload]
  /\ saves \in [Device -> [Payload -> Nat]] /\ missed \in [Device -> BOOLEAN]
  /\ stuck \in [Device -> SUBSET Payload]
  /\ faults \in 0 .. MaxFaults /\ resets \in 0 .. MaxResets

Nothing == [p \in Payload |-> "none"]

\* Everyone else has just signed in, and asks.
Init ==
  /\ LinkInit(Away)
  /\ owned = Device /\ sent = {} /\ payload = {}
  /\ row = [d \in Device |-> Nothing] /\ owed = {}
  /\ due = [d \in Device |-> IF d \in Away THEN 0 ELSE 1] /\ lists = [d \in Device |-> EmptyBag]
  /\ calls = [d \in Device |-> {}]
  /\ entry = [d \in Device |-> Nothing] /\ done = [d \in Device |-> {}]
  /\ faults = 0 /\ resets = 0
  /\ kept = [d \in Device |-> {}] /\ saves = [d \in Device |-> [p \in Payload |-> 0]]
  /\ missed = [d \in Device |-> FALSE] /\ stuck = [d \in Device |-> {}]

Fault == faults < MaxFaults /\ faults' = faults + 1
Reset == resets < MaxResets /\ resets' = resets + 1

-----------------------------------------------------------------------------
(* The server                                                              *)

\* send_delivery_to(), the transaction. To no device, nothing is kept.
Send(p, targets) ==
  /\ p \notin sent /\ sent' = sent \cup {p}
  /\ payload' = IF targets = {} THEN payload ELSE payload \cup {p}
  /\ row' = [d \in Device |-> IF d \in targets THEN [row[d] EXCEPT ![p] = "pending"] ELSE row[d]]
  /\ owed' = owed \cup targets \X {p}
  /\ UNCHANGED <<linkVars, owned, transit, client, bounds, seen>>

\* broadcast_clipboard_delivery(), once the transaction is committed.
Announce(p) ==
  LET targets == {d \in Device : <<d, p>> \in owed}
  IN  /\ targets # {}
      /\ owed' = owed \ (Device \X {p})
      /\ inbox' = Pushed(targets, "delivery")
      /\ UNCHANGED <<account, sock, conn, alive, dialing, serving, agent, hello, cuts,
                     owned, sent, payload, row, transit, client, bounds, seen>>

\* Mutant: the payload goes with the first acknowledgement.
NeededByNobody(rows, p) == FALSE

\* DELETE ... WHERE NOT EXISTS (a pending delivery of the payload)
Needed(rows, p) == \E d \in Device : rows[d][p] = "pending"

\* Rows, and the payloads that are left once they are.
Rows(rows) ==
  row' = rows /\ payload' = {p \in payload : Needed(rows, p)}

\* deliveries()
ServeList(d) ==
  LET pending == {p \in payload : row[d][p] = "pending"}
  IN  /\ d \in owned /\ due[d] > 0
      /\ due' = [due EXCEPT ![d] = @ - 1]
      /\ lists' = [lists EXCEPT ![d] = @ (+) SetToBag({pending})]
      /\ UNCHANGED <<linkVars, server, calls, client, bounds, seen>>

Becomes(d, c, at) == calls' = [calls EXCEPT ![d] = (@ \ {c}) \cup {[c EXCEPT !.at = at]}]
Ends(d, c) == calls' = [calls EXCEPT ![d] = @ \ {c}]

\* delivery_content(): 404 unless the delivery is pending.
ServeDownload(d, c) ==
  /\ c.is = "download" /\ c.at = "due"
  /\ Becomes(d, c, IF d \in owned /\ row[d][c.p] = "pending" THEN "ok" ELSE "failed")
  /\ UNCHANGED <<linkVars, server, due, lists, client, bounds, seen>>

\* acknowledge_delivery(): a repeated one finds the row delivered, and succeeds.
ServeAck(d, c) ==
  /\ c.is = "ack" /\ c.at \in {"due", "orphan"}
  /\ IF row[d][c.p] = "none"
     THEN UNCHANGED <<row, payload>>
     ELSE Rows([row EXCEPT ![d][c.p] = "delivered"])
  /\ IF c.at = "orphan" THEN Ends(d, c)
     ELSE Becomes(d, c, IF row[d][c.p] = "none" THEN "failed" ELSE "ok")
  /\ UNCHANGED <<linkVars, owned, sent, owed, due, lists, client, bounds, seen>>

\* purge_expired_delivery_payloads(): a payload and its deliveries, after seven days.
Expire(p) ==
  /\ Fault /\ p \in payload
  /\ row' = [d \in Device |-> [row[d] EXCEPT ![p] = "none"]]
  /\ payload' = payload \ {p}
  /\ UNCHANGED <<linkVars, owned, sent, owed, transit, client, resets, seen>>

\* purge_expired_delivery_payloads(): a delivered row, kept to answer a repeated ack.
ExpireTombstone(d, p) ==
  /\ Fault /\ row[d][p] = "delivered"
  /\ Rows([row EXCEPT ![d][p] = "none"])
  /\ UNCHANGED <<linkVars, owned, sent, owed, transit, client, resets, seen>>

\* forget_device(): its rows, what only it needed, and its place in the table.
ForgetDevice(d) ==
  /\ Reset /\ d \in owned
  /\ owned' = owned \ {d}
  /\ Rows([row EXCEPT ![d] = Nothing])
  /\ agent' = [agent EXCEPT ![d] = 0]
  /\ UNCHANGED <<account, sock, conn, alive, dialing, serving, inbox, hello, cuts,
                 sent, owed, transit, client, faults, seen>>

-----------------------------------------------------------------------------
(* The device                                                              *)

New(p, is) == [p |-> p, is |-> is, at |-> "due"]

\* Mutant: the device does not ask again while a list is under way.
AskedUnlessBusy(d) ==
  /\ due' = [due EXCEPT ![d] = IF @ = 0 /\ lists[d] = EmptyBag THEN 1 ELSE @]
  /\ missed' = [missed EXCEPT ![d] = FALSE]

\* refresh(): whatever is under way, it asks for the list.
Asked(d) ==
  /\ due' = [due EXCEPT ![d] = @ + 1]
  /\ missed' = [missed EXCEPT ![d] = FALSE]

\* A delivery is announced, or the server has recorded the hello: refresh(), which
\* does not ask without a session.
Told(d) ==
  /\ Received(d, "delivery") \/ Received(d, "ready")
  /\ IF tokens[d] THEN Asked(d) ELSE UNCHANGED <<due, missed>>
  /\ UNCHANGED <<server, lists, calls, client, bounds, kept, saves, stuck>>

\* receiveDeliveries(): what is new is downloaded; what only its acknowledgement
\* failed is acknowledged again. Without a session both fail at once.
TakeList(d, list) ==
  LET fresh == {p \in list \ done[d] : entry[d][p] = "none"}
      again == {p \in list \ done[d] : entry[d][p] = "awaiting"}
  IN  /\ BagIn(list, lists[d])
      /\ lists' = [lists EXCEPT ![d] = @ (-) SetToBag({list})]
      /\ IF tokens[d]
         THEN /\ entry' = [entry EXCEPT ![d] = [p \in Payload |->
                            CASE p \in fresh -> "downloading" [] p \in again -> "acking"
                              [] OTHER -> @[p]]]
              /\ calls' = [calls EXCEPT ![d] = @ \cup {New(p, "download") : p \in fresh}
                                                \cup {New(p, "ack") : p \in again}]
         ELSE UNCHANGED <<entry, calls>>
      /\ UNCHANGED <<linkVars, server, due, done, bounds, seen>>

\* Mutant: a delivery is acknowledged whether it could be saved or not.
AcknowledgesAnyway(saved) == TRUE

Acknowledges(saved) == saved

\* finishDeliveryDownload(): saved, then acknowledged, which fails at once without a
\* session; or not saved, and forgotten.
TakeDownload(d, c) ==
  /\ c.is = "download" /\ c.at = "ok"
  /\ IF entry[d][c.p] # "downloading"
     THEN Ends(d, c) /\ UNCHANGED <<entry, faults, kept, saves, missed>>
     ELSE \E saved \in BOOLEAN :
            /\ IF saved THEN UNCHANGED faults ELSE Fault
            /\ IF Acknowledges(saved) /\ tokens[d]
               THEN /\ calls' = [calls EXCEPT ![d] = (@ \ {c}) \cup {New(c.p, "ack")}]
                    /\ entry' = [entry EXCEPT ![d][c.p] = "acking"]
               ELSE /\ Ends(d, c)
                    /\ entry' = [entry EXCEPT ![d][c.p] =
                                   IF Acknowledges(saved) THEN "awaiting" ELSE "none"]
            /\ kept' = IF saved THEN [kept EXCEPT ![d] = @ \cup {c.p}] ELSE kept
            /\ saves' = IF saved THEN [saves EXCEPT ![d][c.p] = @ + 1] ELSE saves
            /\ missed' = IF saved THEN missed ELSE [missed EXCEPT ![d] = TRUE]
  /\ UNCHANGED <<linkVars, server, due, lists, done, resets, stuck>>

\* clipboardDeliveryDownloadFailed: forgotten, until a list names it again.
DownloadFails(d, c) ==
  /\ c.is = "download" /\ c.at = "failed" /\ Ends(d, c)
  /\ entry' = [entry EXCEPT ![d][c.p] = "none"]
  /\ missed' = [missed EXCEPT ![d] = TRUE]
  /\ UNCHANGED <<linkVars, server, due, lists, done, bounds, kept, saves, stuck>>

\* clipboardDeliveryAcknowledged
TakeAck(d, c) ==
  /\ c.is = "ack" /\ c.at = "ok" /\ Ends(d, c)
  /\ entry' = [entry EXCEPT ![d][c.p] = "none"]
  /\ done' = [done EXCEPT ![d] = IF entry[d][c.p] = "none" THEN @ ELSE @ \cup {c.p}]
  /\ UNCHANGED <<linkVars, server, due, lists, bounds, seen>>

\* Mutant: an acknowledgement that fails is forgotten with its delivery.
UnackedForgotten(state) == "none"

Unacked(state) == IF state = "none" THEN state ELSE "awaiting"

\* clipboardDeliveryAcknowledgementFailed
AckFails(d, c) ==
  /\ c.is = "ack" /\ c.at = "failed" /\ Ends(d, c)
  /\ entry' = [entry EXCEPT ![d][c.p] = Unacked(@)]
  /\ UNCHANGED <<linkVars, server, due, lists, done, bounds, seen>>

\* A call is lost on its way there, or its answer is on its way back; given up, it
\* may reach the server still.
LoseCall(d, c) ==
  /\ Fault
  /\ \/ c.at \in {"due", "ok"} /\ Becomes(d, c, "failed")
     \/ /\ c.is = "ack" /\ c.at = "due"
        /\ calls' = [calls EXCEPT ![d] = (@ \ {c}) \cup {[c EXCEPT !.at = "failed"],
                                                         [c EXCEPT !.at = "orphan"]}]
  /\ UNCHANGED <<linkVars, server, due, lists, client, resets, seen>>

\* requestFailed: nothing asks again by itself.
LoseList(d) ==
  /\ Fault
  /\ \/ due[d] > 0 /\ due' = [due EXCEPT ![d] = @ - 1] /\ UNCHANGED lists
     \/ \E list \in BagToSet(lists[d]) :
          lists' = [lists EXCEPT ![d] = @ (-) SetToBag({list})] /\ UNCHANGED due
  /\ missed' = [missed EXCEPT ![d] = TRUE]
  /\ UNCHANGED <<linkVars, server, calls, client, resets, kept, saves, stuck>>

\* What is under way is aborted without a word, and the device asks, or does not. An
\* acknowledgement on its way may arrive.
Aborted(d, asks) ==
  /\ calls' = [calls EXCEPT ![d] = {[c EXCEPT !.at = "orphan"] : c \in
                 {k \in @ : k.is = "ack" /\ k.at \in {"due", "orphan"}}}]
  /\ lists' = [lists EXCEPT ![d] = EmptyBag] /\ due' = [due EXCEPT ![d] = asks]
  /\ missed' = [missed EXCEPT ![d] = FALSE]

\* Memory goes, with the process or with loggedOut.
Emptied(d, asks) ==
  /\ Aborted(d, asks)
  /\ entry' = [entry EXCEPT ![d] = Nothing] /\ done' = [done EXCEPT ![d] = {}]
  /\ saves' = [saves EXCEPT ![d] = [p \in Payload |-> 0]]
  /\ stuck' = [stuck EXCEPT ![d] = {}]

\* The process dies and is started again; restoreSession() signs in and asks, or
\* the server refuses.
Restart(d) ==
  \E restored \in BOOLEAN :
    /\ Reset /\ wanted[d] /\ (restored => d \in owned)
    /\ wanted' = [wanted EXCEPT ![d] = restored] /\ tokens' = [tokens EXCEPT ![d] = restored]
    /\ Emptied(d, IF restored THEN 1 ELSE 0) /\ Closed(d)
    /\ UNCHANGED <<cuts, server, faults, kept>>

SignOut(d) ==
  /\ wanted' = [wanted EXCEPT ![d] = FALSE] /\ tokens' = [tokens EXCEPT ![d] = FALSE]
  /\ Emptied(d, 0) /\ Closed(d)
  /\ UNCHANGED <<cuts, server, faults, kept>>

\* "device_revoked" arrives: logout().
Revoked(d) == wanted[d] /\ d \notin owned /\ SignOut(d) /\ UNCHANGED resets

SignsOut(d) == wanted[d] /\ d \in owned /\ Reset /\ SignOut(d)

\* refreshAccessToken() fails, for this or for another request: the tokens go, and
\* nothing else. What is under way may be answered still, and the socket stays.
SessionLost(d) ==
  /\ tokens[d] /\ tokens' = [tokens EXCEPT ![d] = FALSE]
  /\ IF d \in owned THEN Reset ELSE UNCHANGED resets
  /\ UNCHANGED <<wanted, link, cuts, server, transit, client, faults, seen>>

\* updateDeviceSharing(), once the account dialog is closed without a session: the
\* agent is stopped. It could open no socket anyway: m_wanted is left as it is.
SharingStops(d) ==
  /\ wanted[d] /\ ~tokens[d] /\ conn[d] # "closed"
  /\ Closed(d)
  /\ UNCHANGED <<account, cuts, server, transit, client, bounds, seen>>

Downloading(d) == {p \in Payload : entry[d][p] = "downloading"}

\* login(), and its answer: invalidateAuthentication() aborts whatever an ended session
\* left under way, no signal tells the controller so, and its entries stay.
SignIn(d) ==
  \E accepted \in BOOLEAN :
    /\ ~tokens[d] /\ d \notin Away /\ (accepted => d \in owned)
    /\ tokens' = [tokens EXCEPT ![d] = accepted]
    /\ wanted' = IF accepted THEN [wanted EXCEPT ![d] = TRUE] ELSE wanted
    /\ Aborted(d, IF accepted THEN 1 ELSE 0)
    /\ stuck' = [stuck EXCEPT ![d] = @ \cup Downloading(d)]
    /\ UNCHANGED <<link, cuts, server, client, bounds, kept, saves>>

-----------------------------------------------------------------------------

\* The server dies between any two of its steps: its rows stay; its sockets, its
\* table and the announcements it owed do not.
ServerRestart ==
  /\ cuts < MaxCuts /\ cuts' = cuts + 1
  /\ owed' = {}
  /\ serving' = [d \in Device |-> {}] /\ agent' = [d \in Device |-> 0]
  /\ dialing' = [d \in Device |-> {}] /\ alive' = [d \in Device |-> FALSE]
  /\ inbox' = [d \in Device |-> << >>] /\ hello' = [d \in Device |-> FALSE]
  /\ UNCHANGED <<account, sock, conn, owned, sent, payload, row, transit, client, bounds, seen>>

Targets == {owned} \cup {{d} : d \in owned}

LinkStep(d) == Link(d) /\ UNCHANGED <<server, transit, client, bounds, seen>>

Serves(d) ==
  \/ ServeList(d)
  \/ \E c \in calls[d] : ServeDownload(d, c) \/ ServeAck(d, c)

Takes(d) ==
  \/ Told(d) \/ Revoked(d)
  \/ \E list \in SUBSET Payload : TakeList(d, list)
  \/ \E c \in calls[d] : TakeDownload(d, c) \/ DownloadFails(d, c) \/ TakeAck(d, c) \/ AckFails(d, c)

Loses(d) == LoseList(d) \/ \E c \in calls[d] : LoseCall(d, c)

Next ==
  \/ \E p \in Payload : Announce(p) \/ Expire(p) \/ \E targets \in Targets : Send(p, targets)
  \/ \E d \in Device :
       \/ LinkStep(d) \/ Serves(d) \/ Takes(d) \/ Loses(d)
       \/ Restart(d) \/ SignsOut(d) \/ SessionLost(d) \/ SharingStops(d) \/ SignIn(d)
       \/ ForgetDevice(d)
       \/ \E p \in Payload : ExpireTombstone(d, p)
  \/ ServerRestart

Spec == Init /\ [][Next]_vars

Unlinked == <<server, transit, client, bounds, seen>>

\* The device reconnects while it is signed in (scheduleReconnect()), its heartbeat
\* finds a dead path, both ends read what arrives, and calls are answered. Nothing
\* is assumed of the user, of losses or of the server's finding a dead socket.
FairSpec ==
  /\ Spec
  /\ \A p \in Payload : WF_vars(Announce(p))
  /\ \A d \in Device :
       /\ WF_vars(OpenSocket(d) /\ UNCHANGED Unlinked)
       /\ WF_vars(Serve(d, sock[d]) /\ UNCHANGED Unlinked)
       /\ WF_vars(HeartbeatFails(d) /\ UNCHANGED Unlinked)
       /\ WF_vars((Welcome(d) \/ Hello(d)) /\ UNCHANGED Unlinked)
       /\ WF_vars(Serves(d)) /\ WF_vars(Takes(d))

-----------------------------------------------------------------------------
(* Properties                                                              *)

\* What the server counts as delivered has been saved by the device: the row goes
\* only after the record is in the history, whatever is lost, repeated or restarted
\* in between (finishDeliveryDownload(), acknowledge_delivery()).
DeliveredIsKept ==
  \A d \in Device, p \in Payload : row[d][p] = "delivered" => p \in kept[d]

\* The server keeps content exactly as long as a device is still to fetch it:
\* not gone with another's acknowledgement, and not left behind when the last one
\* acknowledges or is removed ("its payload has no reason to survive once every
\* recipient is no longer pending", clipboard.rs).
PayloadWhileNeeded ==
  \A p \in Payload : p \in payload <=> \E d \in Device : row[d][p] = "pending"

\* Until it restarts or signs out, a device saves a delivery once, however often it
\* is listed, and however many acknowledgements fail.
SavedOnce == \A d \in Device, p \in Payload : saves[d][p] <= 1

\* In the end a device that has a session has what is pending for it, through cut
\* links, restarts of either side, sessions that end by themselves and announcements
\* that reach nobody. There are two exceptions and no other: one of its calls failed
\* since it last asked, and nothing asks again by itself; or a sign-in, after its
\* session had ended by itself, aborted the download, and every later list passes
\* over the entry that is left.
Arrives ==
  <>[](\A d \in Device, p \in Payload :
         row[d][p] = "pending" /\ tokens[d] => p \in kept[d] \cup stuck[d] \/ missed[d])
=============================================================================

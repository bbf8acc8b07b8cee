------------------------------ MODULE AgentLink ------------------------------
(***************************************************************************)
(* The socket over which the server pushes to a device: the device's side  *)
(* (core/account/DeviceAgent.cpp) and the server's (server/src/agent.rs,   *)
(* serve_agent), with a path that dies without telling either.  The server *)
(* pushes to the socket its table names; a device may have left others     *)
(* behind that the server still serves.                                    *)
(*                                                                         *)
(* Sockets are numbered as the device opens them; 0 is none.  The          *)
(* heartbeat is modelled by what it concludes: that the path is dead.      *)
(* Left out: presence, addresses and shares, the backoff, the control      *)
(* channel.  What the frames cause is the composing module's.              *)
(***************************************************************************)
EXTENDS Naturals, FiniteSets, Sequences

CONSTANTS
  Device,
  Capacity,  \* AGENT_QUEUE_CAPACITY
  MaxCuts,   \* bound: paths that die
  Late       \* TRUE: a request to open a socket may outlive the device's interest in it

ASSUME LinkAssumption == Capacity \in Nat \ {0} /\ MaxCuts \in Nat /\ Late \in BOOLEAN

VARIABLES
  wanted,   \* m_wanted: it has signed in, and not signed out since
  tokens,   \* isLoggedIn(): without it agentSocketUrl() is empty
  sock,     \* m_socket, by number
  conn,     \* its state: closed, opening, open
  alive,    \* its path carries
  dialing,  \* requests to open a socket on their way to the server
  serving,  \* sockets the server reads
  agent,    \* the server's table: the socket it pushes to
  inbox,    \* frames on their way to sock
  hello,    \* a hello is on its way to the server
  cuts

link == <<sock, conn, alive, dialing, serving, agent, inbox, hello>>
account == <<wanted, tokens>>
linkVars == <<account, link, cuts>>

Frame == {"welcome", "ready", "delivery"}

LinkTypeOK ==
  /\ wanted \in [Device -> BOOLEAN] /\ tokens \in [Device -> BOOLEAN]
  /\ sock \in [Device -> Nat]
  /\ conn \in [Device -> {"closed", "opening", "open"}]
  /\ alive \in [Device -> BOOLEAN] /\ hello \in [Device -> BOOLEAN]
  /\ \A d \in Device :
       dialing[d] \cup serving[d] \subseteq 1 .. sock[d] /\ agent[d] \in 0 .. sock[d]
  /\ inbox \in [Device -> Seq(Frame)] /\ \A d \in Device : Len(inbox[d]) <= Capacity
  /\ cuts \in 0 .. MaxCuts

LinkInit(away) ==
  /\ wanted = [d \in Device |-> d \notin away] /\ tokens = wanted
  /\ sock = [d \in Device |-> 0]
  /\ conn = [d \in Device |-> "closed"] /\ alive = [d \in Device |-> TRUE]
  /\ dialing = [d \in Device |-> {}] /\ serving = [d \in Device |-> {}]
  /\ agent = [d \in Device |-> 0]
  /\ inbox = [d \in Device |-> << >>] /\ hello = [d \in Device |-> FALSE]
  /\ cuts = 0

Reachable(d) == conn[d] # "closed" /\ alive[d]

\* queue_frame(): a full queue drops the frame.
Queued(d, frame) ==
  IF Reachable(d) /\ Len(inbox[d]) < Capacity THEN Append(inbox[d], frame) ELSE inbox[d]

\* A frame pushed to the socket the table names for each of devices.
Pushed(devices, frame) ==
  [d \in Device |-> IF d \in devices /\ agent[d] = sock[d] /\ agent[d] # 0
                    THEN Queued(d, frame) ELSE inbox[d]]

\* openSocket(): at once, or from the timer scheduleReconnect() set.
OpenSocket(d) ==
  /\ wanted[d] /\ tokens[d] /\ conn[d] = "closed"
  /\ sock' = [sock EXCEPT ![d] = @ + 1]
  /\ conn' = [conn EXCEPT ![d] = "opening"] /\ alive' = [alive EXCEPT ![d] = TRUE]
  /\ dialing' = [dialing EXCEPT ![d] = @ \cup {sock'[d]}]
  /\ inbox' = [inbox EXCEPT ![d] = << >>] /\ hello' = [hello EXCEPT ![d] = FALSE]
  /\ UNCHANGED <<account, serving, agent, cuts>>

\* serve_agent() begins: the newest to arrive takes the device's place.
Serve(d, n) ==
  /\ n \in dialing[d]
  /\ dialing' = [dialing EXCEPT ![d] = @ \ {n}]
  /\ serving' = [serving EXCEPT ![d] = @ \cup {n}]
  /\ agent' = [agent EXCEPT ![d] = n]
  /\ IF n = sock[d] /\ Reachable(d)
     THEN inbox' = [inbox EXCEPT ![d] = <<"welcome">>] /\ conn' = [conn EXCEPT ![d] = "open"]
     ELSE UNCHANGED <<inbox, conn>>
  /\ UNCHANGED <<account, sock, alive, hello, cuts>>

\* The table once socket n is no longer served: cleared only if it names n.
Left(d, n) == IF agent[d] = n THEN 0 ELSE agent[d]

\* The server finds that a socket is dead or closed.
Leave(d, n) ==
  /\ n \in serving[d] /\ ~(n = sock[d] /\ Reachable(d))
  /\ serving' = [serving EXCEPT ![d] = @ \ {n}]
  /\ agent' = [agent EXCEPT ![d] = Left(d, n)]
  /\ UNCHANGED <<account, sock, conn, alive, dialing, inbox, hello, cuts>>

\* The path of the device's socket dies: what is on it is lost.
Cut(d) ==
  /\ cuts < MaxCuts /\ cuts' = cuts + 1
  /\ Reachable(d)
  /\ alive' = [alive EXCEPT ![d] = FALSE]
  /\ dialing' = IF Late THEN dialing ELSE [dialing EXCEPT ![d] = {}]
  /\ inbox' = [inbox EXCEPT ![d] = << >>] /\ hello' = [hello EXCEPT ![d] = FALSE]
  /\ UNCHANGED <<account, sock, conn, serving, agent>>

\* No pong since the last heartbeat, or an error: abort(), and the timer is set.
HeartbeatFails(d) ==
  /\ conn[d] # "closed" /\ ~alive[d]
  /\ conn' = [conn EXCEPT ![d] = "closed"]
  /\ UNCHANGED <<account, sock, alive, dialing, serving, agent, inbox, hello, cuts>>

\* onTextMessage("welcome"): only now does the server know the socket.
Welcome(d) ==
  /\ inbox[d] # << >> /\ Head(inbox[d]) = "welcome"
  /\ inbox' = [inbox EXCEPT ![d] = Tail(@)] /\ hello' = [hello EXCEPT ![d] = TRUE]
  /\ UNCHANGED <<account, sock, conn, alive, dialing, serving, agent, cuts>>

\* serve_agent() has recorded a hello. "ready" goes to the socket it came on.
Hello(d) ==
  /\ hello[d] /\ sock[d] \in serving[d]
  /\ hello' = [hello EXCEPT ![d] = FALSE]
  /\ inbox' = [inbox EXCEPT ![d] = Queued(d, "ready")]
  /\ UNCHANGED <<account, sock, conn, alive, dialing, serving, agent, cuts>>

\* Takes the frame at the head of the inbox.
Received(d, frame) ==
  /\ inbox[d] # << >> /\ Head(inbox[d]) = frame
  /\ inbox' = [inbox EXCEPT ![d] = Tail(@)]
  /\ UNCHANGED <<account, sock, conn, alive, dialing, serving, agent, hello, cuts>>

\* The socket goes with the device's process, or with stop().
Closed(d) ==
  /\ conn' = [conn EXCEPT ![d] = "closed"] /\ alive' = [alive EXCEPT ![d] = FALSE]
  /\ dialing' = IF Late THEN dialing ELSE [dialing EXCEPT ![d] = {}]
  /\ inbox' = [inbox EXCEPT ![d] = << >>] /\ hello' = [hello EXCEPT ![d] = FALSE]
  /\ UNCHANGED <<sock, serving, agent>>

Link(d) ==
  \/ OpenSocket(d) \/ Cut(d) \/ HeartbeatFails(d) \/ Welcome(d) \/ Hello(d)
  \/ \E n \in 1 .. sock[d] : Serve(d, n) \/ Leave(d, n)

\* The server pushes to the socket the device reads, not to one that it left: "the
\* old one is usually a half-dead connection the device already gave up on"
\* (serve_agent()). Of an account no device is removed from.
PushesReach ==
  \A d \in Device : Reachable(d) /\ sock[d] \in serving[d] => agent[d] = sock[d]
=============================================================================

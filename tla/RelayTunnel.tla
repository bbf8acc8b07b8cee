---------------------------- MODULE RelayTunnel -----------------------------
(***************************************************************************)
(* One connection carried by the relay: on each device a Pipe between a    *)
(* local TCP connection and a WebSocket (core/account/RelayTunnel.cpp), in *)
(* the middle the server's pump() between the two sockets (relay.rs),      *)
(* which RelayPairing brought together.                                    *)
(*                                                                         *)
(* Bytes are counted in chunks; every queue has the high-water mark of the *)
(* code, in chunks. The two applications are curl (near) and the share     *)
(* server (far): they write, read and close when they like.                *)
(***************************************************************************)
EXTENDS RelayPairing, Integers, SequencesExt

CONSTANTS
  Watched,     \* the connection whose pipes are followed
  HighWater,   \* kHighWaterBytes, in chunks
  NetCap,      \* frames a network link holds before it stalls its sender
  MaxWrite     \* bound: chunks each application writes

ASSUME TunnelAssumption ==
  /\ Watched \in Conn /\ {HighWater, NetCap} \subseteq Nat \ {0}
  /\ MaxWrite \in [{"near", "far"} -> Nat]

VARIABLES
  pipe,     \* the Pipe of each device
  up, down, \* frames from a device to the server, and back
  hold,     \* the device whose frame pump() is sending on, or "none"
  eof,      \* devices whose EOF pump() has read
  wrote, got, \* history: chunks each application wrote and was given
  late,     \* history: devices whose local socket was closed on unparsed frames
  closed,   \* history: how each application closed: "early" is before its relay socket was up
  broken    \* a socket was lost, or the pump gave up on an idle pair

carried == <<pipe, up, down, hold, eof, wrote, got, late, closed, broken>>
relayVars == <<session, at, waiting, mate, slots, giveUps, crossed, carried>>

Device == {"near", "far"}
Peer(d) == IF d = "near" THEN "far" ELSE "near"

\* in: unread in the local socket; toWs: m_toWs; wsq: QWebSocket's write queue with
\* the TLS one below it; pend: m_pendingToTcp; tcpq: the local socket's write queue;
\* check: the queued call of finish(); timer: the fallback of startEndFallbackIfDrained().
Built(tcp, ws) ==
  [life |-> "on", tcp |-> tcp, ws |-> ws, in |-> 0, toWs |-> 0, wsq |-> << >>,
   pend |-> 0, tcpq |-> 0, done |-> FALSE, sendEnd |-> FALSE, waitEnd |-> FALSE,
   dropTcp |-> FALSE, check |-> FALSE, timer |-> FALSE]

NotBuilt == [Built("none", "none") EXCEPT !.life = "none"]

\* deleteLater(): both sockets are children of the Pipe.
Deleted(tcp) == [Built(tcp, "gone") EXCEPT !.life = "gone", !.done = TRUE]

Frame == {"data", "eof", "paired", "close"}
Pipes == [life : {"none", "on", "gone"}, tcp : {"none", "opening", "on", "refused", "gone"},
          ws : {"none", "opening", "on", "gone"}, in : Nat, toWs : 0 .. HighWater,
          wsq : Seq({"data", "eof"}), pend : Nat, tcpq : 0 .. HighWater,
          done : BOOLEAN, sendEnd : BOOLEAN, waitEnd : BOOLEAN, dropTcp : BOOLEAN,
          check : BOOLEAN, timer : BOOLEAN]

RelayTypeOK ==
  /\ PairingTypeOK /\ pipe \in [Device -> Pipes]
  /\ up \in [Device -> Seq(Frame)] /\ down \in [Device -> Seq(Frame)]
  /\ hold \in Device \cup {"none"} /\ eof \subseteq Device
  /\ wrote \in [Device -> Nat] /\ got \in [Device -> Nat] /\ late \subseteq Device
  /\ closed \in [Device -> {"no", "early", "clean"}] /\ broken \in BOOLEAN

RelayInit ==
  /\ PairingInit
  /\ pipe = [d \in Device |-> NotBuilt]
  /\ up = [d \in Device |-> << >>] /\ down = [d \in Device |-> << >>]
  /\ hold = "none" /\ eof = {}
  /\ wrote = [d \in Device |-> 0] /\ got = [d \in Device |-> 0] /\ late = {}
  /\ closed = [d \in Device |-> "no"] /\ broken = FALSE
-----------------------------------------------------------------------------
(* The parts of Pipe its slots are made of; p is the Pipe.                 *)

\* pumpToWebSocket(): m_toWs first; while the socket is not up, into m_toWs.
ToWs(p) ==
  IF p.ws # "on"
  THEN LET n == Min({p.in, HighWater - p.toWs})
       IN  [p EXCEPT !.in = @ - n, !.toWs = @ + n]
  ELSE LET n == Min({p.toWs, HighWater - Len(p.wsq)})
           m == Min({p.in, HighWater - Len(p.wsq) - n})
       IN  [p EXCEPT !.toWs = @ - n, !.in = @ - m,
                     !.wsq = @ \o [k \in 1 .. n + m |-> "data"]]

\* Mutant: the relay is trusted to close after the EOF.
FallbackNever(p) == p

\* startEndFallbackIfDrained()
Fallback(p) ==
  IF p.waitEnd /\ p.wsq = << >> THEN [p EXCEPT !.waitEnd = FALSE, !.timer = TRUE] ELSE p

\* sendEndIfDrained()
EndIfDrained(p) ==
  IF p.sendEnd /\ p.toWs = 0 /\ p.in = 0 /\ p.wsq = << >>
  THEN [p EXCEPT !.sendEnd = FALSE, !.waitEnd = TRUE, !.wsq = Append(@, "eof")] ELSE p

\* onWriteProgress()
Progress(p) == Fallback(EndIfDrained(ToWs(p)))

\* pumpToTcp()
ToTcp(p) ==
  LET n == Min({p.pend, HighWater - p.tcpq})
  IN  IF p.tcp = "on" THEN [p EXCEPT !.pend = @ - n, !.tcpq = @ + n] ELSE p

\* disconnectTcpIfDrained(): nothing is queued, so the socket is closed at once.
DropIfDrained(p) ==
  IF p.dropTcp /\ p.pend = 0 /\ p.tcpq = 0 THEN Deleted("gone") ELSE p

\* finish() for the local socket, whose state is already tcp. After a finish() for
\* the WebSocket its disconnected() deletes the Pipe.
TcpFinished(p, tcp) ==
  LET q == ToWs([p EXCEPT !.done = TRUE, !.tcp = tcp])
  IN  IF p.done \/ p.ws # "on" THEN Deleted(tcp)
      ELSE EndIfDrained([q EXCEPT !.sendEnd = TRUE])

\* Mutant: what QWebSocket's parser still holds is not waited for.
WsFinishedAtOnce(p) ==
  IF p.done THEN Deleted(p.tcp)
  ELSE IF p.tcp # "on" THEN Deleted("refused")
  ELSE DropIfDrained(ToTcp([p EXCEPT !.done = TRUE, !.ws = "gone", !.dropTcp = TRUE]))

\* finish() for the WebSocket: the local socket gets its tail first.
WsFinished(p) ==
  IF p.done THEN Deleted(p.tcp)
  ELSE IF p.tcp # "on" THEN Deleted("refused")
  ELSE ToTcp([p EXCEPT !.done = TRUE, !.ws = "gone", !.dropTcp = TRUE, !.check = TRUE])
-----------------------------------------------------------------------------
(* The Pipe's events. A Pipe that goes closes its WebSocket, in order.     *)

Become(d, p) ==
  /\ pipe' = [pipe EXCEPT ![d] = p]
  /\ up' = IF p.life = "gone" /\ pipe[d].ws \in {"opening", "on"}
           THEN [up EXCEPT ![d] = Append(@, "close")] ELSE up

Rest == UNCHANGED <<pairing, hold, eof, broken>>

\* readyRead(): the read buffer is capped, the application waits for room.
AppWrites(d) ==
  LET p == pipe[d]
  IN  /\ p.life = "on" /\ p.tcp = "on" /\ wrote[d] < MaxWrite[d] /\ p.in < HighWater
      /\ wrote' = [wrote EXCEPT ![d] = @ + 1]
      /\ Become(d, ToWs([p EXCEPT !.in = @ + 1]))
      /\ Rest /\ UNCHANGED <<down, got, late, closed>>

\* error() and disconnected() of the local socket.
AppCloses(d) ==
  LET p == pipe[d]
  IN  /\ p.life = "on" /\ p.tcp = "on"
      /\ closed' = [closed EXCEPT ![d] = IF p.ws = "opening" THEN "early" ELSE "clean"]
      /\ Become(d, TcpFinished(p, "gone"))
      /\ Rest /\ UNCHANGED <<down, wrote, got, late>>

TcpConnects(d) ==
  LET p == pipe[d]
  IN  /\ p.life = "on" /\ p.tcp = "opening"
      /\ \/ Become(d, ToTcp([p EXCEPT !.tcp = "on"]))
         \/ Become(d, TcpFinished(p, "refused"))
      /\ Rest /\ UNCHANGED <<down, wrote, got, late, closed>>

\* bytesWritten() of the local socket, which does not wait for the parser.
TcpWritten(d) ==
  LET p == pipe[d]
      q == DropIfDrained(ToTcp([p EXCEPT !.tcpq = @ - 1]))
  IN  /\ p.life = "on" /\ p.tcp = "on" /\ p.tcpq > 0
      /\ got' = [got EXCEPT ![d] = @ + 1]
      /\ late' = IF q.life = "gone" /\ down[d] # << >> THEN late \cup {d} ELSE late
      /\ Become(d, q)
      /\ Rest /\ UNCHANGED <<down, wrote, closed>>

\* connected(): the server has accepted the upgrade.
WsConnects ==
  LET p == pipe["near"]
  IN  /\ p.life = "on" /\ p.ws = "opening" /\ at[Watched] \notin {"idle", "dialing"}
      /\ down["near"] # <<"close">>
      /\ Become("near", Progress([p EXCEPT !.ws = "on"]))
      /\ Rest /\ UNCHANGED <<down, wrote, got, late, closed>>

\* bytesWritten() of the WebSocket, or of the TLS socket under it.
WsWritten(d) ==
  LET p == pipe[d]
  IN  /\ p.life = "on" /\ p.ws = "on" /\ p.wsq # << >> /\ Len(up[d]) < NetCap
      /\ pipe' = [pipe EXCEPT ![d] = Progress([p EXCEPT !.wsq = Tail(@)])]
      /\ up' = [up EXCEPT ![d] = Append(@, Head(p.wsq))]
      /\ Rest /\ UNCHANGED <<down, wrote, got, late, closed>>

\* binaryMessageReceived(); the last frames may be parsed after disconnected().
WsReceives(d) ==
  LET p == pipe[d]
  IN  /\ p.life = "on" /\ p.ws # "opening" /\ down[d] # << >> /\ Head(down[d]) = "data"
      /\ down' = [down EXCEPT ![d] = Tail(@)]
      /\ Become(d, ToTcp([p EXCEPT !.pend = @ + 1]))
      /\ Rest /\ UNCHANGED <<wrote, got, late, closed>>

\* park(): the relay has found the other half; the share is dialled.
WsPaired ==
  /\ pipe["far"].life = "none" /\ down["far"] # << >> /\ Head(down["far"]) = "paired"
  /\ down' = [down EXCEPT !["far"] = Tail(@)]
  /\ Become("far", Built("opening", "on"))
  /\ Rest /\ UNCHANGED <<wrote, got, late, closed>>

\* error() and disconnected() of the WebSocket, whose last frames may be unparsed.
WsEnds(d) ==
  LET p == pipe[d]
  IN  /\ p.life = "on" /\ p.ws # "gone"
      /\ down[d] # << >> /\ Last(down[d]) = "close"
      /\ down' = [down EXCEPT ![d] = Front(@)]
      /\ pipe' = [pipe EXCEPT ![d] = WsFinished(p)]
      /\ Rest /\ UNCHANGED <<up, wrote, got, late, closed>>

\* The call finish() queued behind the parser.
TailChecked(d) ==
  LET p == pipe[d]
  IN  /\ p.life = "on" /\ p.check /\ down[d] = << >>
      /\ Become(d, DropIfDrained(ToTcp([p EXCEPT !.check = FALSE])))
      /\ Rest /\ UNCHANGED <<down, wrote, got, late, closed>>

\* kCloseFallbackMs after the EOF has left.
FallbackFires(d) ==
  /\ pipe[d].life = "on" /\ pipe[d].timer
  /\ Become(d, Deleted(pipe[d].tcp))
  /\ Rest /\ UNCHANGED <<down, wrote, got, late, closed>>

PipeEvent(d) ==
  \/ TcpConnects(d) \/ TcpWritten(d) \/ WsWritten(d) \/ WsReceives(d) \/ WsEnds(d)
  \/ TailChecked(d) \/ FallbackFires(d)
-----------------------------------------------------------------------------
(* The server: the halves meet, and pump() copies.                         *)

\* A frame to a socket that is gone goes nowhere.
GoneFor(d) == pipe[d].ws = "gone" \/ (down[d] # << >> /\ Last(down[d]) = "close")
Sent(d, frame) == IF GoneFor(d) THEN down[d] ELSE Append(down[d], frame)
Shut == [d \in Device |-> Sent(d, "close")]

\* A socket the server drops, refuses or closes; "paired" opens a pump.
Told ==
  /\ down' = IF at[Watched] = "ended" \/ at'[Watched] \notin {"ended", "paired"} THEN down
             ELSE IF at'[Watched] = "ended"
             THEN IF at[Watched] = "paired" THEN Shut
                  ELSE [down EXCEPT !["near"] = Sent("near", "close")]
             ELSE IF at[Watched] = "paired" THEN down
             ELSE [down EXCEPT !["far"] = <<"paired">>]
  /\ UNCHANGED <<pipe, up, hold, eof, wrote, got, late, closed, broken>>

\* onLocalConnection(): the Pipe is there before its WebSocket is up.
Dials(x) ==
  /\ Dial(x)
  /\ pipe' = IF x = Watched THEN [pipe EXCEPT !["near"] = Built("on", "opening")] ELSE pipe
  /\ UNCHANGED <<up, down, hold, eof, wrote, got, late, closed, broken>>

Serves(x) == Served(x) /\ Told
GivesUp(x) == GiveUp(x) /\ Told
SessionLost == SessionEnds /\ Told

\* Either socket's next message, unless one is still being sent on.
Polls(d) ==
  /\ at[Watched] = "paired" /\ hold = "none" /\ up[d] # << >>
  /\ up' = [up EXCEPT ![d] = Tail(@)]

\* forward(): a binary frame before the EOF.
PicksUp(d) ==
  /\ Polls(d) /\ Head(up[d]) = "data" /\ d \notin eof
  /\ hold' = d
  /\ UNCHANGED <<pairing, pipe, down, eof, wrote, got, late, closed, broken>>

\* Its send() ends; to a socket that is gone it is lost.
SendsOn ==
  /\ at[Watched] = "paired" /\ hold # "none"
  /\ LET to == Peer(hold)
     IN  /\ GoneFor(to) \/ Len(down[to]) < NetCap
         /\ down' = [down EXCEPT ![to] = Sent(to, "data")]
  /\ hold' = "none"
  /\ UNCHANGED <<pairing, pipe, up, eof, wrote, got, late, closed, broken>>

\* Only this direction is over; the other device is not told.
ReadsEof(d) ==
  /\ Polls(d) /\ Head(up[d]) = "eof" /\ eof' = eof \cup {d}
  /\ IF eof' = Device THEN PumpEnds(Watched) /\ down' = Shut
     ELSE UNCHANGED <<pairing, down>>
  /\ UNCHANGED <<pipe, hold, wrote, got, late, closed, broken>>

\* The socket closed, or went on after its EOF.
ReadsEnd(d) ==
  /\ Polls(d) /\ (Head(up[d]) = "close" \/ (Head(up[d]) = "data" /\ d \in eof))
  /\ PumpEnds(Watched) /\ down' = Shut
  /\ UNCHANGED <<pipe, hold, eof, wrote, got, late, closed, broken>>

Pumps == SendsOn \/ \E d \in Device : PicksUp(d) \/ ReadsEof(d) \/ ReadsEnd(d)

\* relay_idle_seconds without a message from either, or a frame that does not leave.
PumpIdles ==
  /\ ~broken
  /\ PumpEnds(Watched) /\ down' = Shut /\ broken' = TRUE /\ hold' = "none"
  /\ UNCHANGED <<pipe, up, eof, wrote, got, late, closed>>

\* The network drops a device's socket, with what it carried.
SocketLost(d) ==
  /\ ~broken /\ broken' = TRUE
  /\ pipe[d].life = "on" /\ pipe[d].ws = "on"
  /\ up' = [up EXCEPT ![d] = <<"close">>] /\ down' = [down EXCEPT ![d] = <<"close">>]
  /\ UNCHANGED <<pairing, pipe, hold, eof, wrote, got, late, closed>>
-----------------------------------------------------------------------------
RelayNext ==
  \/ \E x \in Socket : Dials(x) \/ Serves(x) \/ GivesUp(x)
  \/ \E d \in Device : AppWrites(d) \/ AppCloses(d) \/ PipeEvent(d) \/ SocketLost(d)
  \/ WsConnects \/ WsPaired \/ Pumps \/ PumpIdles \/ SessionLost

\* Every connection is dialled and served, every event delivered, every timer fires;
\* an application reads what it is given. Nobody has to write, close, fail or give up.
Progresses ==
  \/ \E c \in Conn : Dials(c) \/ Serves(c)
  \/ \E d \in Device : PipeEvent(d)
  \/ WsConnects \/ WsPaired \/ Pumps

RelayFairness ==
  /\ WF_relayVars(Progresses)
  /\ \A a \in Channel : WF_relayVars(Dials(a) \/ Serves(a))

RelaySpec == RelayInit /\ [][RelayNext]_relayVars
RelayFairSpec == RelaySpec /\ RelayFairness
-----------------------------------------------------------------------------
\* A connection the accessing device opens finds its other half, without waiting for
\* the minute to pass, unless the relay refused it or both halves missed each other.
Connects ==
  \A c \in Conn :
    at[c] = "dialing" ~> (at[c] \in {"paired", "ended"} \/ c \in crossed)

\* When one application closes, the other is given all of what it wrote before it
\* sees the end (finish(), sendEndIfDrained(), disconnectTcpIfDrained()), and all but
\* what QWebSocket had not parsed when its socket's bytesWritten() closed it, which
\* does not wait for the call finish() queued behind the parser.
TailArrives ==
  \A d \in Device :
    LET e == Peer(d)
    IN  closed[d] = "clean" /\ closed[e] = "no" /\ pipe[e].tcp = "gone" /\ ~broken
          => /\ got[e] + Len(down[e]) = wrote[d]
             /\ down[e] # << >> => e \in late

\* Once one end has finished, both Pipes go: nothing waits for a message the other
\* side will never send.
BothGone == pipe["near"].life = "gone" /\ pipe["far"].life # "on" /\ at[Watched] # "paired"
PipesEnd ==
  (\E d \in Device : pipe[d].done) ~> (BothGone \/ Watched \in crossed)
=============================================================================

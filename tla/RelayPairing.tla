---------------------------- MODULE RelayPairing ----------------------------
(***************************************************************************)
(* How the relay finds the two halves of a tunnel (server/src/relay.rs):   *)
(* the accessing device dials a socket for each connection it is asked     *)
(* for, the serving one keeps a few parked (core/account/RelayTunnel.cpp). *)
(* A socket looks for the other half under one lock and parks under        *)
(* another; each runs in a task of its own.                                *)
(*                                                                         *)
(* A parked socket is a sender in its role's queue; the sender of one that *)
(* gave up stays there, dead.  Left out: tickets, ping and pong.           *)
(***************************************************************************)
EXTENDS Naturals, FiniteSets, Sequences

CONSTANTS
  Conn,     \* connections made to the accessing tunnel's port
  Channel,  \* sockets the serving tunnel keeps parked
  Limit,    \* relay_max_conns
  MaxGiveUps  \* bound: waits that reach PARK_SECONDS

ASSUME PairingAssumption ==
  /\ Conn \cap Channel = {} /\ IsFiniteSet(Conn \cup Channel)
  /\ Limit \in Nat /\ MaxGiveUps \in Nat

VARIABLES
  session,  \* the session is in the server's table
  at,       \* where each socket is; a channel's is the one it keeps
  waiting,  \* the queue of each role: [who, live]
  mate,     \* the channel a connection was paired through
  slots,    \* relay_conns
  giveUps,
  crossed   \* history: connections that waited while a channel did

pairing == <<session, at, waiting, mate, slots, giveUps, crossed>>

Socket == Conn \cup Channel
Role == {"accept", "connect"}
RoleOf(x) == IF x \in Channel THEN "accept" ELSE "connect"
Other(role) == IF role = "accept" THEN "connect" ELSE "accept"

\* idle: not opened yet, or about to be opened again. dialing: on its way to the
\* server. joining: looking for its half. parking: found none. ended: refused or lost.
Places == {"idle", "dialing", "joining", "parking", "parked", "paired", "ended"}

NoMate == "none"

PairingTypeOK ==
  /\ session \in BOOLEAN /\ slots \in Nat /\ giveUps \in 0 .. MaxGiveUps
  /\ at \in [Socket -> Places] /\ \A x \in Channel : at[x] \notin {"paired", "ended"}
  /\ waiting \in [Role -> Seq([who : Socket, live : BOOLEAN])]
  /\ mate \in [Conn -> Channel \cup {NoMate}] /\ crossed \subseteq Conn

PairingInit ==
  /\ session = TRUE /\ slots = 0 /\ giveUps = 0 /\ crossed = {}
  /\ at = [x \in Socket |-> "idle"]
  /\ waiting = [role \in Role |-> << >>]
  /\ mate = [c \in Conn |-> NoMate]

\* Mutant: a socket the relay sent away is not replaced.
AfterNotParkedAgain(x) == "ended"

\* A socket that ends: the serving tunnel opens another, after kReparkDelayMs.
After(x) == IF x \in Channel THEN "idle" ELSE "ended"

\* openRelay(): by onLocalConnection() or park().
Dial(x) ==
  /\ at[x] = "idle" /\ at' = [at EXCEPT ![x] = "dialing"]
  /\ UNCHANGED <<session, waiting, mate, slots, giveUps, crossed>>

\* relay_ws(): refused without a session, and when every slot is taken.
Admit(x) ==
  /\ at[x] = "dialing"
  /\ IF session /\ slots < Limit
     THEN slots' = slots + 1 /\ at' = [at EXCEPT ![x] = "joining"]
     ELSE slots' = slots /\ at' = [at EXCEPT ![x] = After(x)]
  /\ UNCHANGED <<session, waiting, mate, giveUps, crossed>>

\* x and y, one of each role, are handed to pump(). x's task ends, and with it its
\* slot; y's pumps and keeps its own. The channel whose socket is taken parks another.
Paired(x, y) ==
  LET c == IF x \in Conn THEN x ELSE y
      a == IF x \in Conn THEN y ELSE x
  IN  /\ at' = [at EXCEPT ![c] = "paired", ![a] = "idle"]
      /\ mate' = [mate EXCEPT ![c] = a]

\* One turn of join()'s loop: a dead sender hands the socket back.
Join(x) ==
  LET other == Other(RoleOf(x))
  IN  /\ at[x] = "joining"
      /\ \/ /\ ~session
            /\ at' = [at EXCEPT ![x] = After(x)] /\ slots' = slots - 1
            /\ UNCHANGED <<waiting, mate>>
         \/ /\ session /\ waiting[other] = << >>
            /\ at' = [at EXCEPT ![x] = "parking"]
            /\ UNCHANGED <<waiting, mate, slots>>
         \/ /\ session /\ waiting[other] # << >>
            /\ waiting' = [waiting EXCEPT ![other] = Tail(@)]
            /\ IF Head(waiting[other]).live
               THEN Paired(x, Head(waiting[other]).who) /\ slots' = slots - 1
               ELSE UNCHANGED <<at, mate, slots>>
      /\ UNCHANGED <<session, giveUps, crossed>>

Live(role) == {e.who : e \in {f \in {waiting[role][n] : n \in DOMAIN waiting[role]} : f.live}}

\* The second lock of join(): nothing is looked for again.
Park(x) ==
  LET role == RoleOf(x)
      meets == {x} \cup Live(Other(role))
  IN  /\ at[x] = "parking"
      /\ IF session
         THEN /\ at' = [at EXCEPT ![x] = "parked"]
              /\ waiting' = [waiting EXCEPT ![role] = Append(@, [who |-> x, live |-> TRUE])]
              /\ crossed' = IF meets = {x} THEN crossed ELSE crossed \cup (meets \cap Conn)
              /\ slots' = slots
         ELSE /\ at' = [at EXCEPT ![x] = After(x)] /\ slots' = slots - 1
              /\ UNCHANGED <<waiting, crossed>>
      /\ UNCHANGED <<session, mate, giveUps>>

\* PARK_SECONDS pass: the socket goes, its sender stays.
GiveUp(x) ==
  /\ giveUps < MaxGiveUps /\ giveUps' = giveUps + 1
  /\ at[x] = "parked"
  /\ at' = [at EXCEPT ![x] = After(x)] /\ slots' = slots - 1
  /\ waiting' = [waiting EXCEPT ![RoleOf(x)] = [n \in DOMAIN @ |->
                   IF @[n].who = x THEN [@[n] EXCEPT !.live = FALSE] ELSE @[n]]]
  /\ UNCHANGED <<session, mate, crossed>>

\* pump() returns, both sockets closed: the one task left ends.
PumpEnds(c) ==
  /\ at[c] = "paired" /\ at' = [at EXCEPT ![c] = "ended"] /\ slots' = slots - 1
  /\ UNCHANGED <<session, waiting, mate, giveUps, crossed>>

\* The session expires or is revoked; its queues go with it.
SessionEnds ==
  LET parked == {x \in Socket : at[x] = "parked"}
  IN  /\ session /\ session' = FALSE
      /\ at' = [x \in Socket |-> IF x \in parked THEN After(x) ELSE at[x]]
      /\ waiting' = [role \in Role |-> << >>]
      /\ slots' = slots - Cardinality(parked)
      /\ UNCHANGED <<mate, giveUps, crossed>>

Served(x) == Admit(x) \/ Join(x) \/ Park(x)

\* Two halves of one session never wait at once: each would have found the other.
NoTwoWait == Live("accept") = {} \/ Live("connect") = {}

\* "Cap the number of relay WebSockets open at once, whatever they are doing."
OpenCapped ==
  LET admitted == {x \in Socket : at[x] \in {"joining", "parking", "parked", "paired"}}
      mates == {c \in Conn : at[c] = "paired"}
  IN  Cardinality(admitted) + Cardinality(mates) <= Limit
=============================================================================

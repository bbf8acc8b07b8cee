----------------------- MODULE Clipboard_proofs -----------------------
(***************************************************************************)
(* Proofs about ClipboardDelivery (and AgentLink, which it extends), for   *)
(* any devices and payloads, any number of calls that are lost, rows that  *)
(* expire, restarts, sign-outs and removals, and whether or not a request  *)
(* to open a socket may come late; and about ClipboardSend, for any finite *)
(* set of records and any number of acts of the user.                      *)
(***************************************************************************)
EXTENDS ClipboardDelivery, ClipboardSend, SequenceTheorems, FiniteSetTheorems,
        WellFoundedInduction, TLAPS

-----------------------------------------------------------------------------
(* The socket                                                              *)

\* A queue of frames that is not longer than the server lets it grow.
Queue(q) == q \in Seq(Frame) /\ Len(q) <= Capacity

LEMMA QueueFacts ==
  /\ Queue(<< >>) /\ Queue(<<"welcome">>)
  /\ \A q : Queue(q) /\ q # << >> => Queue(Tail(q))
  /\ \A q : Queue(q) /\ Len(q) < Capacity => \A f \in Frame : Queue(Append(q, f))
  <1>1. Queue(<< >>) /\ Queue(<<"welcome">>)
    BY LinkAssumption DEF Queue, Frame
  <1>2. ASSUME NEW q, Queue(q), q # << >> PROVE Queue(Tail(q))
    BY <1>2, HeadTailProperties, LinkAssumption DEF Queue
  <1>3. ASSUME NEW q, Queue(q), Len(q) < Capacity, NEW f \in Frame PROVE Queue(Append(q, f))
    BY <1>3, AppendProperties, LinkAssumption DEF Queue
  <1> QED  BY <1>1, <1>2, <1>3

LEMMA PushedTyped ==
  ASSUME LinkTypeOK, NEW devices, NEW frame \in Frame
  PROVE  /\ Pushed(devices, frame) \in [Device -> Seq(Frame)]
         /\ \A d \in Device : Queue(Pushed(devices, frame)[d]) /\ Queue(Queued(d, frame))
  <1>1. \A d \in Device : Queue(inbox[d]) /\ Queue(Queued(d, frame))
    BY QueueFacts DEF LinkTypeOK, Queue, Queued
  <1> QED  BY <1>1 DEF Pushed, Queue

\* An inbox of which one queue is replaced by a queue.
LEMMA InboxTyped ==
  ASSUME LinkTypeOK, NEW d \in Device, NEW q, Queue(q)
  PROVE  /\ [inbox EXCEPT ![d] = q] \in [Device -> Seq(Frame)]
         /\ \A e \in Device : Len([inbox EXCEPT ![d] = q][e]) <= Capacity
  BY DEF LinkTypeOK, Queue

LEMMA LinkTypeInit == ASSUME NEW away, LinkInit(away) PROVE LinkTypeOK
  BY LinkAssumption, QueueFacts DEF LinkInit, LinkTypeOK, Queue

LEMMA LinkTypeStep == ASSUME LinkTypeOK, NEW d \in Device, Link(d) PROVE LinkTypeOK'
  <1> USE LinkAssumption DEF LinkTypeOK, account
  <1>1. CASE OpenSocket(d)
    BY <1>1, InboxTyped, QueueFacts DEF OpenSocket
  <1>2. CASE Cut(d)
    BY <1>2, InboxTyped, QueueFacts DEF Cut
  <1>3. CASE HeartbeatFails(d)
    BY <1>3 DEF HeartbeatFails
  <1>4. CASE Welcome(d)
    <2>1. Queue(Tail(inbox[d]))
      BY <1>4, QueueFacts DEF Welcome, Queue
    <2> QED  BY <1>4, <2>1, InboxTyped DEF Welcome
  <1>5. CASE Hello(d)
    BY <1>5, InboxTyped, PushedTyped DEF Hello, Frame
  <1>6. ASSUME NEW n \in 1 .. sock[d], Serve(d, n) PROVE LinkTypeOK'
    <2>1. /\ inbox' \in [Device -> Seq(Frame)] /\ \A e \in Device : Len(inbox'[e]) <= Capacity
          /\ conn' \in [Device -> {"closed", "opening", "open"}]
      <3>1. CASE n = sock[d] /\ Reachable(d)
        <4>1. inbox' = [inbox EXCEPT ![d] = <<"welcome">>] /\ conn' = [conn EXCEPT ![d] = "open"]
          BY <1>6, <3>1 DEF Serve
        <4>2. Queue(<<"welcome">>)
          BY QueueFacts
        <4>3. /\ [inbox EXCEPT ![d] = <<"welcome">>] \in [Device -> Seq(Frame)]
              /\ \A e \in Device : Len([inbox EXCEPT ![d] = <<"welcome">>][e]) <= Capacity
          BY <4>2, InboxTyped
        <4> QED  BY <4>1, <4>3
      <3>2. CASE ~(n = sock[d] /\ Reachable(d))
        BY <1>6, <3>2 DEF Serve
      <3> QED  BY <3>1, <3>2
    <2>2. \A e \in Device : dialing'[e] \cup serving'[e] \subseteq 1 .. sock'[e] /\ agent'[e] \in 0 .. sock'[e]
      BY <1>6 DEF Serve
    <2> QED  BY <1>6, <2>1, <2>2 DEF Serve
  <1>7. ASSUME NEW n \in 1 .. sock[d], Leave(d, n) PROVE LinkTypeOK'
    BY <1>7 DEF Leave, Left
  <1> QED  BY <1>1, <1>2, <1>3, <1>4, <1>5, <1>6, <1>7 DEF Link

LEMMA ClosedTyped ==
  ASSUME LinkTypeOK, NEW d \in Device, Closed(d), cuts' = cuts,
         wanted' \in [Device -> BOOLEAN], tokens' \in [Device -> BOOLEAN]
  PROVE  LinkTypeOK'
  <1>1. inbox' \in [Device -> Seq(Frame)] /\ \A e \in Device : Len(inbox'[e]) <= Capacity
    BY InboxTyped, QueueFacts DEF Closed
  <1>2. \A e \in Device : dialing'[e] \cup serving'[e] \subseteq 1 .. sock'[e] /\ agent'[e] \in 0 .. sock'[e]
    BY DEF Closed, LinkTypeOK
  <1> QED  BY <1>1, <1>2 DEF Closed, LinkTypeOK

-----------------------------------------------------------------------------
(* Types                                                                   *)

LEMMA BagFacts ==
  ASSUME NEW B, IsABag(B), NEW e
  PROVE  IsABag(B (+) SetToBag({e})) /\ IsABag(B (-) SetToBag({e})) /\ IsABag(EmptyBag)
  <1> DEFINE Some == {n \in Nat : n > 0}
  <1>0. B \in [DOMAIN B -> Some]
    BY DEF IsABag
  <1>1. IsABag(B (+) SetToBag({e}))
    <2> DEFINE C == B (+) SetToBag({e})
    <2>1. C = [x \in DOMAIN B \cup {e} |-> (IF x \in DOMAIN B THEN B[x] ELSE 0) + (IF x \in {e} THEN 1 ELSE 0)]
      BY DEF SetToBag, (+)
    <2>2. \A x \in DOMAIN B \cup {e} : (IF x \in DOMAIN B THEN B[x] ELSE 0) + (IF x \in {e} THEN 1 ELSE 0) \in Some
      BY <1>0
    <2>3. C \in [DOMAIN B \cup {e} -> Some] /\ DOMAIN C = DOMAIN B \cup {e}
      BY <2>1, <2>2
    <2> QED  BY <2>3 DEF IsABag
  <1>2. IsABag(B (-) SetToBag({e}))
    <2> DEFINE C == [x \in DOMAIN B |-> IF x \in {e} THEN B[x] - 1 ELSE B[x]]
               D == {x \in DOMAIN B : C[x] > 0}
               G == [x \in D |-> C[x]]
    <2>1. B (-) SetToBag({e}) = G
      BY DEF SetToBag, (-)
    <2>2. \A x \in D : C[x] \in Some
      BY <1>0
    <2>3. G \in [D -> Some] /\ DOMAIN G = D
      BY <2>2
    <2> QED  BY <2>1, <2>3 DEF IsABag
  <1>3. IsABag(EmptyBag)
    BY DEF IsABag, SetToBag, EmptyBag
  <1> QED  BY <1>1, <1>2, <1>3

LEMMA TypeInit == Init => TypeOK
  <1> SUFFICES ASSUME Init PROVE TypeOK
    OBVIOUS
  <1>1. LinkTypeOK
    BY LinkTypeInit DEF Init
  <1>2. IsABag(EmptyBag)
    BY DEF IsABag, SetToBag, EmptyBag
  <1> QED  BY <1>1, <1>2, DeliveryAssumption DEF Init, TypeOK, Nothing

LEMMA RowsTyped ==
  ASSUME TypeOK, NEW rows \in [Device -> [Payload -> {"none", "pending", "delivered"}]], Rows(rows)
  PROVE  row' \in [Device -> [Payload -> {"none", "pending", "delivered"}]] /\ payload' \subseteq payload
  BY DEF Rows

LEMMA CallsTyped ==
  ASSUME TypeOK, NEW d \in Device
  PROVE  /\ \A k \in calls[d] : k \in Call /\ k.p \in Payload
         /\ \A k \in calls[d] : Ends(d, k) => calls' \in [Device -> SUBSET Call]
         /\ \A k \in calls[d] : \A at \in {"due", "ok", "failed", "orphan"} :
              Becomes(d, k, at) => calls' \in [Device -> SUBSET Call]
         /\ \A p \in Payload : New(p, "download") \in Call /\ New(p, "ack") \in Call
  <1>1. \A k \in calls[d] : k \in Call /\ k.p \in Payload
    BY DEF TypeOK, Call
  <1>2. ASSUME NEW k \in calls[d], NEW at \in {"due", "ok", "failed", "orphan"}
        PROVE  [k EXCEPT !.at = at] \in Call
    BY <1>1 DEF Call
  <1>3. \A p \in Payload : New(p, "download") \in Call /\ New(p, "ack") \in Call
    BY DEF New, Call
  <1>4. \A cs \in SUBSET Call : [calls EXCEPT ![d] = cs] \in [Device -> SUBSET Call]
    BY DEF TypeOK
  <1>5. calls[d] \subseteq Call
    BY DEF TypeOK
  <1>6. \A k \in calls[d] : Ends(d, k) => calls' = [calls EXCEPT ![d] = calls[d] \ {k}]
    BY DEF Ends, TypeOK
  <1>7. \A k \in calls[d] : \A at \in {"due", "ok", "failed", "orphan"} :
          Becomes(d, k, at) => calls' = [calls EXCEPT ![d] = (calls[d] \ {k}) \cup {[k EXCEPT !.at = at]}]
    BY DEF Becomes, TypeOK
  <1>8. ASSUME NEW k \in calls[d], NEW at \in {"due", "ok", "failed", "orphan"}, Becomes(d, k, at)
        PROVE  calls' \in [Device -> SUBSET Call]
    <2>1. (calls[d] \ {k}) \cup {[k EXCEPT !.at = at]} \in SUBSET Call
      BY <1>2, <1>5
    <2> QED  BY <1>4, <1>7, <1>8, <2>1
  <1>9. \A k \in calls[d] : Ends(d, k) => calls' \in [Device -> SUBSET Call]
    BY <1>4, <1>5, <1>6
  <1> QED  BY <1>1, <1>3, <1>8, <1>9

LEMMA AbortedTyped ==
  ASSUME TypeOK, NEW d \in Device, NEW asks \in Nat, Aborted(d, asks)
  PROVE  /\ due' \in [Device -> Nat] /\ \A e \in Device : IsABag(lists'[e])
         /\ calls' \in [Device -> SUBSET Call] /\ missed' \in [Device -> BOOLEAN]
  <1>1. calls' \in [Device -> SUBSET Call]
    <2> DEFINE cs == {[c EXCEPT !.at = "orphan"] : c \in {k \in calls[d] : k.is = "ack" /\ k.at \in {"due", "orphan"}}}
    <2>1. cs \subseteq Call
      <3> SUFFICES ASSUME NEW k \in calls[d] PROVE [k EXCEPT !.at = "orphan"] \in Call
        OBVIOUS
      <3>1. k \in Call
        BY DEF TypeOK
      <3> QED  BY <3>1 DEF Call
    <2>2. calls' = [calls EXCEPT ![d] = cs]
      BY DEF Aborted, TypeOK
    <2> HIDE DEF cs
    <2> QED  BY <2>1, <2>2 DEF TypeOK
  <1>2. IsABag(EmptyBag)
    BY DEF IsABag, SetToBag, EmptyBag
  <1>3. due' \in [Device -> Nat] /\ \A e \in Device : IsABag(lists'[e])
    BY <1>2 DEF TypeOK, Aborted
  <1> QED  BY <1>1, <1>3 DEF TypeOK, Aborted

LEMMA EmptiedTyped ==
  ASSUME TypeOK, NEW d \in Device, NEW asks \in Nat, Emptied(d, asks)
  PROVE  /\ due' \in [Device -> Nat] /\ \A e \in Device : IsABag(lists'[e])
         /\ calls' \in [Device -> SUBSET Call]
         /\ entry' \in [Device -> [Payload -> {"none", "downloading", "acking", "awaiting"}]]
         /\ done' \in [Device -> SUBSET Payload] /\ stuck' \in [Device -> SUBSET Payload]
         /\ saves' \in [Device -> [Payload -> Nat]] /\ missed' \in [Device -> BOOLEAN]
  <1>1. Aborted(d, asks)
    BY DEF Emptied
  <1> QED  BY <1>1, AbortedTyped DEF TypeOK, Emptied, Nothing

LEMMA EntryTyped ==
  ASSUME TypeOK, NEW d \in Device, NEW p \in Payload, NEW x \in {"none", "downloading", "acking", "awaiting"},
         entry' = [entry EXCEPT ![d][p] = x]
  PROVE  entry' \in [Device -> [Payload -> {"none", "downloading", "acking", "awaiting"}]]
  BY DEF TypeOK

LEMMA FaultTyped ==
  ASSUME TypeOK
  PROVE  (Fault => faults' \in 0 .. MaxFaults) /\ (Reset => resets' \in 0 .. MaxResets)
  BY DeliveryAssumption DEF TypeOK, Fault, Reset

LEMMA TypeStep == ASSUME TypeOK, [Next]_vars PROVE TypeOK'
  <1>a. TypeOK /\ LinkTypeOK
    BY DEF TypeOK
  <1>1. CASE UNCHANGED vars
    BY <1>1 DEF vars, linkVars, account, link, server, transit, client, bounds, seen, TypeOK, LinkTypeOK
  <1>2. ASSUME NEW d \in Device, LinkStep(d) PROVE TypeOK'
    BY <1>2, LinkTypeStep DEF LinkStep, TypeOK, server, transit, client, bounds, seen
  <1>b. UNCHANGED linkVars => LinkTypeOK'
    BY <1>a DEF linkVars, account, link, LinkTypeOK
  <1> USE DEF TypeOK, account, server, transit, client, bounds, seen
  <1>3. ASSUME NEW p \in Payload, NEW targets \in Targets, Send(p, targets) PROVE TypeOK'
    <2>1. targets \subseteq Device
      BY DEF Targets
    <2> QED  BY <1>b, <1>3, <2>1 DEF Send
  <1>4. ASSUME NEW p \in Payload, Expire(p) PROVE TypeOK'
    BY <1>b, <1>4, FaultTyped DEF Expire
  <1>5. ASSUME NEW d \in Device, ServeList(d) PROVE TypeOK'
    <2>1. \A e \in Device : IsABag(lists'[e])
      <3> DEFINE B == lists[d] (+) SetToBag({{p \in payload : row[d][p] = "pending"}})
      <3>1. IsABag(B)
        BY BagFacts
      <3>2. lists' = [lists EXCEPT ![d] = B]
        BY <1>5 DEF ServeList
      <3> HIDE DEF B
      <3> QED  BY <3>1, <3>2
    <2>2. due' \in [Device -> Nat]
      <3>1. due[d] \in Nat /\ due[d] > 0 /\ due' = [due EXCEPT ![d] = due[d] - 1]
        BY <1>5 DEF ServeList
      <3> QED  BY <3>1
    <2> QED  BY <1>b, <1>5, <2>1, <2>2 DEF ServeList
  <1>6. ASSUME NEW d \in Device, NEW k \in calls[d], ServeDownload(d, k) PROVE TypeOK'
    <2>1. calls' \in [Device -> SUBSET Call]
      BY <1>6, CallsTyped DEF ServeDownload
    <2> QED  BY <1>b, <1>6, <2>1 DEF ServeDownload
  <1>7. ASSUME NEW d \in Device, NEW k \in calls[d], ServeAck(d, k) PROVE TypeOK'
    <2>1. calls' \in [Device -> SUBSET Call]
      BY <1>7, CallsTyped DEF ServeAck
    <2>2. [row EXCEPT ![d][k.p] = "delivered"] \in [Device -> [Payload -> {"none", "pending", "delivered"}]]
      BY CallsTyped
    <2>3. row' \in [Device -> [Payload -> {"none", "pending", "delivered"}]] /\ payload' \subseteq payload
      BY <1>7, <2>2, RowsTyped DEF ServeAck
    <2> QED  BY <1>b, <1>7, <2>1, <2>3 DEF ServeAck
  <1>8. ASSUME NEW d \in Device, NEW p \in Payload, ExpireTombstone(d, p) PROVE TypeOK'
    <2>1. row' \in [Device -> [Payload -> {"none", "pending", "delivered"}]] /\ payload' \subseteq payload
      BY <1>8, RowsTyped DEF ExpireTombstone
    <2> QED  BY <1>b, <1>8, <2>1, FaultTyped DEF ExpireTombstone
  <1>9. ASSUME NEW d \in Device, NEW list \in SUBSET Payload, TakeList(d, list) PROVE TypeOK'
    <2>1. \A e \in Device : IsABag(lists'[e])
      <3>1. IsABag(lists[d] (-) SetToBag({list}))
        BY BagFacts
      <3>2. lists' = [lists EXCEPT ![d] = lists[d] (-) SetToBag({list})]
        BY <1>9 DEF TakeList
      <3> QED  BY <3>1, <3>2
    <2> DEFINE fresh == {p \in list \ done[d] : entry[d][p] = "none"}
               again == {p \in list \ done[d] : entry[d][p] = "awaiting"}
    <2>2. \/ entry' = entry
          \/ entry' = [entry EXCEPT ![d] = [p \in Payload |->
                        CASE p \in fresh -> "downloading" [] p \in again -> "acking" [] OTHER -> entry[d][p]]]
      BY <1>9 DEF TakeList
    <2>3. \/ calls' = calls
          \/ calls' = [calls EXCEPT ![d] = calls[d] \cup {New(p, "download") : p \in fresh}
                                                    \cup {New(p, "ack") : p \in again}]
      BY <1>9 DEF TakeList
    <2>4. fresh \subseteq Payload /\ again \subseteq Payload
      OBVIOUS
    <2> HIDE DEF fresh, again
    <2>5. entry' \in [Device -> [Payload -> {"none", "downloading", "acking", "awaiting"}]]
      <3>1. [p \in Payload |-> CASE p \in fresh -> "downloading" [] p \in again -> "acking" [] OTHER -> entry[d][p]]
              \in [Payload -> {"none", "downloading", "acking", "awaiting"}]
        OBVIOUS
      <3> QED  BY <2>2, <3>1
    <2>6. calls' \in [Device -> SUBSET Call]
      <3>1. {New(p, "download") : p \in fresh} \subseteq Call /\ {New(p, "ack") : p \in again} \subseteq Call
        BY <2>4, CallsTyped
      <3> QED  BY <2>3, <3>1
    <2> QED  BY <1>b, <1>9, <2>1, <2>5, <2>6 DEF TakeList
  <1>10. ASSUME NEW d \in Device, NEW k \in calls[d], TakeDownload(d, k) PROVE TypeOK'
    <2>1. k.p \in Payload /\ calls[d] \subseteq Call
      BY CallsTyped
    <2>2. CASE entry[d][k.p] # "downloading"
      <3>1. calls' \in [Device -> SUBSET Call]
        BY <1>10, <2>2, CallsTyped DEF TakeDownload
      <3> QED  BY <1>b, <1>10, <2>2, <3>1 DEF TakeDownload
    <2>3. CASE entry[d][k.p] = "downloading"
      <3>1. PICK saved \in BOOLEAN :
              /\ IF saved THEN UNCHANGED faults ELSE Fault
              /\ IF Acknowledges(saved) /\ tokens[d]
                 THEN /\ calls' = [calls EXCEPT ![d] = (@ \ {k}) \cup {New(k.p, "ack")}]
                      /\ entry' = [entry EXCEPT ![d][k.p] = "acking"]
                 ELSE /\ Ends(d, k)
                      /\ entry' = [entry EXCEPT ![d][k.p] =
                                     IF Acknowledges(saved) THEN "awaiting" ELSE "none"]
              /\ kept' = IF saved THEN [kept EXCEPT ![d] = @ \cup {k.p}] ELSE kept
              /\ saves' = IF saved THEN [saves EXCEPT ![d][k.p] = @ + 1] ELSE saves
              /\ missed' = IF saved THEN missed ELSE [missed EXCEPT ![d] = TRUE]
        BY <1>10, <2>3 DEF TakeDownload
      <3>2. calls' \in [Device -> SUBSET Call]
        <4>1. calls' = [calls EXCEPT ![d] = (calls[d] \ {k}) \cup {New(k.p, "ack")}] \/ Ends(d, k)
          BY <3>1
        <4>2. New(k.p, "ack") \in Call
          BY <2>1, CallsTyped
        <4>3. (calls[d] \ {k}) \cup {New(k.p, "ack")} \subseteq Call
          BY <2>1, <4>2
        <4> QED  BY <4>1, <4>3, CallsTyped
      <3>3. entry' \in [Device -> [Payload -> {"none", "downloading", "acking", "awaiting"}]]
        <4>1. \E x \in {"acking", "awaiting", "none"} : entry' = [entry EXCEPT ![d][k.p] = x]
          BY <3>1
        <4> QED  BY <2>1, <4>1, EntryTyped
      <3>4. /\ kept' \in [Device -> SUBSET Payload] /\ saves' \in [Device -> [Payload -> Nat]]
            /\ missed' \in [Device -> BOOLEAN] /\ faults' \in 0 .. MaxFaults
        BY <2>1, <3>1, FaultTyped
      <3> QED  BY <1>b, <1>10, <3>2, <3>3, <3>4 DEF TakeDownload
    <2> QED  BY <2>2, <2>3
  <1>11. ASSUME NEW d \in Device, NEW k \in calls[d], DownloadFails(d, k) \/ TakeAck(d, k) \/ AckFails(d, k)
        PROVE  TypeOK'
    <2>1. k.p \in Payload
      BY CallsTyped
    <2>2. calls' \in [Device -> SUBSET Call]
      BY <1>11, CallsTyped DEF DownloadFails, TakeAck, AckFails
    <2>3. entry' \in [Device -> [Payload -> {"none", "downloading", "acking", "awaiting"}]]
      <3>2. Unacked(entry[d][k.p]) \in {"none", "awaiting"}
        BY DEF Unacked
      <3>3. \/ entry' = [entry EXCEPT ![d][k.p] = "none"]
            \/ entry' = [entry EXCEPT ![d][k.p] = Unacked(entry[d][k.p])]
        BY <1>11, <2>1 DEF DownloadFails, TakeAck, AckFails
      <3> QED  BY <2>1, <3>2, <3>3, EntryTyped
    <2>4. done' \in [Device -> SUBSET Payload] /\ missed' \in [Device -> BOOLEAN]
      <3>1. CASE DownloadFails(d, k)
        BY <3>1 DEF DownloadFails
      <3>2. CASE TakeAck(d, k)
        BY <2>1, <3>2 DEF TakeAck
      <3>3. CASE AckFails(d, k)
        BY <3>3 DEF AckFails
      <3> QED  BY <1>11, <3>1, <3>2, <3>3
    <2> QED  BY <1>b, <1>11, <2>2, <2>3, <2>4 DEF DownloadFails, TakeAck, AckFails
  <1>12. ASSUME NEW d \in Device, NEW k \in calls[d], LoseCall(d, k) PROVE TypeOK'
    <2>1. k \in Call /\ calls[d] \subseteq Call
      BY CallsTyped
    <2>2. [k EXCEPT !.at = "failed"] \in Call /\ [k EXCEPT !.at = "orphan"] \in Call
      BY <2>1 DEF Call
    <2>3. CASE Becomes(d, k, "failed")
      <3>1. calls' \in [Device -> SUBSET Call]
        BY <2>3, CallsTyped
      <3> QED  BY <1>b, <1>12, <3>1, FaultTyped DEF LoseCall
    <2>4. CASE calls' = [calls EXCEPT ![d] = (calls[d] \ {k}) \cup {[k EXCEPT !.at = "failed"], [k EXCEPT !.at = "orphan"]}]
      <3>1. calls' \in [Device -> SUBSET Call]
        BY <2>1, <2>2, <2>4
      <3> QED  BY <1>b, <1>12, <3>1, FaultTyped DEF LoseCall
    <2> QED  BY <1>12, <2>3, <2>4 DEF LoseCall
  <1>13. ASSUME NEW d \in Device, LoseList(d) PROVE TypeOK'
    <2>1. ASSUME NEW list, lists' = [lists EXCEPT ![d] = lists[d] (-) SetToBag({list})]
          PROVE  \A e \in Device : IsABag(lists'[e])
      <3>1. IsABag(lists[d] (-) SetToBag({list}))
        BY BagFacts
      <3> QED  BY <2>1, <3>1
    <2>2. \A e \in Device : IsABag(lists'[e])
      BY <1>13, <2>1 DEF LoseList
    <2>3. due' \in [Device -> Nat] /\ missed' \in [Device -> BOOLEAN] /\ faults' \in 0 .. MaxFaults
      <3>1. due[d] \in Nat
        OBVIOUS
      <3>2. CASE due[d] > 0 /\ due' = [due EXCEPT ![d] = @ - 1]
        BY <1>13, <3>1, <3>2, FaultTyped DEF LoseList
      <3>3. CASE UNCHANGED due
        BY <1>13, <3>3, FaultTyped DEF LoseList
      <3> QED  BY <1>13, <3>2, <3>3 DEF LoseList
    <2> QED  BY <1>b, <1>13, <2>2, <2>3 DEF LoseList
  <1>14. ASSUME NEW p \in Payload, Announce(p) PROVE TypeOK'
    <2>1. inbox' \in [Device -> Seq(Frame)] /\ \A d \in Device : Len(inbox'[d]) <= Capacity
      BY <1>a, <1>14, PushedTyped DEF Announce, Frame, Queue
    <2> QED  BY <1>a, <1>14, <2>1 DEF Announce, LinkTypeOK
  <1>15. ASSUME NEW d \in Device, ForgetDevice(d) PROVE TypeOK'
    <2>1. LinkTypeOK'
      BY <1>a, <1>15 DEF ForgetDevice, LinkTypeOK
    <2>2. row' \in [Device -> [Payload -> {"none", "pending", "delivered"}]] /\ payload' \subseteq payload
      BY <1>15, RowsTyped DEF ForgetDevice, Nothing
    <2> QED  BY <1>15, <2>1, <2>2, FaultTyped DEF ForgetDevice
  <1>16. ASSUME NEW d \in Device, Told(d) PROVE TypeOK'
    <2>1. inbox[d] # << >> /\ inbox' = [inbox EXCEPT ![d] = Tail(inbox[d])]
      BY <1>16 DEF Told, Received
    <2>2. Queue(Tail(inbox[d]))
      BY <1>a, <2>1, QueueFacts DEF LinkTypeOK, Queue
    <2>3. LinkTypeOK'
      BY <1>a, <1>16, <2>1, <2>2, InboxTyped DEF Told, Received, LinkTypeOK
    <2>4. due' \in [Device -> Nat] /\ missed' \in [Device -> BOOLEAN]
      <3>1. CASE tokens[d]
        <4>1. due' = [due EXCEPT ![d] = due[d] + 1] /\ missed' = [missed EXCEPT ![d] = FALSE]
          BY <1>16, <3>1 DEF Told, Asked
        <4>2. due[d] + 1 \in Nat
          OBVIOUS
        <4> QED  BY <4>1, <4>2
      <3>2. CASE ~tokens[d]
        BY <1>16, <3>2 DEF Told
      <3> QED  BY <3>1, <3>2
    <2> QED  BY <1>16, <2>3, <2>4 DEF Told
  <1>17. ASSUME NEW d \in Device, Restart(d) PROVE TypeOK'
    <2>1. PICK restored \in BOOLEAN :
            /\ Reset
            /\ wanted' = [wanted EXCEPT ![d] = restored] /\ tokens' = [tokens EXCEPT ![d] = restored]
            /\ Emptied(d, IF restored THEN 1 ELSE 0) /\ Closed(d)
            /\ UNCHANGED <<cuts, server, faults, kept>>
      BY <1>17 DEF Restart
    <2>2. LinkTypeOK'
      BY <1>a, <2>1, ClosedTyped DEF LinkTypeOK
    <2>3. PICK asks \in Nat : Emptied(d, asks)
      BY <2>1
    <2> QED  BY <2>1, <2>2, <2>3, EmptiedTyped, FaultTyped
  <1>18. ASSUME NEW d \in Device, SignOut(d), Reset \/ UNCHANGED resets PROVE TypeOK'
    <2>1. LinkTypeOK'
      BY <1>a, <1>18, ClosedTyped DEF SignOut, LinkTypeOK
    <2> QED  BY <1>18, <2>1, EmptiedTyped, FaultTyped DEF SignOut
  <1>19. ASSUME NEW d \in Device, SignIn(d) PROVE TypeOK'
    <2>1. PICK accepted \in BOOLEAN :
            /\ tokens' = [tokens EXCEPT ![d] = accepted]
            /\ wanted' = IF accepted THEN [wanted EXCEPT ![d] = TRUE] ELSE wanted
            /\ Aborted(d, IF accepted THEN 1 ELSE 0)
            /\ stuck' = [stuck EXCEPT ![d] = @ \cup Downloading(d)]
            /\ UNCHANGED <<link, cuts, server, client, bounds, kept, saves>>
      BY <1>19 DEF SignIn
    <2>2. tokens' \in [Device -> BOOLEAN] /\ wanted' \in [Device -> BOOLEAN]
      BY <1>a, <2>1 DEF LinkTypeOK
    <2>3. LinkTypeOK'
      BY <1>a, <2>1, <2>2 DEF link, LinkTypeOK
    <2>4. PICK asks \in Nat : Aborted(d, asks)
      BY <2>1
    <2>5. stuck' \in [Device -> SUBSET Payload]
      BY <2>1 DEF Downloading
    <2> QED  BY <2>1, <2>3, <2>4, <2>5, AbortedTyped
  <1>21. ASSUME NEW d \in Device, SessionLost(d) PROVE TypeOK'
    <2>1. LinkTypeOK'
      BY <1>a, <1>21 DEF SessionLost, link, LinkTypeOK
    <2> QED  BY <1>21, <2>1, FaultTyped DEF SessionLost
  <1>22. ASSUME NEW d \in Device, SharingStops(d) PROVE TypeOK'
    <2>1. LinkTypeOK'
      BY <1>a, <1>22, ClosedTyped DEF SharingStops, LinkTypeOK
    <2> QED  BY <1>22, <2>1 DEF SharingStops
  <1>20. CASE ServerRestart
    <2>1. LinkTypeOK'
      BY <1>a, <1>20, QueueFacts, LinkAssumption DEF ServerRestart, LinkTypeOK, Queue
    <2> QED  BY <1>20, <2>1 DEF ServerRestart
  <1> QED
    BY <1>1, <1>2, <1>3, <1>4, <1>5, <1>6, <1>7, <1>8, <1>9, <1>10, <1>11, <1>12, <1>13, <1>14, <1>15,
       <1>16, <1>17, <1>18, <1>19, <1>20, <1>21, <1>22
    DEF Next, Serves, Takes, Loses, Revoked, SignsOut

\* Every variable of a delivery, and of the sockets, has its type.
THEOREM TypeCorrect == Spec => []TypeOK
  BY TypeInit, TypeStep, PTL DEF Spec

-----------------------------------------------------------------------------
(* The calls of a device, and what it remembers                            *)

\* A call that is not an orphan is what the entry of its payload waits for, and is the
\* only one of that payload. What is acknowledged has been saved.
CallsOf(d) ==
  /\ \A k \in calls[d] :
       /\ k.is = "download" => k.at # "orphan" /\ entry[d][k.p] = "downloading"
       /\ k.is = "ack" => k.p \in kept[d] /\ (k.at # "orphan" => entry[d][k.p] = "acking")
  /\ \A j, k \in calls[d] : j.p = k.p /\ j.at # "orphan" /\ k.at # "orphan" => j = k

\* A payload is saved once, and is then either waiting to be acknowledged or done with.
SavedOf(d, p) ==
  /\ entry[d][p] \in {"acking", "awaiting"} => p \in kept[d]
  /\ entry[d][p] = "downloading" \/ (entry[d][p] = "none" /\ p \notin done[d]) => saves[d][p] = 0
  /\ saves[d][p] <= 1

ClientInv == \A d \in Device : CallsOf(d) /\ \A p \in Payload : SavedOf(d, p)

LEMMA ClientInit == Init => ClientInv
  BY DEF Init, ClientInv, CallsOf, SavedOf, Nothing

\* Of one device only, and of nothing that another remembers.
LEMMA OthersClients ==
  ASSUME ClientInv, NEW d \in Device,
         \A e \in Device : e # d =>
           /\ calls'[e] = calls[e] /\ entry'[e] = entry[e] /\ done'[e] = done[e]
           /\ saves'[e] = saves[e] /\ kept'[e] = kept[e],
         CallsOf(d)', \A p \in Payload : SavedOf(d, p)'
  PROVE  ClientInv'
  <1> SUFFICES ASSUME NEW e \in Device, e # d PROVE CallsOf(e)' /\ \A p \in Payload : SavedOf(e, p)'
    BY DEF ClientInv
  <1> QED  BY DEF ClientInv, CallsOf, SavedOf

\* The other calls of the device when one is over: they are of other payloads, or orphans.
LEMMA OtherCalls ==
  ASSUME ClientInv, NEW d \in Device, NEW k \in calls[d], k.at # "orphan",
         NEW j \in calls[d] \ {k}, j.at # "orphan"
  PROVE  j.p # k.p
  BY DEF ClientInv, CallsOf

\* What a call may become while the device knows nothing of it.
Stamps(k, new) ==
  /\ \A n \in new : /\ n.p = k.p /\ n.is = k.is
                    /\ n.at # "orphan" => k.at # "orphan"
                    /\ n.is = "download" => n.at # "orphan"
  /\ \A m, n \in new : m.at # "orphan" /\ n.at # "orphan" => m = n

\* A call changes its status, or is lost or given up.
LEMMA Restamped ==
  ASSUME TypeOK, ClientInv, NEW d \in Device, NEW k \in calls[d], NEW new, Stamps(k, new),
         calls' = [calls EXCEPT ![d] = (calls[d] \ {k}) \cup new],
         UNCHANGED <<client, kept, saves>>
  PROVE  ClientInv'
  <1>1. CallsOf(d) /\ calls'[d] = (calls[d] \ {k}) \cup new /\ entry' = entry /\ kept' = kept
    BY DEF ClientInv, TypeOK, client
  <1>2. ASSUME NEW c \in calls'[d]
        PROVE  /\ c.is = "download" => c.at # "orphan" /\ entry[d][c.p] = "downloading"
               /\ c.is = "ack" => c.p \in kept[d] /\ (c.at # "orphan" => entry[d][c.p] = "acking")
    BY <1>1, <1>2 DEF CallsOf, Stamps
  <1>3. ASSUME NEW c \in calls'[d], NEW e \in calls'[d], c.p = e.p, c.at # "orphan", e.at # "orphan"
        PROVE  c = e
    <2>1. CASE c \in calls[d] \ {k} /\ e \in calls[d] \ {k}
      BY <1>1, <1>3, <2>1 DEF CallsOf
    <2>2. CASE c \in new /\ e \in new
      BY <1>3, <2>2 DEF Stamps
    <2>3. CASE c \in new /\ e \in calls[d] \ {k}
      BY <1>3, <2>3, OtherCalls DEF Stamps
    <2>4. CASE c \in calls[d] \ {k} /\ e \in new
      BY <1>3, <2>4, OtherCalls DEF Stamps
    <2> QED  BY <1>1, <1>3, <2>1, <2>2, <2>3, <2>4
  <1>4. CallsOf(d)'
    BY <1>1, <1>2, <1>3 DEF CallsOf
  <1>5. \A p \in Payload : SavedOf(d, p)'
    BY DEF ClientInv, SavedOf, client
  <1> QED  BY <1>4, <1>5, OthersClients DEF TypeOK, client

\* A call is over, and the device takes note: x is what it waits for now.
LEMMA Answered ==
  ASSUME TypeOK, ClientInv, NEW d \in Device, NEW k \in calls[d], k.at # "orphan", NEW x,
         calls' = [calls EXCEPT ![d] = calls[d] \ {k}], entry' = [entry EXCEPT ![d][k.p] = x],
         kept' = kept
  PROVE  CallsOf(d)'
  <1>1. k.p \in Payload /\ calls'[d] = calls[d] \ {k} /\ entry'[d] = [entry[d] EXCEPT ![k.p] = x]
    BY CallsTyped DEF TypeOK
  <1>2. \A c \in calls'[d] : c \in calls[d] /\ (c.at # "orphan" => entry'[d][c.p] = entry[d][c.p])
    BY <1>1, OtherCalls, CallsTyped DEF TypeOK
  <1> QED  BY <1>1, <1>2 DEF ClientInv, CallsOf

LEMMA ClientStep == ASSUME TypeOK, ClientInv, [Next]_vars PROVE ClientInv'
  <1>1. CASE UNCHANGED <<calls, client, kept, saves>>
    BY <1>1 DEF ClientInv, CallsOf, SavedOf, client
  <1>2. ASSUME NEW d \in Device, NEW k \in calls[d], ServeDownload(d, k) \/ ServeAck(d, k) PROVE ClientInv'
    <2> DEFINE again(at) == {[k EXCEPT !.at = at]}
    <2>1. k \in Call /\ CallsOf(d)
      BY CallsTyped DEF ClientInv
    <2>2. UNCHANGED <<client, kept, saves>>
      BY <1>2 DEF ServeDownload, ServeAck, client, seen
    <2>3. ASSUME NEW at \in {"ok", "failed"}, k.at # "orphan", Becomes(d, k, at) PROVE ClientInv'
      <3>1. Stamps(k, again(at))
        BY <2>1, <2>3 DEF Call, Stamps
      <3>2. calls' = [calls EXCEPT ![d] = (calls[d] \ {k}) \cup again(at)]
        BY <2>3 DEF Becomes
      <3> HIDE DEF again
      <3> QED  BY <2>2, <3>1, <3>2, Restamped
    <2>4. CASE ServeDownload(d, k)
      BY <2>3, <2>4 DEF ServeDownload
    <2>5. CASE ServeAck(d, k) /\ k.at = "due"
      BY <2>3, <2>5 DEF ServeAck
    <2>6. CASE ServeAck(d, k) /\ k.at = "orphan"
      <3>1. calls' = [calls EXCEPT ![d] = (calls[d] \ {k}) \cup {}]
        BY <2>6 DEF ServeAck, Ends
      <3>2. Stamps(k, {})
        BY DEF Stamps
      <3> QED  BY <2>2, <3>1, <3>2, Restamped
    <2> QED  BY <1>2, <2>4, <2>5, <2>6 DEF ServeAck
  <1>3. ASSUME NEW d \in Device, NEW k \in calls[d], LoseCall(d, k) PROVE ClientInv'
    <2> DEFINE lost == [k EXCEPT !.at = "failed"]
               late == [k EXCEPT !.at = "orphan"]
    <2>1. /\ k \in Call /\ lost.p = k.p /\ lost.is = k.is /\ lost.at = "failed"
          /\ late.p = k.p /\ late.is = k.is /\ late.at = "orphan"
      BY CallsTyped DEF Call
    <2>2. UNCHANGED <<client, kept, saves>>
      BY <1>3 DEF LoseCall, client, seen
    <2>3. \/ k.at # "orphan" /\ calls' = [calls EXCEPT ![d] = (calls[d] \ {k}) \cup {lost}]
          \/ k.at # "orphan" /\ k.is = "ack" /\ calls' = [calls EXCEPT ![d] = (calls[d] \ {k}) \cup {lost, late}]
      BY <1>3 DEF LoseCall, Becomes
    <2> HIDE DEF lost, late
    <2>4. CASE k.at # "orphan" /\ calls' = [calls EXCEPT ![d] = (calls[d] \ {k}) \cup {lost}]
      <3>1. Stamps(k, {lost})
        BY <2>1, <2>4 DEF Stamps
      <3> QED  BY <2>2, <2>4, <3>1, Restamped
    <2>5. CASE k.at # "orphan" /\ k.is = "ack" /\ calls' = [calls EXCEPT ![d] = (calls[d] \ {k}) \cup {lost, late}]
      <3>1. Stamps(k, {lost, late})
        BY <2>1, <2>5 DEF Stamps
      <3> QED  BY <2>2, <2>5, <3>1, Restamped
    <2> QED  BY <2>3, <2>4, <2>5
  <1>4. ASSUME NEW d \in Device, NEW k \in calls[d], DownloadFails(d, k) \/ TakeAck(d, k) \/ AckFails(d, k)
        PROVE  ClientInv'
    <2>1. k.p \in Payload /\ k \in Call /\ CallsOf(d) /\ \A p \in Payload : SavedOf(d, p)
      BY CallsTyped DEF ClientInv
    <2>2. k.at # "orphan" /\ calls' = [calls EXCEPT ![d] = calls[d] \ {k}] /\ kept' = kept /\ saves' = saves
      BY <1>4 DEF DownloadFails, TakeAck, AckFails, Ends, seen
    <2>3. CASE DownloadFails(d, k)
      <3>1. entry' = [entry EXCEPT ![d][k.p] = "none"] /\ done' = done /\ entry[d][k.p] = "downloading"
        BY <2>1, <2>3 DEF DownloadFails, CallsOf
      <3>2. CallsOf(d)'
        BY <2>2, <3>1, Answered
      <3>3. \A p \in Payload : SavedOf(d, p)'
        BY <2>1, <2>2, <3>1 DEF SavedOf, TypeOK
      <3> QED  BY <2>2, <3>1, <3>2, <3>3, OthersClients DEF TypeOK
    <2>4. CASE TakeAck(d, k)
      <3>1. entry' = [entry EXCEPT ![d][k.p] = "none"] /\ entry[d][k.p] = "acking"
            /\ done' = [done EXCEPT ![d] = done[d] \cup {k.p}]
        BY <2>1, <2>4 DEF TakeAck, CallsOf
      <3>2. CallsOf(d)'
        BY <2>2, <3>1, Answered
      <3>3. \A p \in Payload : SavedOf(d, p)'
        BY <2>1, <2>2, <3>1 DEF SavedOf, TypeOK
      <3> QED  BY <2>2, <3>1, <3>2, <3>3, OthersClients DEF TypeOK
    <2>5. CASE AckFails(d, k)
      <3>1. entry' = [entry EXCEPT ![d][k.p] = "awaiting"] /\ entry[d][k.p] = "acking" /\ done' = done
        BY <2>1, <2>5 DEF AckFails, CallsOf, Unacked, client
      <3>2. CallsOf(d)'
        BY <2>2, <3>1, Answered
      <3>3. \A p \in Payload : SavedOf(d, p)'
        BY <2>1, <2>2, <3>1 DEF SavedOf, TypeOK
      <3> QED  BY <2>2, <3>1, <3>2, <3>3, OthersClients DEF TypeOK
    <2> QED  BY <1>4, <2>3, <2>4, <2>5
  <1>5. ASSUME NEW d \in Device, NEW k \in calls[d], TakeDownload(d, k) PROVE ClientInv'
    <2>1. k.p \in Payload /\ k \in Call /\ CallsOf(d) /\ (\A p \in Payload : SavedOf(d, p)) /\ k.at = "ok"
          /\ entry[d][k.p] = "downloading" /\ done' = done
      BY <1>5, CallsTyped DEF ClientInv, TakeDownload, CallsOf
    <2>2. CASE entry' = [entry EXCEPT ![d][k.p] = "none"] /\ calls' = [calls EXCEPT ![d] = calls[d] \ {k}]
               /\ kept' = kept /\ saves' = saves
      <3>1. CallsOf(d)'
        BY <2>1, <2>2, Answered
      <3>2. \A p \in Payload : SavedOf(d, p)'
        BY <2>1, <2>2 DEF SavedOf, TypeOK
      <3> QED  BY <2>1, <2>2, <3>1, <3>2, OthersClients DEF TypeOK
    <2>3. CASE /\ entry' = [entry EXCEPT ![d][k.p] = "acking"]
               /\ calls' = [calls EXCEPT ![d] = (calls[d] \ {k}) \cup {New(k.p, "ack")}]
               /\ kept' = [kept EXCEPT ![d] = kept[d] \cup {k.p}]
               /\ saves' = [saves EXCEPT ![d][k.p] = saves[d][k.p] + 1]
      <3>1. New(k.p, "ack").p = k.p /\ New(k.p, "ack").is = "ack" /\ New(k.p, "ack").at = "due"
        BY DEF New
      <3>2. /\ calls'[d] = (calls[d] \ {k}) \cup {New(k.p, "ack")} /\ kept'[d] = kept[d] \cup {k.p}
            /\ entry'[d] = [entry[d] EXCEPT ![k.p] = "acking"] /\ entry'[d][k.p] = "acking"
        BY <2>1, <2>3 DEF TypeOK
      <3>3. \A c \in calls[d] \ {k} : c.at # "orphan" => entry'[d][c.p] = entry[d][c.p] /\ c.p # k.p
        BY <2>1, <3>2, OtherCalls, CallsTyped DEF TypeOK
      <3>4. CallsOf(d)'
        BY <2>1, <3>1, <3>2, <3>3 DEF CallsOf
      <3>5. \A p \in Payload : SavedOf(d, p)'
        BY <2>1, <2>3 DEF SavedOf, TypeOK
      <3> QED  BY <2>1, <2>3, <3>4, <3>5, OthersClients DEF TypeOK
    <2>4. PICK saved \in BOOLEAN :
            /\ IF Acknowledges(saved) /\ tokens[d]
               THEN /\ calls' = [calls EXCEPT ![d] = (calls[d] \ {k}) \cup {New(k.p, "ack")}]
                    /\ entry' = [entry EXCEPT ![d][k.p] = "acking"]
               ELSE /\ Ends(d, k)
                    /\ entry' = [entry EXCEPT ![d][k.p] =
                                   IF Acknowledges(saved) THEN "awaiting" ELSE "none"]
            /\ kept' = IF saved THEN [kept EXCEPT ![d] = kept[d] \cup {k.p}] ELSE kept
            /\ saves' = IF saved THEN [saves EXCEPT ![d][k.p] = saves[d][k.p] + 1] ELSE saves
      BY <1>5, <2>1 DEF TakeDownload
    <2>5. CASE /\ entry' = [entry EXCEPT ![d][k.p] = "awaiting"]
               /\ calls' = [calls EXCEPT ![d] = calls[d] \ {k}]
               /\ kept' = [kept EXCEPT ![d] = kept[d] \cup {k.p}]
               /\ saves' = [saves EXCEPT ![d][k.p] = saves[d][k.p] + 1]
      <3>1. /\ calls'[d] = calls[d] \ {k} /\ kept'[d] = kept[d] \cup {k.p}
            /\ entry'[d] = [entry[d] EXCEPT ![k.p] = "awaiting"]
        BY <2>1, <2>5 DEF TypeOK
      <3>2. \A c \in calls[d] \ {k} : c.at # "orphan" => entry'[d][c.p] = entry[d][c.p] /\ c.p # k.p
        BY <2>1, <3>1, OtherCalls, CallsTyped DEF TypeOK
      <3>3. CallsOf(d)'
        BY <2>1, <3>1, <3>2 DEF CallsOf
      <3>4. \A p \in Payload : SavedOf(d, p)'
        BY <2>1, <2>5 DEF SavedOf, TypeOK
      <3> QED  BY <2>1, <2>5, <3>3, <3>4, OthersClients DEF TypeOK
    <2> QED  BY <2>2, <2>3, <2>4, <2>5 DEF Acknowledges, Ends
  <1>6. ASSUME NEW d \in Device, NEW list \in SUBSET Payload, TakeList(d, list) PROVE ClientInv'
    <2> DEFINE fresh == {p \in list \ done[d] : entry[d][p] = "none"}
               again == {p \in list \ done[d] : entry[d][p] = "awaiting"}
    <2>a. CASE ~tokens[d]
      BY <1>1, <1>6, <2>a DEF TakeList, client, seen
    <2> SUFFICES ASSUME tokens[d] PROVE ClientInv'
      BY <2>a
    <2>1. /\ entry' = [entry EXCEPT ![d] = [p \in Payload |->
                        CASE p \in fresh -> "downloading" [] p \in again -> "acking" [] OTHER -> entry[d][p]]]
          /\ calls' = [calls EXCEPT ![d] = calls[d] \cup {New(p, "download") : p \in fresh}
                                                    \cup {New(p, "ack") : p \in again}]
          /\ done' = done /\ kept' = kept /\ saves' = saves
      BY <1>6 DEF TakeList, seen
    <2>2. /\ fresh \subseteq Payload /\ again \subseteq Payload
          /\ \A p \in fresh : entry[d][p] = "none" /\ p \notin done[d] /\ p \notin again
          /\ \A p \in again : entry[d][p] = "awaiting" /\ p \notin fresh
      OBVIOUS
    <2> HIDE DEF fresh, again
    <2>3. CallsOf(d) /\ \A p \in Payload : SavedOf(d, p)
      BY DEF ClientInv
    <2>4. \A p \in Payload : /\ p \in fresh => entry'[d][p] = "downloading"
                             /\ p \in again => entry'[d][p] = "acking"
                             /\ p \notin fresh \cup again => entry'[d][p] = entry[d][p]
      BY <2>1, <2>2 DEF TypeOK
    <2>5. \A p \in Payload : SavedOf(d, p)'
      BY <2>1, <2>2, <2>3, <2>4 DEF SavedOf
    <2>6. calls'[d] = calls[d] \cup {New(p, "download") : p \in fresh} \cup {New(p, "ack") : p \in again}
      BY <2>1 DEF TypeOK
    <2>7. \A c \in calls[d] : c.p \in Payload /\ (c.at # "orphan" => c.p \notin fresh \cup again)
      BY <2>2, <2>3, CallsTyped DEF CallsOf, Call
    <2>8. ASSUME NEW c \in calls'[d]
          PROVE  \/ c \in calls[d]
                 \/ c.p \in fresh /\ c.is = "download" /\ c = New(c.p, "download")
                 \/ c.p \in again /\ c.is = "ack" /\ c = New(c.p, "ack")
      BY <2>6, <2>8 DEF New
    <2>9. \A p : New(p, "download").at = "due" /\ New(p, "ack").at = "due"
      BY DEF New
    <2>10. ASSUME NEW c \in calls'[d]
           PROVE  /\ c.is = "download" => c.at # "orphan" /\ entry'[d][c.p] = "downloading"
                  /\ c.is = "ack" => c.p \in kept'[d] /\ (c.at # "orphan" => entry'[d][c.p] = "acking")
      <3>1. CASE c \in calls[d]
        BY <2>1, <2>3, <2>4, <2>7, <3>1 DEF CallsOf
      <3>2. CASE c.p \in fresh /\ c.is = "download" /\ c = New(c.p, "download")
        BY <2>2, <2>4, <2>9, <3>2
      <3>3. CASE c.p \in again /\ c.is = "ack" /\ c = New(c.p, "ack")
        BY <2>1, <2>2, <2>3, <2>4, <3>3 DEF SavedOf
      <3> QED  BY <2>8, <2>10, <3>1, <3>2, <3>3
    <2>11. ASSUME NEW c \in calls'[d], NEW e \in calls'[d], c.p = e.p, c.at # "orphan", e.at # "orphan"
           PROVE  c = e
      <3>1. CASE c \in calls[d] /\ e \in calls[d]
        BY <2>3, <2>11, <3>1 DEF CallsOf
      <3>2. CASE c \notin calls[d] \/ e \notin calls[d]
        <4>1. c \notin calls[d] /\ e \notin calls[d]
          BY <2>7, <2>8, <2>11, <3>2
        <4> QED  BY <2>2, <2>8, <2>11, <4>1
      <3> QED  BY <3>1, <3>2
    <2>12. CallsOf(d)'
      BY <2>10, <2>11 DEF CallsOf
    <2> QED  BY <2>1, <2>5, <2>12, OthersClients DEF TypeOK
  <1>7. ASSUME NEW d \in Device, NEW asks, Aborted(d, asks), kept' = kept
        PROVE  /\ \A e \in Device : e # d => calls'[e] = calls[e]
               /\ \A n \in calls'[d] : n.at = "orphan" /\ n.is = "ack" /\ n.p \in kept[d]
               /\ CallsOf(d)'
    <2> DEFINE late == {[c EXCEPT !.at = "orphan"] : c \in {k \in calls[d] : k.is = "ack" /\ k.at \in {"due", "orphan"}}}
    <2>1. calls' = [calls EXCEPT ![d] = late]
      BY <1>7 DEF Aborted
    <2>2. \A n \in late : n.at = "orphan" /\ n.is = "ack" /\ n.p \in kept[d]
      <3> SUFFICES ASSUME NEW c \in calls[d], c.is = "ack"
                   PROVE  LET n == [c EXCEPT !.at = "orphan"] IN n.at = "orphan" /\ n.is = "ack" /\ n.p \in kept[d]
        OBVIOUS
      <3>1. c \in Call /\ c.p \in kept[d]
        BY CallsTyped DEF ClientInv, CallsOf
      <3> QED  BY <3>1 DEF Call
    <2> HIDE DEF late
    <2>3. calls'[d] = late /\ \A e \in Device : e # d => calls'[e] = calls[e]
      BY <2>1 DEF TypeOK
    <2> QED  BY <1>7, <2>2, <2>3 DEF CallsOf
  <1>8. ASSUME NEW d \in Device, NEW asks, Emptied(d, asks), kept' = kept PROVE ClientInv'
    <2>1. (\A e \in Device : e # d => calls'[e] = calls[e]) /\ CallsOf(d)'
      BY <1>7, <1>8 DEF Emptied
    <2>2. \A p \in Payload : SavedOf(d, p)'
      BY <1>8 DEF Emptied, SavedOf, Nothing, TypeOK
    <2> QED  BY <1>8, <2>1, <2>2, OthersClients DEF Emptied, TypeOK
  <1>12. ASSUME NEW d \in Device, Restart(d) \/ Revoked(d) \/ SignsOut(d) PROVE ClientInv'
    BY <1>8, <1>12 DEF Restart, Revoked, SignsOut, SignOut
  <1>13. ASSUME NEW d \in Device, SignIn(d) PROVE ClientInv'
    <2>1. PICK asks : Aborted(d, asks)
      BY <1>13 DEF SignIn
    <2>2. UNCHANGED <<client, kept, saves>>
      BY <1>13 DEF SignIn
    <2>3. (\A e \in Device : e # d => calls'[e] = calls[e]) /\ CallsOf(d)'
      BY <1>7, <2>1, <2>2
    <2>4. \A p \in Payload : SavedOf(d, p)'
      BY <2>2 DEF ClientInv, SavedOf, client
    <2> QED  BY <2>2, <2>3, <2>4, OthersClients DEF client
  <1>9. CASE UNCHANGED vars \/ ServerRestart
    BY <1>1, <1>9 DEF vars, ServerRestart, transit, seen
  <1>10. ASSUME NEW p \in Payload, Announce(p) \/ Expire(p) \/ \E targets \in Targets : Send(p, targets)
         PROVE  ClientInv'
    BY <1>1, <1>10 DEF Announce, Expire, Send, transit, seen
  <1>11. ASSUME NEW d \in Device,
                \/ LinkStep(d) \/ ServeList(d) \/ Told(d) \/ LoseList(d) \/ ForgetDevice(d)
                \/ SessionLost(d) \/ SharingStops(d)
                \/ \E p \in Payload : ExpireTombstone(d, p)
         PROVE  ClientInv'
    BY <1>1, <1>11
    DEF LinkStep, ServeList, Told, LoseList, SessionLost, SharingStops, ForgetDevice, ExpireTombstone, Asked, transit, seen
  <1> QED
    BY <1>2, <1>3, <1>4, <1>5, <1>6, <1>9, <1>10, <1>11, <1>12, <1>13 DEF Next, Serves, Takes, Loses

-----------------------------------------------------------------------------
(* The server's rows                                                       *)

LEMMA KeptGrows == ASSUME TypeOK, [Next]_vars PROVE \A d \in Device : kept[d] \subseteq kept'[d]
  <1>1. CASE UNCHANGED kept
    BY <1>1
  <1>2. ASSUME NEW d \in Device, NEW k \in calls[d], TakeDownload(d, k)
        PROVE  \A e \in Device : kept[e] \subseteq kept'[e]
    <2>1. kept' = kept \/ kept' = [kept EXCEPT ![d] = kept[d] \cup {k.p}]
      BY <1>2 DEF TakeDownload, seen
    <2>2. CASE kept' = kept
      BY <2>2
    <2>3. CASE kept' = [kept EXCEPT ![d] = kept[d] \cup {k.p}]
      <3>1. \A e \in Device : kept'[e] = IF e = d THEN kept[d] \cup {k.p} ELSE kept[e]
        BY <2>3 DEF TypeOK
      <3> QED  BY <3>1
    <2> QED  BY <2>1, <2>2, <2>3
  <1>3. CASE UNCHANGED vars \/ ServerRestart
    BY <1>1, <1>3 DEF vars, ServerRestart, seen
  <1>4. ASSUME NEW p \in Payload, Announce(p) \/ Expire(p) \/ \E targets \in Targets : Send(p, targets)
        PROVE  UNCHANGED kept
    BY <1>4 DEF Announce, Expire, Send, seen
  <1>5. ASSUME NEW d \in Device,
               \/ LinkStep(d) \/ ServeList(d) \/ Told(d) \/ LoseList(d) \/ SignIn(d) \/ ForgetDevice(d)
               \/ Restart(d) \/ Revoked(d) \/ SignsOut(d) \/ SessionLost(d) \/ SharingStops(d)
               \/ \E p \in Payload : ExpireTombstone(d, p)
               \/ \E list \in SUBSET Payload : TakeList(d, list)
        PROVE  UNCHANGED kept
    BY <1>5 DEF LinkStep, ServeList, Told, LoseList, SignIn, ForgetDevice, ExpireTombstone, TakeList,
                Restart, Revoked, SignsOut, SignOut, SessionLost, SharingStops, seen
  <1>6. ASSUME NEW d \in Device, NEW k \in calls[d],
               \/ ServeDownload(d, k) \/ ServeAck(d, k) \/ LoseCall(d, k)
               \/ DownloadFails(d, k) \/ TakeAck(d, k) \/ AckFails(d, k)
        PROVE  UNCHANGED kept
    BY <1>6 DEF ServeDownload, ServeAck, LoseCall, DownloadFails, TakeAck, AckFails, seen
  <1> QED
    BY <1>1, <1>2, <1>3, <1>4, <1>5, <1>6 DEF Next, Serves, Takes, Loses

\* What a step does to the rows: it writes those of a payload that is sent for the first
\* time, or a row is acknowledged, or rows go.
RowsShrink ==
  \A d \in Device, p \in Payload :
    \/ row'[d][p] = row[d][p] \/ row'[d][p] = "none"
    \/ row'[d][p] = "delivered" /\ \E k \in calls[d] : k.is = "ack" /\ k.p = p

LEMMA RowsStep ==
  ASSUME TypeOK, [Next]_vars
  PROVE  \/ UNCHANGED <<row, payload>>
         \/ RowsShrink /\ payload' = {p \in payload : Needed(row', p)}
         \/ \E p \in Payload : Expire(p) \/ \E targets \in SUBSET Device : Send(p, targets)
  <1> USE DEF TypeOK
  <1>1. CASE UNCHANGED vars \/ ServerRestart
    BY <1>1 DEF vars, server, ServerRestart
  <1>2. ASSUME NEW p \in Payload, Announce(p) PROVE UNCHANGED <<row, payload>>
    BY <1>2 DEF Announce
  <1>3. ASSUME NEW p \in Payload, NEW targets \in Targets, Send(p, targets)
        PROVE  \E ts \in SUBSET Device : Send(p, ts)
    BY <1>3 DEF Targets
  <1>5. ASSUME NEW d \in Device,
               \/ LinkStep(d) \/ ServeList(d) \/ Told(d) \/ LoseList(d) \/ SignIn(d)
               \/ Restart(d) \/ Revoked(d) \/ SignsOut(d) \/ SessionLost(d) \/ SharingStops(d)
               \/ \E list \in SUBSET Payload : TakeList(d, list)
        PROVE  UNCHANGED <<row, payload>>
    BY <1>5 DEF LinkStep, ServeList, Told, LoseList, SignIn, TakeList, Restart, Revoked, SignsOut,
                SignOut, SessionLost, SharingStops, server
  <1>6. ASSUME NEW d \in Device, NEW k \in calls[d],
               \/ ServeDownload(d, k) \/ LoseCall(d, k) \/ TakeDownload(d, k)
               \/ DownloadFails(d, k) \/ TakeAck(d, k) \/ AckFails(d, k)
        PROVE  UNCHANGED <<row, payload>>
    BY <1>6 DEF ServeDownload, LoseCall, TakeDownload, DownloadFails, TakeAck, AckFails, server
  <1>7. ASSUME NEW d \in Device, NEW k \in calls[d], ServeAck(d, k)
        PROVE  UNCHANGED <<row, payload>> \/ (RowsShrink /\ payload' = {p \in payload : Needed(row', p)})
    <2>1. k.p \in Payload
      BY CallsTyped
    <2>2. CASE /\ row' = [row EXCEPT ![d][k.p] = "delivered"]
               /\ payload' = {p \in payload : Needed([row EXCEPT ![d][k.p] = "delivered"], p)}
      <3>1. k.is = "ack"
        BY <1>7 DEF ServeAck
      <3>2. RowsShrink
        BY <2>1, <2>2, <3>1 DEF RowsShrink
      <3> QED  BY <2>2, <3>2
    <2> QED  BY <1>7, <2>2 DEF ServeAck, Rows
  <1>8. ASSUME NEW d \in Device, NEW p \in Payload, ExpireTombstone(d, p)
        PROVE  RowsShrink /\ payload' = {x \in payload : Needed(row', x)}
    BY <1>8 DEF ExpireTombstone, Rows, RowsShrink
  <1>9. ASSUME NEW d \in Device, ForgetDevice(d)
        PROVE  RowsShrink /\ payload' = {p \in payload : Needed(row', p)}
    BY <1>9 DEF ForgetDevice, Rows, RowsShrink, Nothing
  <1> QED
    BY <1>1, <1>2, <1>3, <1>5, <1>6, <1>7, <1>8, <1>9 DEF Next, Serves, Takes, Loses

DeliveryInv == TypeOK /\ ClientInv /\ DeliveredIsKept /\ PayloadWhileNeeded

LEMMA DeliveryInit == Init => DeliveryInv
  <1> SUFFICES ASSUME Init PROVE DeliveredIsKept /\ PayloadWhileNeeded
    BY TypeInit, ClientInit DEF DeliveryInv
  <1> QED  BY DEF Init, DeliveredIsKept, PayloadWhileNeeded, Nothing

LEMMA DeliveryStep == ASSUME DeliveryInv, [Next]_vars PROVE DeliveryInv'
  <1>1. TypeOK /\ ClientInv /\ TypeOK' /\ ClientInv'
    BY TypeStep, ClientStep DEF DeliveryInv
  <1>2. \A d \in Device : kept[d] \subseteq kept'[d]
    BY <1>1, KeptGrows
  <1>3. \A d \in Device : \A k \in calls[d] : k.is = "ack" => k.p \in kept[d]
    BY <1>1 DEF ClientInv, CallsOf
  <1> USE DEF TypeOK
  <1>4. CASE UNCHANGED <<row, payload>>
    BY <1>1, <1>2, <1>4 DEF DeliveryInv, DeliveredIsKept, PayloadWhileNeeded
  <1>5. CASE RowsShrink /\ payload' = {p \in payload : Needed(row', p)}
    <2>1. DeliveredIsKept'
      <3> SUFFICES ASSUME NEW d \in Device, NEW p \in Payload, row'[d][p] = "delivered"
                   PROVE  p \in kept'[d]
        BY DEF DeliveredIsKept
      <3>1. row[d][p] = "delivered" \/ \E k \in calls[d] : k.is = "ack" /\ k.p = p
        BY <1>5 DEF RowsShrink
      <3>2. p \in kept[d]
        BY <3>1, <1>3 DEF DeliveryInv, DeliveredIsKept
      <3> QED  BY <3>2, <1>2
    <2>2. \A p \in Payload : Needed(row', p) => Needed(row, p)
      BY <1>5 DEF RowsShrink, Needed
    <2>3. PayloadWhileNeeded'
      BY <1>1, <1>5, <2>2 DEF DeliveryInv, PayloadWhileNeeded, Needed
    <2> QED  BY <1>1, <2>1, <2>3 DEF DeliveryInv
  <1>6. ASSUME NEW p \in Payload, Expire(p) PROVE DeliveryInv'
    <2>1. DeliveredIsKept'
      BY <1>1, <1>2, <1>6 DEF DeliveryInv, DeliveredIsKept, Expire
    <2>2. PayloadWhileNeeded'
      BY <1>1, <1>6 DEF DeliveryInv, PayloadWhileNeeded, Expire
    <2> QED  BY <1>1, <2>1, <2>2 DEF DeliveryInv
  <1>7. ASSUME NEW p \in Payload, NEW targets \in SUBSET Device, Send(p, targets) PROVE DeliveryInv'
    <2>1. \A d \in Device : \A q \in Payload :
            row'[d][q] = IF d \in targets /\ q = p THEN "pending" ELSE row[d][q]
      BY <1>1, <1>7 DEF Send
    <2>2. DeliveredIsKept'
      BY <1>1, <1>2, <2>1 DEF DeliveryInv, DeliveredIsKept
    <2>3. p \notin payload /\ payload' = IF targets = {} THEN payload ELSE payload \cup {p}
      BY <1>1, <1>7 DEF Send
    <2>4. PayloadWhileNeeded'
      BY <1>1, <2>1, <2>3 DEF DeliveryInv, PayloadWhileNeeded
    <2> QED  BY <1>1, <2>2, <2>4 DEF DeliveryInv
  <1> QED  BY <1>1, <1>4, <1>5, <1>6, <1>7, RowsStep

LEMMA DeliveryAlways == Spec => []DeliveryInv
  BY DeliveryInit, DeliveryStep, PTL DEF Spec

\* What the server counts as delivered has been saved by the device, whatever is lost,
\* repeated, given up or restarted in between (finishDeliveryDownload(), acknowledge_delivery()).
THEOREM DeliveredSafe == Spec => []DeliveredIsKept
  <1>1. DeliveryInv => DeliveredIsKept
    BY DEF DeliveryInv
  <1> QED  BY <1>1, DeliveryAlways, PTL

\* The server holds content exactly while a delivery of it is pending (the DELETE ... WHERE
\* NOT EXISTS of clipboard.rs).
THEOREM PayloadsKept == Spec => []PayloadWhileNeeded
  <1>1. DeliveryInv => PayloadWhileNeeded
    BY DEF DeliveryInv
  <1> QED  BY <1>1, DeliveryAlways, PTL

\* A device saves a delivery once between two restarts, however often it is listed
\* (receiveDeliveries(), clipboardDeliveryAcknowledgementFailed()).
THEOREM SavesOnce == Spec => []SavedOnce
  <1>1. DeliveryInv => SavedOnce
    BY DEF DeliveryInv, ClientInv, SavedOf, SavedOnce
  <1> QED  BY <1>1, DeliveryAlways, PTL

-----------------------------------------------------------------------------
(* Induction, and sequences made of sets and of other sequences             *)

LEMMA LeastNumber ==
  ASSUME NEW S \in SUBSET Nat, S # {}
  PROVE  \E m \in S : \A k \in S : m <= k
  <1>1. PICK m \in S : \A k \in S : <<k, m>> \notin OpToRel(<, Nat)
    BY WFMin, NatLessThanWellFounded, Zenon
  <1>2. \A k \in S : ~(k < m)
    BY <1>1, Zenon DEF OpToRel
  <1> QED  BY <1>2

LEMMA Induction ==
  ASSUME NEW S, 0 \in S, \A n \in Nat : n \in S => n + 1 \in S
  PROVE  Nat \subseteq S
  <1> DEFINE Missing == Nat \ S
  <1> SUFFICES ASSUME Missing # {} PROVE FALSE
    OBVIOUS
  <1>1. PICK m \in Missing : \A k \in Missing : m <= k
    <2> HIDE DEF Missing
    <2>1. Missing \in SUBSET Nat
      BY DEF Missing
    <2> QED  BY <2>1, LeastNumber
  <1>2. m # 0 /\ m \in Nat
    OBVIOUS
  <1>3. m - 1 \in Nat /\ m - 1 + 1 = m
    BY <1>2
  <1>4. m - 1 \in S
    BY <1>1, <1>3
  <1> QED  BY <1>3, <1>4

\* The least and the greatest of a set of numbers (FiniteSetsExt).
LEMMA MinIsLeast ==
  ASSUME NEW S \in SUBSET Nat, S # {}
  PROVE  Min(S) \in S /\ \A k \in S : Min(S) <= k
  <1>1. \E m \in S : \A k \in S : m <= k
    BY LeastNumber
  <1> QED  BY <1>1 DEF Min

LEMMA MaxOfTwo ==
  ASSUME NEW a \in Int, NEW b \in Int
  PROVE  /\ Max({a, b}) \in Int
         /\ b >= a => Max({a, b}) = b
  <1>1. \E m \in {a, b} : \A k \in {a, b} : m >= k
    <2>1. CASE a >= b
      BY <2>1
    <2>2. CASE ~(a >= b)
      BY <2>2
    <2> QED  BY <2>1, <2>2
  <1>2. Max({a, b}) \in {a, b} /\ \A k \in {a, b} : Max({a, b}) >= k
    BY <1>1 DEF Max
  <1> QED  BY <1>2

\* Whatever order the elements of a finite set come in, all of them come.
LEMMA InSomeOrder ==
  ASSUME NEW S, IsFiniteSet(S), NEW s \in SetToSeqs(S)
  PROVE  s \in Seq(S) /\ \A x \in S : \E n \in 1 .. Len(s) : s[n] = x
  <1>1. PICK c : c = Cardinality(S)
    OBVIOUS
  <1>2. c \in Nat /\ s \in [1 .. c -> S] /\ \A i, j \in 1 .. c : i # j => s[i] # s[j]
    BY <1>1, FS_CardinalityType DEF SetToSeqs
  <1>3. s \in Seq(S) /\ Len(s) = c
    BY <1>2
  <1>4. s \in Injection(1 .. c, S)
    BY <1>2 DEF Injection, IsInjective
  <1>5. Cardinality(1 .. c) = c
    BY <1>2, FS_Interval
  <1>6. s \in Surjection(1 .. c, S)
    BY <1>1, <1>4, <1>5, FS_Injection
  <1> QED  BY <1>3, <1>6 DEF Surjection

\* The recursive function behind Those().
LEMMA ThoseDefined ==
  ASSUME NEW E, NEW q \in Seq(E), NEW S
  PROVE  \E f : /\ f = [n \in 0 .. Len(q) |->
                          IF n = 0 THEN << >> ELSE IF q[n] \in S THEN Append(f[n - 1], q[n]) ELSE f[n - 1]]
                /\ Those(q, S) = f[Len(q)]
  <1> DEFINE Step(f, n) == IF n = 0 THEN << >> ELSE IF q[n] \in S THEN Append(f[n - 1], q[n]) ELSE f[n - 1]
             Upto(f, m) == f = [n \in 0 .. m |-> Step(f, n)]
             Starts == {m \in Nat : \E f : Upto(f, m)}
  <1>1. 0 \in Starts
    <2>1. Upto([n \in 0 .. 0 |-> << >>], 0)
      OBVIOUS
    <2> QED  BY <2>1
  <1>2. ASSUME NEW m \in Nat, m \in Starts PROVE m + 1 \in Starts
    <2>1. PICK f : Upto(f, m)
      BY <1>2
    <2>2. PICK g : g = [n \in 0 .. (m + 1) |-> IF n = m + 1 THEN Step(f, n) ELSE f[n]]
      OBVIOUS
    <2>3. \A n \in 0 .. (m + 1) : g[n] = Step(g, n)
      <3> TAKE n \in 0 .. (m + 1)
      <3>1. CASE n = 0
        BY <2>1, <2>2, <3>1
      <3>2. CASE n # 0
        <4>1. n - 1 \in 0 .. m /\ n - 1 # m + 1 /\ n - 1 \in 0 .. (m + 1)
          BY <3>2
        <4>2. g[n - 1] = f[n - 1]
          BY <2>2, <4>1
        <4>3. g[n] = Step(f, n)
          <5>1. CASE n = m + 1
            BY <2>2, <5>1
          <5>2. CASE n # m + 1
            <6>1. n \in 0 .. m
              BY <5>2
            <6>2. g[n] = f[n]
              BY <2>2, <5>2
            <6>3. f[n] = Step(f, n)
              <7> HIDE DEF Step
              <7> QED  BY <2>1, <6>1
            <6> QED  BY <6>2, <6>3
          <5> QED  BY <5>1, <5>2
        <4> QED  BY <4>2, <4>3
      <3> QED  BY <3>1, <3>2
    <2>4. Upto(g, m + 1)
      BY <2>2, <2>3
    <2> QED  BY <2>4
  <1>3. Nat \subseteq Starts
    <2> HIDE DEF Starts
    <2> QED  BY <1>1, <1>2, Induction
  <1>4. Len(q) \in Nat
    OBVIOUS
  <1>5. \E f : Upto(f, Len(q))
    BY <1>3, <1>4
  <1>6. PICK f : f = CHOOSE g : Upto(g, Len(q))
    OBVIOUS
  <1>7. Upto(f, Len(q))
    BY <1>5, <1>6
  <1>8. Those(q, S) = f[Len(q)]
    BY <1>6 DEF Those
  <1> QED  BY <1>7, <1>8

LEMMA ThoseAre ==
  ASSUME NEW E, NEW q \in Seq(E), NEW S
  PROVE  Those(q, S) \in Seq(E) /\ ToSet(Those(q, S)) = ToSet(q) \cap S
  <1>1. PICK f : /\ f = [n \in 0 .. Len(q) |->
                          IF n = 0 THEN << >> ELSE IF q[n] \in S THEN Append(f[n - 1], q[n]) ELSE f[n - 1]]
                /\ Those(q, S) = f[Len(q)]
    BY ThoseDefined
  <1> DEFINE First(n) == {q[i] : i \in 1 .. n}
             Right == {n \in Nat : n <= Len(q) => f[n] \in Seq(E) /\ ToSet(f[n]) = First(n) \cap S}
  <1>2. Len(q) \in Nat /\ DOMAIN q = 1 .. Len(q) /\ \A i \in 1 .. Len(q) : q[i] \in E
    BY ElementOfSeq
  <1>3. 0 \in Right
    <2>1. f[0] = << >>
      BY <1>1, <1>2
    <2>2. DOMAIN << >> = {} /\ First(0) = {}
      OBVIOUS
    <2>3. ToSet(<< >>) = {}
      BY <2>2 DEF ToSet
    <2>4. f[0] \in Seq(E) /\ ToSet(f[0]) = First(0) \cap S
      BY <2>1, <2>2, <2>3, EmptySeq
    <2> QED  BY <2>4
  <1>4. ASSUME NEW n \in Nat, n \in Right PROVE n + 1 \in Right
    <2> SUFFICES ASSUME n + 1 <= Len(q) PROVE f[n + 1] \in Seq(E) /\ ToSet(f[n + 1]) = First(n + 1) \cap S
      OBVIOUS
    <2>1. f[n] \in Seq(E) /\ ToSet(f[n]) = First(n) \cap S
      BY <1>2, <1>4
    <2>2. n + 1 \in 1 .. Len(q) /\ n + 1 \in 0 .. Len(q) /\ n + 1 - 1 = n /\ n + 1 # 0
      BY <1>2
    <2>3. f[n + 1] = IF q[n + 1] \in S THEN Append(f[n], q[n + 1]) ELSE f[n]
      <3>1. PICK k : k = n + 1
        OBVIOUS
      <3>2. k \in 0 .. Len(q) /\ k # 0 /\ k - 1 = n
        BY <2>2, <3>1
      <3>3. f[k] = IF q[k] \in S THEN Append(f[k - 1], q[k]) ELSE f[k - 1]
        BY <1>1, <3>2
      <3> QED  BY <3>1, <3>2, <3>3
    <2>4. First(n + 1) = First(n) \cup {q[n + 1]}
      <3>1. \A i \in 1 .. (n + 1) : i \in 1 .. n \/ i = n + 1
        OBVIOUS
      <3>2. n + 1 \in 1 .. (n + 1) /\ \A i \in 1 .. n : i \in 1 .. (n + 1)
        OBVIOUS
      <3> QED  BY <3>1, <3>2
    <2>5. CASE q[n + 1] \notin S
      BY <2>1, <2>3, <2>4, <2>5
    <2>6. CASE q[n + 1] \in S
      <3>1. PICK t, x : t = f[n] /\ x = q[n + 1]
        OBVIOUS
      <3>2. t \in Seq(E) /\ x \in E /\ ToSet(t) = First(n) \cap S
        BY <1>2, <2>1, <2>2, <3>1
      <3>3. /\ Append(t, x) \in Seq(E) /\ Len(Append(t, x)) = Len(t) + 1 /\ Append(t, x)[Len(t) + 1] = x
            /\ \A i \in 1 .. Len(t) : Append(t, x)[i] = t[i]
        BY <3>2, AppendProperties
      <3>4. DOMAIN t = 1 .. Len(t) /\ DOMAIN Append(t, x) = 1 .. (Len(t) + 1) /\ Len(t) \in Nat
        BY <3>2, <3>3, LenProperties
      <3>5. ToSet(Append(t, x)) = ToSet(t) \cup {x}
        <4>1. \A i \in 1 .. (Len(t) + 1) : i \in 1 .. Len(t) \/ i = Len(t) + 1
          BY <3>4
        <4>2. Len(t) + 1 \in 1 .. (Len(t) + 1) /\ \A i \in 1 .. Len(t) : i \in 1 .. (Len(t) + 1)
          BY <3>4
        <4>3. \A y : y \in ToSet(Append(t, x)) <=> y \in ToSet(t) \cup {x}
          BY <3>3, <3>4, <4>1, <4>2 DEF ToSet
        <4> QED  BY <4>3
      <3>6. f[n + 1] = Append(t, x)
        BY <2>3, <2>6, <3>1
      <3> HIDE DEF First
      <3>7. ToSet(t) \cup {x} = First(n + 1) \cap S
        BY <2>4, <2>6, <3>1, <3>2
      <3> QED  BY <3>3, <3>5, <3>6, <3>7
    <2> QED  BY <2>5, <2>6
  <1>5. Nat \subseteq Right
    <2> HIDE DEF Right
    <2> QED  BY <1>3, <1>4, Induction
  <1>6. f[Len(q)] \in Seq(E) /\ ToSet(f[Len(q)]) = First(Len(q)) \cap S
    <2>1. PICK n : n = Len(q)
      OBVIOUS
    <2>2. n \in Right
      <3> HIDE DEF Right
      <3> QED  BY <1>2, <1>5, <2>1
    <2>4. n <= Len(q)
      BY <1>2, <2>1
    <2>3. f[n] \in Seq(E) /\ ToSet(f[n]) = First(n) \cap S
      BY <2>2, <2>4
    <2> QED  BY <2>1, <2>3
  <1>7. First(Len(q)) = ToSet(q)
    BY <1>2 DEF ToSet
  <1> QED  BY <1>1, <1>6, <1>7
-----------------------------------------------------------------------------
(* The queue and its counts                                                *)

Counts == [DOMAIN Empty -> Int]

LEMMA Fields == DOMAIN Empty = {"total", "completed", "delivered", "nobody", "failed"} /\ Empty \in Counts
  <1>1. DOMAIN Empty = {"total", "completed", "delivered", "nobody", "failed"}
    BY DEF Empty
  <1>2. Empty \in Counts
    BY DEF Empty, Counts
  <1> QED  BY <1>1, <1>2

\* The outcomes add up to what is completed.
Sums(b) == b.completed = b.delivered + b.nobody + b.failed

LEMMA Totalled ==
  ASSUME NEW b \in Counts, NEW x \in Int
  PROVE  /\ [b EXCEPT !.total = x] \in Counts /\ [b EXCEPT !.total = x].total = x
         /\ [b EXCEPT !.total = x].completed = b.completed
         /\ Sums(b) => Sums([b EXCEPT !.total = x])
  BY Fields DEF Counts, Sums

LEMMA CountedOne ==
  ASSUME NEW b \in Counts, NEW o \in Outcome
  PROVE  /\ Counted(b, o) \in Counts /\ Counted(b, o).total = b.total /\ Counted(b, o).completed = b.completed + 1
         /\ Sums(b) => Sums(Counted(b, o))
  <1>1. Counted(b, o) \in Counts
    BY Fields DEF Counted, Outcome, Counts
  <1>2. Counted(b, o).total = b.total /\ Counted(b, o).completed = b.completed + 1
    BY Fields DEF Counted, Outcome, Counts
  <1>3. Counted(b, o).delivered + Counted(b, o).nobody + Counted(b, o).failed = b.delivered + b.nobody + b.failed + 1
    BY Fields DEF Counted, Outcome, Counts
  <1> QED  BY <1>1, <1>2, <1>3 DEF Sums

LEMMA Elements ==
  ASSUME NEW E, NEW q \in Seq(E)
  PROVE  /\ Len(q) \in Nat /\ DOMAIN q = 1 .. Len(q)
         /\ \A n \in 1 .. Len(q) : q[n] \in E /\ q[n] \in ToSet(q)
         /\ \A x \in ToSet(q) : x \in E /\ \E n \in 1 .. Len(q) : x = q[n]
         /\ q = << >> <=> Len(q) = 0
         /\ q = << >> => ToSet(q) = {}
  <1>1. Len(q) \in Nat /\ DOMAIN q = 1 .. Len(q) /\ \A n \in 1 .. Len(q) : q[n] \in E
    BY ElementOfSeq, LenProperties
  <1>2. q = << >> <=> Len(q) = 0
    BY EmptySeq
  <1> QED  BY <1>1, <1>2 DEF ToSet

LEMMA KeyFacts ==
  /\ \A e, f \in Entry : Key(e) = Key(f) <=> e.rec = f.rec /\ e.target = f.target
  /\ \A e \in Entry : Key(e) \in [rec : Rec, target : Target] /\ Key(e).rec = e.rec
  BY DEF Key, Entry

\* What enqueueRecords() leaves: the entries that were there, some of them made
\* manual, and the records it has taken.
LEMMA Enqueued ==
  ASSUME SendTypeOK, here' \subseteq Rec, NEW recs \in SUBSET Rec, NEW target \in Target,
         NEW origin \in {"manual", "automatic"}, NEW gen \in Nat, Enqueue(recs, target, origin, gen)
  PROVE  /\ pending' \in Seq(Entry)
         /\ \A e \in ToSet(pending') :
              \/ e.rec \in here' /\ e.origin = origin /\ e.gen = gen
              \/ \E f \in ToSet(pending) : e.rec = f.rec /\ e.gen = f.gen /\ (e.origin = f.origin \/ e.origin = "manual")
         /\ \A f \in ToSet(pending) :
              \E e \in ToSet(pending') : Key(e) = Key(f) /\ (e.origin = f.origin \/ e.origin = "manual")
         /\ origin = "manual" => \A r \in recs \cap here' :
              \/ Busy /\ Key(active) = [rec |-> r, target |-> target]
              \/ \E e \in ToSet(pending') : Key(e) = [rec |-> r, target |-> target] /\ e.origin = "manual"
         /\ batch' \in Counts /\ (BatchCounts => Sums(batch') /\ batch'.total = batch'.completed + (IF Busy THEN 1 ELSE 0) + Len(pending'))
         /\ scheduled' \in BOOLEAN /\ timers' \in Nat
  <1>0. pending \in Seq(Entry) /\ batch \in Counts /\ scheduled \in BOOLEAN /\ timers \in Nat
    BY DEF SendTypeOK, Counts
  <1>1. PICK order, u, a :
           /\ order \in SetToSeqs(Accepted(recs, target))
           /\ u = Upgraded(recs, target, origin)
           /\ a = [n \in DOMAIN order |-> [rec |-> order[n], target |-> target, origin |-> origin, gen |-> gen]]
           /\ pending' = u \o a
           /\ batch' = IF a = << >> THEN batch
                       ELSE [(IF ~Busy /\ pending = << >> THEN Empty ELSE batch) EXCEPT !.total = @ + Len(a)]
           /\ Scheduled(active, pending')
    BY DEF Enqueue
  <1>2. PICK l, m : l = Len(pending) /\ m = Len(order)
    OBVIOUS
  <1>3. /\ order \in Seq(Accepted(recs, target)) /\ m \in Nat /\ DOMAIN order = 1 .. m
        /\ \A n \in 1 .. m : order[n] \in Accepted(recs, target)
        /\ \A r \in Accepted(recs, target) : \E n \in 1 .. m : order[n] = r
    <2>1. IsFiniteSet(Accepted(recs, target))
      BY RecAssumption, FS_Subset DEF Accepted, RecAssumption
    <2>2. order \in Seq(Accepted(recs, target)) /\ \A r \in Accepted(recs, target) : \E n \in 1 .. Len(order) : order[n] = r
      BY <1>1, <2>1, InSomeOrder
    <2> QED  BY <1>2, <2>2, Elements
  <1>4. /\ u \in Seq(Entry) /\ Len(u) = l /\ l \in Nat
        /\ \A n \in 1 .. l : /\ pending[n] \in Entry /\ u[n] \in Entry /\ Key(u[n]) = Key(pending[n])
                             /\ u[n].rec = pending[n].rec /\ u[n].gen = pending[n].gen
                             /\ u[n].origin = pending[n].origin \/ u[n].origin = "manual"
                             /\ (origin = "manual" /\ pending[n].target = target /\ pending[n].rec \in recs => u[n].origin = "manual")
    <2>1. l \in Nat /\ DOMAIN pending = 1 .. l /\ \A n \in 1 .. l : pending[n] \in Entry
      BY <1>0, <1>2, Elements
    <2>2. \A n \in 1 .. l : u[n] = IF origin = "manual" /\ pending[n].target = target /\ pending[n].rec \in recs
                                   THEN [pending[n] EXCEPT !.origin = "manual"] ELSE pending[n]
      BY <1>1, <2>1 DEF Upgraded
    <2>3. \A e \in Entry : /\ [e EXCEPT !.origin = "manual"] \in Entry /\ Key([e EXCEPT !.origin = "manual"]) = Key(e)
                           /\ [e EXCEPT !.origin = "manual"].rec = e.rec /\ [e EXCEPT !.origin = "manual"].gen = e.gen
                           /\ [e EXCEPT !.origin = "manual"].origin = "manual"
      BY DEF Entry, Key
    <2>4. \A n \in 1 .. l : /\ u[n] \in Entry /\ Key(u[n]) = Key(pending[n])
                            /\ u[n].rec = pending[n].rec /\ u[n].gen = pending[n].gen
                            /\ u[n].origin = pending[n].origin \/ u[n].origin = "manual"
                            /\ (origin = "manual" /\ pending[n].target = target /\ pending[n].rec \in recs => u[n].origin = "manual")
      <3> TAKE n \in 1 .. l
      <3>1. PICK e \in Entry : e = pending[n]
        BY <2>1
      <3>2. CASE origin = "manual" /\ pending[n].target = target /\ pending[n].rec \in recs
        <4>1. u[n] = [e EXCEPT !.origin = "manual"]
          BY <2>2, <3>1, <3>2
        <4> QED  BY <2>3, <3>1, <4>1
      <3>3. CASE ~(origin = "manual" /\ pending[n].target = target /\ pending[n].rec \in recs)
        <4>1. u[n] = e
          BY <2>2, <3>1, <3>3
        <4> QED  BY <3>1, <3>3, <4>1
      <3> QED  BY <3>2, <3>3
    <2>5. u \in [1 .. l -> Entry]
      BY <1>1, <2>1, <2>4 DEF Upgraded
    <2>6. u \in Seq(Entry) /\ Len(u) = l
      BY <2>1, <2>5
    <2> QED  BY <2>1, <2>4, <2>6
  <1>5. /\ a \in Seq(Entry) /\ Len(a) = m
        /\ \A n \in 1 .. m : /\ a[n] \in Entry /\ a[n].rec = order[n] /\ a[n].target = target /\ a[n].origin = origin
                             /\ a[n].gen = gen /\ a[n].rec \in here' /\ Key(a[n]) = [rec |-> order[n], target |-> target]
    <2>1. \A r \in Accepted(recs, target) : r \in Rec /\ r \in here'
      BY DEF Accepted
    <2>2. \A n \in 1 .. m : a[n] = [rec |-> order[n], target |-> target, origin |-> origin, gen |-> gen]
      BY <1>1, <1>3
    <2>3. \A n \in 1 .. m : /\ a[n] \in Entry /\ a[n].rec = order[n] /\ a[n].target = target /\ a[n].origin = origin
                            /\ a[n].gen = gen /\ a[n].rec \in here' /\ Key(a[n]) = [rec |-> order[n], target |-> target]
      <3> TAKE n \in 1 .. m
      <3>1. PICK r : r = order[n]
        OBVIOUS
      <3>2. r \in Rec /\ r \in here'
        BY <1>3, <2>1, <3>1
      <3>3. a[n] = [rec |-> r, target |-> target, origin |-> origin, gen |-> gen]
        BY <2>2, <3>1
      <3>4. a[n] \in Entry
        BY <3>2, <3>3 DEF Entry
      <3> QED  BY <3>1, <3>2, <3>3, <3>4 DEF Key
    <2>4. a \in [1 .. m -> Entry]
      BY <1>1, <1>3, <2>3
    <2> QED  BY <1>3, <2>3, <2>4
  <1>6. PICK p : p = pending'
    OBVIOUS
  <1>7. /\ p \in Seq(Entry) /\ Len(p) = l + m
        /\ \A n \in 1 .. l : n \in 1 .. (l + m) /\ p[n] = u[n]
        /\ \A n \in 1 .. m : n + l \in 1 .. (l + m) /\ p[n + l] = a[n]
        /\ \A n \in 1 .. (l + m) : n \in 1 .. l \/ (n - l \in 1 .. m /\ p[n] = a[n - l])
    <2>1. p \in Seq(Entry) /\ Len(p) = l + m /\ \A i \in 1 .. (l + m) : p[i] = IF i <= l THEN u[i] ELSE a[i - l]
      BY <1>1, <1>4, <1>5, <1>6, ConcatProperties
    <2>2. \A n \in 1 .. l : n \in 1 .. (l + m) /\ p[n] = u[n]
      BY <1>3, <1>4, <2>1
    <2>3. \A n \in 1 .. m : n + l \in 1 .. (l + m) /\ p[n + l] = a[n]
      <3> TAKE n \in 1 .. m
      <3>1. PICK k : k = n + l
        OBVIOUS
      <3>2. k \in 1 .. (l + m) /\ ~(k <= l) /\ k - l = n
        BY <1>3, <1>4, <3>1
      <3> QED  BY <2>1, <3>1, <3>2
    <2>4. \A n \in 1 .. (l + m) : n \in 1 .. l \/ (n - l \in 1 .. m /\ p[n] = a[n - l])
      <3> TAKE n \in 1 .. (l + m)
      <3>1. n \in 1 .. l \/ (n - l \in 1 .. m /\ ~(n <= l))
        BY <1>3, <1>4
      <3> QED  BY <2>1, <3>1
    <2> QED  BY <2>1, <2>2, <2>3, <2>4
  <1>8. ASSUME NEW e \in ToSet(p)
        PROVE  \/ e.rec \in here' /\ e.origin = origin /\ e.gen = gen
               \/ \E f \in ToSet(pending) : e.rec = f.rec /\ e.gen = f.gen /\ (e.origin = f.origin \/ e.origin = "manual")
    <2>1. PICK n \in 1 .. (l + m) : e = p[n]
      BY <1>7, <1>8, Elements
    <2>2. CASE n \in 1 .. l
      <3>1. pending[n] \in ToSet(pending)
        BY <1>0, <1>2, <2>2, Elements
      <3> QED  BY <1>4, <1>7, <2>1, <2>2, <3>1
    <2>3. CASE n \notin 1 .. l
      BY <1>5, <1>7, <2>1, <2>3
    <2> QED  BY <2>2, <2>3
  <1>9. ASSUME NEW f \in ToSet(pending)
        PROVE  \E e \in ToSet(p) : Key(e) = Key(f) /\ (e.origin = f.origin \/ e.origin = "manual")
    <2>1. PICK n \in 1 .. l : f = pending[n]
      BY <1>0, <1>2, <1>9, Elements
    <2>2. p[n] \in ToSet(p) /\ p[n] = u[n]
      BY <1>7, Elements
    <2> QED  BY <1>4, <2>1, <2>2
  <1>10. ASSUME origin = "manual", NEW r \in recs \cap here'
         PROVE  \/ Busy /\ Key(active) = [rec |-> r, target |-> target]
                \/ \E e \in ToSet(p) : Key(e) = [rec |-> r, target |-> target] /\ e.origin = "manual"
    <2>1. PICK k : k = [rec |-> r, target |-> target]
      OBVIOUS
    <2>2. CASE k \in Keys(pending)
      <3>1. PICK f \in ToSet(pending) : k = Key(f)
        BY <2>2 DEF Keys
      <3>2. PICK n \in 1 .. l : f = pending[n]
        BY <1>0, <1>2, <3>1, Elements
      <3>3. f.target = target /\ f.rec = r
        BY <2>1, <3>1 DEF Key
      <3>4. p[n] \in ToSet(p) /\ p[n] = u[n]
        BY <1>7, Elements
      <3>5. Key(p[n]) = k /\ p[n].origin = "manual"
        BY <1>4, <1>10, <3>1, <3>2, <3>3, <3>4
      <3> QED  BY <2>1, <3>4, <3>5
    <2>3. CASE r \in Accepted(recs, target)
      <3>1. PICK n \in 1 .. m : order[n] = r
        BY <1>3, <2>3
      <3>2. p[n + l] \in ToSet(p) /\ p[n + l] = a[n]
        BY <1>7, Elements
      <3> QED  BY <1>5, <1>10, <3>1, <3>2
    <2>4. CASE Busy /\ Key(active) = k
      BY <2>1, <2>4
    <2> QED  BY <2>1, <2>2, <2>3, <2>4 DEF Accepted
  <1>11. batch' \in Counts /\ (BatchCounts => Sums(batch') /\ batch'.total = batch'.completed + (IF Busy THEN 1 ELSE 0) + Len(p))
    <2>1. CASE a = << >>
      <3>1. m = 0 /\ batch' = batch
        BY <1>1, <1>5, <2>1, EmptySeq
      <3> QED  BY <1>0, <1>2, <1>4, <1>7, <3>1 DEF BatchCounts, Sums
    <2>2. CASE a # << >>
      <3>1. PICK c : c = IF ~Busy /\ pending = << >> THEN Empty ELSE batch
        OBVIOUS
      <3>2. c \in Counts /\ c.total \in Int /\ (BatchCounts => Sums(c) /\ c.total = c.completed + (IF Busy THEN 1 ELSE 0) + l)
        <4>1. Empty.total = 0 /\ Empty.completed = 0 /\ Sums(Empty)
          BY DEF Empty, Sums
        <4>2. pending = << >> => l = 0
          BY <1>2, EmptySeq
        <4>3. c \in Counts /\ c.total \in Int
          BY <1>0, <3>1, Fields DEF Counts
        <4> QED  BY <1>2, <3>1, <4>1, <4>2, <4>3 DEF BatchCounts, Sums
      <3>3. PICK x \in Int : x = c.total + m
        BY <1>3, <3>2
      <3>4. batch' = [c EXCEPT !.total = x]
        BY <1>1, <1>5, <2>2, <3>1, <3>3
      <3>5. c.completed \in Int
        BY <3>2, Fields DEF Counts
      <3>6. batch' \in Counts /\ batch'.total = x /\ batch'.completed = c.completed /\ (Sums(c) => Sums(batch'))
        BY <3>2, <3>3, <3>4, Totalled
      <3> QED  BY <1>3, <1>4, <1>7, <3>2, <3>3, <3>5, <3>6
    <2> QED  BY <2>1, <2>2
  <1>12. scheduled' \in BOOLEAN /\ timers' \in Nat
    <2>1. CASE scheduled \/ active # NoSend \/ pending' = << >>
      BY <1>0, <1>1, <2>1 DEF Scheduled
    <2>2. CASE ~(scheduled \/ active # NoSend \/ pending' = << >>)
      BY <1>0, <1>1, <2>2 DEF Scheduled
    <2> QED  BY <2>1, <2>2
  <1> QED  BY <1>6, <1>7, <1>8, <1>9, <1>10, <1>11, <1>12
-----------------------------------------------------------------------------
(* The inductive invariant                                                 *)

\* What the user asked for and has not been settled waits to be sent by hand, or
\* is being sent.
Waits(k) ==
  \/ \E e \in ToSet(pending) : Key(e) = k /\ e.origin = "manual"
  \/ Busy /\ Key(active) = k

\* The user has not ruled the entry out.
May(e) == e.rec \notin gone /\ (e.origin = "automatic" => auto /\ titled /\ e.gen = autoGen)

QueueHolds ==
  /\ \A k \in asked : Waits(k)
  /\ \A e \in ToSet(pending) : May(e)
  /\ signed => titled
  /\ BatchCounts

Sent == AnswersAreTheActiveSends /\ \A c \in requests : c.gen <= callGen

SendInv == SendTypeOK /\ QueueHolds /\ Sent /\ \A e \in encoding : e.rec \notin gone

LEMMA Booleans ==
  SendTypeOK => /\ known \in BOOLEAN /\ signed \in BOOLEAN /\ titled \in BOOLEAN /\ signing \in BOOLEAN
                /\ stranded \in BOOLEAN /\ scheduled \in BOOLEAN /\ auto \in BOOLEAN
  BY DEF SendTypeOK

LEMMA BooleansAre ==
  ASSUME NEW a \in BOOLEAN, NEW b \in BOOLEAN, NEW c \in BOOLEAN, NEW d \in BOOLEAN,
         NEW e \in BOOLEAN, NEW f \in BOOLEAN, NEW g \in BOOLEAN
  PROVE  {a, b, c, d, e, f, g} \subseteq BOOLEAN
  BY Zenon

\* The counts after the queue has changed, by whatever has changed it.
Balanced(b, busy, l) == b \in Counts /\ Sums(b) /\ b.total = b.completed + busy + l

LEMMA BatchBalanced ==
  ASSUME SendTypeOK
  PROVE  BatchCounts <=> Balanced(batch, IF Busy THEN 1 ELSE 0, Len(pending))
  BY DEF SendTypeOK, BatchCounts, Balanced, Sums, Counts

LEMMA EmptyBalanced == Balanced(Empty, 0, 0)
  <1>1. Empty.total = 0 /\ Empty.completed = 0 /\ Sums(Empty)
    BY DEF Empty, Sums
  <1> QED  BY <1>1, Fields DEF Balanced

\* finishSendBatch(): what is reported at the end of a batch is forgotten.
LEMMA ReportedBalanced ==
  ASSUME NEW b, NEW a, NEW p \in Seq(Entry), Balanced(b, IF a # NoSend THEN 1 ELSE 0, Len(p))
  PROVE  Balanced(Reported(a, p, b), IF a # NoSend THEN 1 ELSE 0, Len(p))
  <1>1. CASE a # NoSend \/ p # << >>
    BY <1>1 DEF Reported
  <1>2. CASE a = NoSend /\ p = << >>
    <2>1. Len(p) = 0
      BY <1>2
    <2> QED  BY <1>2, <2>1, EmptyBalanced DEF Reported
  <1> QED  BY <1>1, <1>2

\* What startNextSend() passes over, takes and leaves.
LEMMA Taken ==
  ASSUME SendTypeOK, NEW rest, rest = SubSeq(pending, Passed + 1, Len(pending))
  PROVE  /\ Passed \in 0 .. Len(pending) /\ Len(pending) \in Nat
         /\ rest = << >> => /\ \A e \in ToSet(pending) : Key(e) \in Keys(SubSeq(pending, 1, Passed))
                            /\ Passed = Len(pending)
         /\ rest # << >> => /\ Head(rest) \in Entry /\ Head(rest) \in ToSet(pending) /\ Tail(rest) \in Seq(Entry)
                            /\ Len(Tail(rest)) = Len(pending) - Passed - 1
                            /\ ToSet(Tail(rest)) \subseteq ToSet(pending)
                            /\ \A e \in ToSet(pending) :
                                 Key(e) \in Keys(SubSeq(pending, 1, Passed)) \/ e = Head(rest) \/ e \in ToSet(Tail(rest))
  <1>1. PICK l, o : l = Len(pending) /\ o = Passed
    OBVIOUS
  <1>2. pending \in Seq(Entry) /\ l \in Nat /\ DOMAIN pending = 1 .. l
        /\ \A n \in 1 .. l : pending[n] \in Entry /\ pending[n] \in ToSet(pending)
    BY <1>1, Elements DEF SendTypeOK
  <1>3. o \in 0 .. l
    <2>1. PICK ok : ok = {n \in DOMAIN pending : Sendable(pending[n])}
      OBVIOUS
    <2>2. CASE ok = {}
      BY <1>1, <1>2, <2>1, <2>2 DEF Passed
    <2>3. CASE ok # {}
      <3>1. ok \in SUBSET Nat /\ ok \subseteq 1 .. l
        BY <1>2, <2>1
      <3>2. Min(ok) \in ok
        BY <2>3, <3>1, MinIsLeast
      <3>3. o = Min(ok) - 1
        BY <1>1, <2>1, <2>3 DEF Passed
      <3>4. PICK m : m = Min(ok)
        OBVIOUS
      <3>5. m \in 1 .. l /\ o = m - 1
        BY <3>1, <3>2, <3>3, <3>4
      <3> QED  BY <1>2, <3>5
    <2> QED  BY <2>2, <2>3
  <1>4. PICK f : f = SubSeq(pending, 1, o)
    OBVIOUS
  <1>5. f \in Seq(Entry) /\ Len(f) = o /\ \A i \in 1 .. o : f[i] = pending[i]
    <2>1. \A i \in 1 .. o : pending[i] \in Entry
      BY <1>2, <1>3
    <2>2. /\ f \in Seq(Entry) /\ Len(f) = IF 1 <= o THEN o - 1 + 1 ELSE 0
          /\ \A i \in 1 .. (o - 1 + 1) : f[i] = pending[1 + i - 1]
      BY <1>3, <1>4, <2>1, SubSeqProperties
    <2>3. o \in Nat /\ o - 1 + 1 = o /\ (IF 1 <= o THEN o - 1 + 1 ELSE 0) = o
      BY <1>3
    <2>4. \A i \in 1 .. o : 1 + i - 1 = i
      OBVIOUS
    <2> QED  BY <2>2, <2>3, <2>4
  <1>6. rest \in Seq(Entry) /\ Len(rest) = l - o /\ \A i \in 1 .. (l - o) : rest[i] = pending[o + i]
    <2>1. \A i \in (o + 1) .. l : pending[i] \in Entry
      BY <1>2, <1>3
    <2>2. /\ rest \in Seq(Entry) /\ Len(rest) = IF o + 1 <= l THEN l - (o + 1) + 1 ELSE 0
          /\ \A i \in 1 .. (l - (o + 1) + 1) : rest[i] = pending[o + 1 + i - 1]
      BY <1>1, <1>2, <1>3, <2>1, SubSeqProperties
    <2>3. l - (o + 1) + 1 = l - o /\ (IF o + 1 <= l THEN l - (o + 1) + 1 ELSE 0) = l - o
      BY <1>2, <1>3
    <2>4. \A i \in 1 .. (l - o) : o + 1 + i - 1 = o + i
      BY <1>2, <1>3
    <2> QED  BY <2>2, <2>3, <2>4
  <1>7. \A i \in 1 .. o : Key(pending[i]) \in Keys(f)
    <2> TAKE i \in 1 .. o
    <2>1. f[i] \in ToSet(f)
      BY <1>5, Elements
    <2> QED  BY <1>5, <2>1 DEF Keys
  <1>8. \A e \in ToSet(pending) : \E n \in 1 .. l : e = pending[n]
    BY <1>1, <1>2, Elements
  <1>9. CASE rest = << >>
    <2>1. l = o
      BY <1>2, <1>3, <1>6, <1>9
    <2> QED  BY <1>1, <1>2, <1>3, <1>4, <1>7, <1>8, <1>9, <2>1
  <1>10. CASE rest # << >>
    <2>1. PICK h, t : h = Head(rest) /\ t = Tail(rest)
      OBVIOUS
    <2>2. Len(rest) \in Nat /\ Len(rest) # 0
      BY <1>6, <1>10, EmptySeq
    <2>3. /\ h = rest[1] /\ t \in Seq(Entry) /\ Len(t) = l - o - 1
          /\ \A i \in 1 .. (l - o - 1) : t[i] = rest[i + 1]
      BY <1>6, <1>10, <2>1, HeadTailProperties
    <2>4. o + 1 \in 1 .. l /\ 1 \in 1 .. (l - o) /\ h = pending[o + 1]
      <3>1. l - o \in Nat \ {0}
        BY <1>6, <2>2
      <3>2. o + 1 \in 1 .. l /\ 1 \in 1 .. (l - o)
        BY <1>2, <1>3, <3>1
      <3> QED  BY <1>6, <2>3, <3>2
    <2>5. \A i \in 1 .. (l - o - 1) : o + (i + 1) \in 1 .. l /\ t[i] = pending[o + (i + 1)]
      <3> TAKE i \in 1 .. (l - o - 1)
      <3>1. PICK k : k = i + 1
        OBVIOUS
      <3>2. k \in 1 .. (l - o) /\ o + k \in 1 .. l
        BY <1>2, <1>3, <3>1
      <3>3. t[i] = rest[k] /\ rest[k] = pending[o + k]
        BY <1>6, <2>3, <3>1, <3>2
      <3> QED  BY <3>1, <3>2, <3>3
    <2>6. \A x \in ToSet(t) : x \in ToSet(pending)
      <3> TAKE x \in ToSet(t)
      <3>1. PICK i \in 1 .. (l - o - 1) : x = t[i]
        BY <2>3, Elements
      <3> QED  BY <1>2, <2>5, <3>1
    <2>7. \A e \in ToSet(pending) : Key(e) \in Keys(f) \/ e = h \/ e \in ToSet(t)
      <3> TAKE e \in ToSet(pending)
      <3>1. PICK n \in 1 .. l : e = pending[n]
        BY <1>8
      <3>2. CASE n <= o
        <4>1. n \in 1 .. o
          BY <1>3, <3>2
        <4> QED  BY <1>7, <3>1, <4>1
      <3>3. CASE n = o + 1
        BY <2>4, <3>1, <3>3
      <3>4. CASE n > o + 1
        <4>1. n - o - 1 \in 1 .. (l - o - 1) /\ o + ((n - o - 1) + 1) = n
          BY <1>2, <1>3, <3>4
        <4>2. t[n - o - 1] \in ToSet(t)
          BY <2>3, <4>1, Elements
        <4> QED  BY <2>5, <3>1, <4>1, <4>2
      <3> QED  BY <1>3, <3>2, <3>3, <3>4
    <2> QED  BY <1>1, <1>2, <1>3, <1>4, <1>10, <2>1, <2>3, <2>4, <2>6, <2>7
  <1> QED  BY <1>9, <1>10

\* SendTypeOK, one variable at a time.
SendTypes ==
  /\ here \subseteq Rec /\ gone \subseteq Rec /\ here \cap gone = {}
  /\ known \in BOOLEAN /\ signed \in BOOLEAN /\ titled \in BOOLEAN /\ signing \in BOOLEAN
  /\ stranded \in BOOLEAN /\ scheduled \in BOOLEAN /\ auto \in BOOLEAN
  /\ pending \in Seq(Entry) /\ active \in Entry \cup {NoSend}
  /\ timers \in Nat /\ autoGen \in Nat /\ callGen \in Nat /\ user \in 0 .. MaxUser
  /\ batch \in Counts
  /\ lastAuto \in SUBSET Rec
  /\ encoding \subseteq [rec : Picture, target : Target, wanted : BOOLEAN, gen : Nat]
  /\ requests \subseteq [rec : Rec, target : Target, gen : Nat]
  /\ asked \subseteq [rec : Rec, target : Target]

LEMMA TypesSplit == SendTypeOK <=> SendTypes
  <1>1. SendTypeOK => SendTypes
    BY Booleans DEF SendTypeOK, SendTypes, Counts
  <1>2. SendTypes => SendTypeOK
    <2>1. SendTypes => {known, signed, titled, signing, stranded, scheduled, auto} \subseteq BOOLEAN
      BY BooleansAre DEF SendTypes
    <2> QED  BY <2>1 DEF SendTypeOK, SendTypes, Counts
  <1> QED  BY <1>1, <1>2

LEMMA TypesSplitNext == SendTypes' => SendTypeOK'
  <1>1. SendTypes' => {known, signed, titled, signing, stranded, scheduled, auto}' \subseteq BOOLEAN
    BY BooleansAre DEF SendTypes
  <1> QED  BY <1>1 DEF SendTypeOK, SendTypes, Counts

\* What the last steps of a proof need of the next state.
LEMMA Together ==
  ASSUME SendTypes', \A k \in asked' : Waits(k)', \A e \in ToSet(pending') : May(e)',
         signed' => titled',
         Balanced(batch', IF active' # NoSend THEN 1 ELSE 0, Len(pending')),
         Sent', \A e \in encoding' : e.rec \notin gone'
  PROVE  SendInv'
  <1>1. SendTypeOK'
    BY TypesSplitNext
  <1>2. BatchCounts'
    BY DEF BatchCounts, Balanced, Sums, Busy
  <1> QED  BY <1>1, <1>2 DEF SendInv, QueueHolds, Busy

\* Nothing about the calls changes.
LEMMA SentKept == ASSUME Sent, UNCHANGED <<requests, callGen, active, stranded>> PROVE Sent'
  BY DEF Sent, AnswersAreTheActiveSends, Busy, Request

\* A step that leaves the queue alone, and what may wait in it.
LEMMA QueueKept ==
  ASSUME SendInv, UNCHANGED <<queue, session, asked, auto, autoGen, gone>>, SendTypes',
         \A e \in encoding' : e.rec \notin gone
  PROVE  SendInv'
  <1>1. Sent'
    BY SentKept DEF SendInv, queue, session, login
  <1>2. SendTypes /\ Balanced(batch, IF Busy THEN 1 ELSE 0, Len(pending))
    BY TypesSplit, BatchBalanced DEF SendInv, QueueHolds
  <1> QED  BY <1>1, <1>2, Together DEF SendInv, QueueHolds, Waits, May, Busy, queue, session, login

LEMMA EnqueueKeeps ==
  ASSUME SendInv, here \subseteq here', here' \subseteq Rec, here' \cap gone = {}, signed,
         NEW recs \in SUBSET Rec, NEW target \in Target, NEW origin \in {"manual", "automatic"},
         origin = "automatic" => auto,
         Enqueue(recs, target, origin, autoGen),
         UNCHANGED <<gone, known, active, auto, autoGen, session>>,
         asked' = asked \cup (IF origin = "manual" THEN {[rec |-> r, target |-> target] : r \in recs \cap here'} ELSE {}),
         lastAuto' \in SUBSET Rec, user' \in 0 .. MaxUser, encoding' \subseteq encoding
  PROVE  SendInv'
  <1>1. SendTypes /\ SendTypeOK
    BY TypesSplit DEF SendInv
  <1>2. /\ pending' \in Seq(Entry)
        /\ \A e \in ToSet(pending') :
              \/ e.rec \in here' /\ e.origin = origin /\ e.gen = autoGen
              \/ \E f \in ToSet(pending) : e.rec = f.rec /\ e.gen = f.gen /\ (e.origin = f.origin \/ e.origin = "manual")
        /\ \A f \in ToSet(pending) :
              \E e \in ToSet(pending') : Key(e) = Key(f) /\ (e.origin = f.origin \/ e.origin = "manual")
        /\ origin = "manual" => \A r \in recs \cap here' :
              \/ Busy /\ Key(active) = [rec |-> r, target |-> target]
              \/ \E e \in ToSet(pending') : Key(e) = [rec |-> r, target |-> target] /\ e.origin = "manual"
        /\ batch' \in Counts /\ (BatchCounts => Sums(batch') /\ batch'.total = batch'.completed + (IF Busy THEN 1 ELSE 0) + Len(pending'))
        /\ scheduled' \in BOOLEAN /\ timers' \in Nat
    <2>1. autoGen \in Nat
      BY <1>1 DEF SendTypes
    <2> QED  BY <1>1, <2>1, Enqueued
  <1>3. asked' \subseteq [rec : Rec, target : Target]
    BY <1>1 DEF SendTypes
  <1>4. SendTypes'
    BY <1>1, <1>2, <1>3 DEF SendTypes, session, login
  <1>5. \A k \in asked' : Waits(k)'
    <2> TAKE k \in asked'
    <2>1. CASE k \in asked
      BY <1>2, <2>1 DEF SendInv, QueueHolds, Waits, Busy
    <2>2. CASE k \notin asked
      BY <1>2, <2>2 DEF Waits, Busy
    <2> QED  BY <2>1, <2>2
  <1>6. \A e \in ToSet(pending') : May(e)'
    <2> TAKE e \in ToSet(pending')
    <2>1. CASE e.rec \in here' /\ e.origin = origin /\ e.gen = autoGen
      BY <2>1 DEF SendInv, QueueHolds, May, session, login
    <2>2. ASSUME NEW f \in ToSet(pending), e.rec = f.rec, e.gen = f.gen, e.origin = f.origin \/ e.origin = "manual" PROVE May(e)'
      BY <2>2 DEF SendInv, QueueHolds, May, session, login
    <2> QED  BY <1>2, <2>1, <2>2
  <1>7. Sent'
    BY SentKept DEF SendInv, session, login
  <1>8. Balanced(batch', IF active' # NoSend THEN 1 ELSE 0, Len(pending'))
    BY <1>2 DEF SendInv, QueueHolds, Balanced, Busy
  <1> QED  BY <1>4, <1>5, <1>6, <1>7, <1>8, Together DEF SendInv, QueueHolds, session, login

LEMMA ActsBound == ASSUME SendTypes, Acts PROVE user' \in 0 .. MaxUser
  BY BoundAssumption DEF SendTypes, Acts, BoundAssumption

LEMMA SendRecordsKeeps ==
  ASSUME SendInv, NEW recs \in SUBSET here, NEW target \in Target, SendRecords(recs, target) PROVE SendInv'
  <1>1. SendTypes
    BY TypesSplit DEF SendInv
  <1>2. here' = here /\ user' \in 0 .. MaxUser
    BY <1>1, ActsBound DEF SendRecords, store
  <1> QED  BY <1>1, <1>2, EnqueueKeeps DEF SendRecords, store, capture, session, login, SendTypes

LEMMA AutomaticKeeps ==
  ASSUME SendInv, here \subseteq here', here' \subseteq Rec, here' \cap gone = {}, NEW r \in Rec, NEW target \in Target,
         SendAutomatically(r, target, autoGen) \/ UNCHANGED <<lastAuto, pending, batch, scheduled, timers>>,
         UNCHANGED <<gone, known, active, auto, autoGen, session, asked>>,
         user' \in 0 .. MaxUser, encoding' \subseteq encoding
  PROVE  SendInv'
  <1>1. SendTypes
    BY TypesSplit DEF SendInv
  <1>2. CASE UNCHANGED <<lastAuto, pending, batch, scheduled, timers>>
    <2>1. SendTypes'
      BY <1>1, <1>2 DEF SendTypes, session, login
    <2> QED  BY <1>2, <2>1, QueueKept DEF SendInv, queue
  <1>3. CASE auto /\ signed /\ lastAuto' = {r} /\ Enqueue({r}, target, "automatic", autoGen)
    <2>1. {r} \in SUBSET Rec /\ lastAuto' \in SUBSET Rec
      BY <1>3
    <2> QED  BY <1>3, <2>1, EnqueueKeeps
  <1> QED  BY <1>2, <1>3 DEF SendAutomatically

LEMMA CaptureKeeps ==
  ASSUME SendInv, NEW r \in Rec, NEW target \in Target, CaptureText(r, target) \/ CapturePicture(r, target) PROVE SendInv'
  <1>1. SendTypes
    BY TypesSplit DEF SendInv
  <1>2. CASE CaptureText(r, target)
    <2>1. here' = here \cup {r} /\ r \notin gone /\ user' \in 0 .. MaxUser /\ encoding' = encoding
      BY <1>1, <1>2, ActsBound DEF CaptureText
    <2>2. here \subseteq here' /\ here' \subseteq Rec /\ here' \cap gone = {}
      BY <1>1, <2>1 DEF SendTypes
    <2> QED  BY <1>2, <2>1, <2>2, AutomaticKeeps DEF CaptureText
  <1>3. CASE CapturePicture(r, target)
    <2>1. PICK w : w = (auto /\ signed /\ IsKnownTarget(target)) /\ w \in BOOLEAN
      OBVIOUS
    <2>2. /\ encoding' = encoding \cup {[rec |-> r, target |-> target, gen |-> autoGen, wanted |-> w]}
          /\ r \in Picture \ gone /\ user' \in 0 .. MaxUser
          /\ UNCHANGED <<store, known, queue, auto, autoGen, lastAuto, session, asked>>
      BY <1>1, <1>3, <2>1, ActsBound DEF CapturePicture
    <2>3. [rec |-> r, target |-> target, gen |-> autoGen, wanted |-> w] \in [rec : Picture, target : Target, wanted : BOOLEAN, gen : Nat]
      BY <1>1, <2>1, <2>2 DEF SendTypes
    <2>4. SendTypes'
      BY <1>1, <2>2, <2>3 DEF SendTypes, store, queue, session, login
    <2>5. \A e \in encoding' : e.rec \notin gone
      BY <2>2 DEF SendInv
    <2> QED  BY <2>2, <2>4, <2>5, QueueKept DEF store
  <1> QED  BY <1>2, <1>3

LEMMA EncodedKeeps ==
  ASSUME SendInv, NEW e \in encoding, Encoded(e) PROVE SendInv'
  <1>1. SendTypes /\ e.rec \in Rec /\ e.target \in Target /\ e.rec \notin gone /\ user \in 0 .. MaxUser
    BY TypesSplit, RecAssumption DEF SendInv, SendTypes, RecAssumption
  <1>2. UNCHANGED <<gone, known, active, auto, autoGen, session, user, asked>> /\ encoding' \subseteq encoding
    BY DEF Encoded
  <1>3. here' = here \/ here' = here \cup {e.rec}
    BY DEF Encoded
  <1>4. here \subseteq here' /\ here' \subseteq Rec /\ here' \cap gone = {}
    BY <1>1, <1>3 DEF SendTypes
  <1>5. SendAutomatically(e.rec, e.target, autoGen) \/ UNCHANGED <<lastAuto, pending, batch, scheduled, timers>>
    BY DEF Encoded, MaySend
  <1> QED  BY <1>1, <1>2, <1>4, <1>5, AutomaticKeeps

\* startNextSend(), with the timer's flag lowered.
LEMMA StartKeeps == ASSUME SendInv, StartNextSend PROVE SendInv'
  <1>1. SendTypes /\ SendTypeOK /\ Balanced(batch, IF Busy THEN 1 ELSE 0, Len(pending))
    BY TypesSplit, BatchBalanced DEF SendInv, QueueHolds
  <1>2. PICK rest, skipped, left :
           /\ rest = SubSeq(pending, Passed + 1, Len(pending)) /\ skipped = asked \ Keys(SubSeq(pending, 1, Passed))
           /\ left = [batch EXCEPT !.total = @ - Passed]
    OBVIOUS
  <1>3. timers - 1 \in Nat /\ UNCHANGED <<store, known, capture, login, callGen, stranded, user>>
    BY <1>1 DEF StartNextSend, SendTypes
  <1>4. Passed \in Nat /\ Len(pending) \in Nat
    <2>1. Passed \in 0 .. Len(pending) /\ Len(pending) \in Nat
      BY <1>1, <1>2, Taken
    <2> QED  BY <2>1
  <1>5. ASSUME ~Busy
        PROVE  left \in Counts /\ Sums(left) /\ left.total = left.completed + Len(pending) - Passed
    <2>1. batch.total \in Int /\ batch.completed \in Int
      BY <1>1, Fields DEF Balanced, Counts
    <2>2. PICK x \in Int : x = batch.total - Passed
      BY <1>4, <2>1
    <2>3. left \in Counts /\ left.total = x /\ left.completed = batch.completed /\ Sums(left)
      BY <1>1, <1>2, <2>2, Totalled DEF Balanced
    <2>4. batch.total = batch.completed + Len(pending)
      BY <1>1, <1>4, <1>5, <2>1 DEF Balanced
    <2> QED  BY <1>4, <2>1, <2>2, <2>3, <2>4
  <1>6. \A k \in skipped : k \in asked /\ k \notin Keys(SubSeq(pending, 1, Passed))
    BY <1>2
  <1>7. CASE Busy /\ scheduled' = Lowered /\ timers' = timers - 1 /\ UNCHANGED <<pending, active, batch, requests, asked>>
    <2>1. SendTypes'
      BY <1>1, <1>3, <1>7 DEF SendTypes, store, capture, login, Lowered
    <2>2. Sent'
      BY <1>3, <1>7, SentKept DEF SendInv
    <2> QED  BY <1>1, <1>3, <1>7, <2>1, <2>2, Together DEF SendInv, QueueHolds, Waits, May, Busy, capture, store, login
  <1>8. CASE /\ ~Busy /\ rest = << >> /\ scheduled' = Lowered /\ timers' = timers - 1
             /\ pending' = << >> /\ batch' = Empty /\ asked' = skipped /\ UNCHANGED <<active, requests>>
    <2>1. SendTypes'
      <3>1. pending' \in Seq(Entry) /\ batch' \in Counts
        BY <1>8, Fields, EmptySeq
      <3> QED  BY <1>1, <1>3, <1>6, <1>8, <3>1 DEF SendTypes, store, capture, login, Lowered
    <2>2. Sent'
      BY <1>3, <1>8, SentKept DEF SendInv
    <2>3. \A k \in asked' : FALSE
      BY <1>1, <1>2, <1>6, <1>8, Taken DEF SendInv, QueueHolds, Waits
    <2>4. ToSet(pending') = {} /\ Len(pending') = 0 /\ active' = NoSend
      BY <1>8 DEF ToSet, Busy
    <2>5. Balanced(batch', IF active' # NoSend THEN 1 ELSE 0, Len(pending'))
      BY <1>8, <2>4, EmptyBalanced
    <2> QED  BY <1>3, <1>8, <2>1, <2>2, <2>3, <2>4, <2>5, Together DEF SendInv, QueueHolds, capture, store, login
  <1>9. ASSUME ~Busy, rest # << >>
        PROVE  /\ Head(rest) \in Entry /\ Tail(rest) \in Seq(Entry) /\ Len(Tail(rest)) = Len(pending) - Passed - 1
               /\ \A e \in ToSet(Tail(rest)) : May(e)
               /\ \A k \in skipped : k = Key(Head(rest)) \/ \E e \in ToSet(Tail(rest)) : Key(e) = k /\ e.origin = "manual"
    <2>1. /\ Head(rest) \in Entry /\ Head(rest) \in ToSet(pending) /\ Tail(rest) \in Seq(Entry)
          /\ Len(Tail(rest)) = Len(pending) - Passed - 1 /\ ToSet(Tail(rest)) \subseteq ToSet(pending)
          /\ \A e \in ToSet(pending) :
               Key(e) \in Keys(SubSeq(pending, 1, Passed)) \/ e = Head(rest) \/ e \in ToSet(Tail(rest))
      BY <1>1, <1>2, <1>9, Taken
    <2>2. ToSet(pending) # {}
      BY <2>1
    <2>4. \A k \in skipped : k = Key(Head(rest)) \/ \E e \in ToSet(Tail(rest)) : Key(e) = k /\ e.origin = "manual"
      <3> TAKE k \in skipped
      <3>1. PICK e \in ToSet(pending) : Key(e) = k /\ e.origin = "manual"
        BY <1>6, <1>9 DEF SendInv, QueueHolds, Waits
      <3> QED  BY <1>6, <2>1, <3>1
    <2> QED  BY <2>1, <2>4 DEF SendInv, QueueHolds
  <1>10. CASE /\ ~Busy /\ rest # << >> /\ scheduled' = Lowered /\ timers' = timers - 1
              /\ pending' = Tail(rest) /\ active' = Head(rest) /\ batch' = left
              /\ requests' = requests \cup {Request(Head(rest))} /\ asked' = skipped
    <2>1. Request(Head(rest)) \in [rec : Rec, target : Target, gen : Nat] /\ Request(Head(rest)).gen = callGen
      BY <1>1, <1>9, <1>10 DEF Request, Entry, SendTypes
    <2>2. active' # NoSend
      BY <1>9, <1>10, NoSendAssumption DEF NoSendAssumption, Entry, Target
    <2>3. SendTypes'
      BY <1>1, <1>3, <1>5, <1>6, <1>9, <1>10, <2>1 DEF SendTypes, store, capture, login, Lowered
    <2>4. Sent'
      <3>1. {c \in requests : c.gen = callGen} = {} /\ \A c \in requests : c.gen <= callGen
        BY <1>10 DEF SendInv, Sent, AnswersAreTheActiveSends
      <3>2. callGen' = callGen /\ callGen \in Nat
        BY <1>1, <1>3 DEF SendTypes
      <3>3. Request(active)' = Request(Head(rest))
        BY <1>10, <3>2 DEF Request
      <3>4. \A c \in requests' : c.gen <= callGen
        BY <1>10, <2>1, <3>1, <3>2
      <3>5. {c \in requests' : c.gen = callGen} = {Request(Head(rest))}
        BY <1>10, <2>1, <3>1
      <3>6. ~stranded'
        BY <1>3, <1>10 DEF SendInv, Sent, AnswersAreTheActiveSends
      <3> QED  BY <2>2, <3>2, <3>3, <3>4, <3>5, <3>6 DEF Sent, AnswersAreTheActiveSends, Busy
    <2>5. \A k \in asked' : Waits(k)'
      BY <1>9, <1>10, <2>2 DEF Waits, Busy
    <2>6. Balanced(batch', IF active' # NoSend THEN 1 ELSE 0, Len(pending'))
      <3>1. left.completed \in Int
        BY <1>5, <1>10, Fields DEF Counts
      <3>2. left.total = left.completed + Len(pending) - Passed /\ Len(pending') = Len(pending) - Passed - 1
        BY <1>5, <1>9, <1>10
      <3>3. left.total = left.completed + 1 + Len(pending')
        BY <1>4, <3>1, <3>2
      <3> QED  BY <1>5, <1>10, <2>2, <3>3 DEF Balanced
    <2> QED  BY <1>3, <1>9, <1>10, <2>2, <2>3, <2>4, <2>5, <2>6, Together DEF SendInv, QueueHolds, May, capture, store, login
  <1>11. CASE /\ ~Busy /\ rest # << >> /\ pending' = Tail(rest)
              /\ batch' = Reported(NoSend, pending', Counted(left, "failed"))
              /\ scheduled' = (Lowered \/ pending' # << >>)
              /\ timers' = IF pending' = << >> \/ Lowered THEN timers - 1 ELSE timers
              /\ asked' = skipped \ {Key(Head(rest))} /\ UNCHANGED <<active, requests>>
    <2>1. PICK b : b = Counted(left, "failed")
      OBVIOUS
    <2>2. "failed" \in Outcome
      BY DEF Outcome
    <2>3. b \in Counts /\ Sums(b) /\ b.total = left.total /\ b.completed = left.completed + 1
      BY <1>5, <1>11, <2>1, <2>2, CountedOne
    <2>4. left.completed \in Int
      BY <1>5, <1>11, Fields DEF Counts
    <2>5. pending' \in Seq(Entry) /\ Len(pending') = Len(pending) - Passed - 1 /\ active' = NoSend
      BY <1>9, <1>11 DEF Busy
    <2>6. Balanced(b, IF NoSend # NoSend THEN 1 ELSE 0, Len(pending'))
      <3>1. left.total = left.completed + Len(pending) - Passed
        BY <1>5, <1>11
      <3>2. PICK x, y, z : x = left.completed /\ y = Len(pending) /\ z = Passed
        OBVIOUS
      <3>3. x + y - z = (x + 1) + 0 + (y - z - 1)
        BY <1>4, <2>4, <3>2
      <3>4. b.total = b.completed + 0 + Len(pending')
        BY <2>3, <2>5, <3>1, <3>2, <3>3
      <3> QED  BY <2>3, <3>4 DEF Balanced
    <2>7. Balanced(batch', IF active' # NoSend THEN 1 ELSE 0, Len(pending'))
      BY <1>11, <2>1, <2>5, <2>6, ReportedBalanced
    <2>8. SendTypes'
      <3>1. scheduled' \in BOOLEAN /\ timers' \in Nat
        BY <1>1, <1>3, <1>11 DEF SendTypes
      <3> QED  BY <1>1, <1>3, <1>6, <1>11, <2>5, <2>7, <3>1 DEF SendTypes, store, capture, login, Balanced
    <2>9. Sent'
      BY <1>3, <1>11, SentKept DEF SendInv
    <2>10. \A k \in asked' : Waits(k)'
      BY <1>9, <1>11 DEF Waits
    <2> QED  BY <1>3, <1>9, <1>11, <2>5, <2>7, <2>8, <2>9, <2>10, Together DEF SendInv, QueueHolds, May, capture, store, login
  <1> QED  BY <1>2, <1>7, <1>8, <1>10, <1>11 DEF StartNextSend

LEMMA AnswerKeeps ==
  ASSUME SendInv, NEW c \in requests, NEW outcome \in Outcome, Answer(c, outcome) PROVE SendInv'
  <1>1. SendTypes /\ SendTypeOK /\ Balanced(batch, IF Busy THEN 1 ELSE 0, Len(pending))
    BY TypesSplit, BatchBalanced DEF SendInv, QueueHolds
  <1>2. UNCHANGED <<store, known, capture, login, callGen, stranded, user>> /\ requests' = requests \ {c}
    BY DEF Answer
  <1>3. callGen' = callGen /\ callGen \in Nat /\ \A r \in requests' : r \in requests
    BY <1>1, <1>2 DEF SendTypes
  <1>4. CASE c.gen = callGen /\ Busy
    <2>1. Finished(outcome)
      BY <1>4 DEF Answer, Current
    <2>2. active' = NoSend /\ pending' = pending /\ asked' = asked \ {Key(active)}
          /\ batch' = Reported(NoSend, pending, Counted(batch, outcome)) /\ Scheduled(NoSend, pending)
      BY <2>1 DEF Finished
    <2>3. PICK b : b = Counted(batch, outcome)
      OBVIOUS
    <2>4. b \in Counts /\ Sums(b) /\ b.total = batch.total /\ b.completed = batch.completed + 1
      BY <1>1, <2>3, CountedOne DEF Balanced
    <2>5. batch.completed \in Int /\ Len(pending) \in Nat /\ pending \in Seq(Entry)
      BY <1>1, Fields, Elements DEF SendTypes, Counts
    <2>6. Balanced(b, IF NoSend # NoSend THEN 1 ELSE 0, Len(pending))
      <3>1. batch.total = batch.completed + 1 + Len(pending)
        BY <1>1, <1>4 DEF Balanced
      <3>2. b.total = b.completed + 0 + Len(pending)
        BY <2>4, <2>5, <3>1
      <3> QED  BY <2>4, <3>2 DEF Balanced
    <2>7. Balanced(batch', IF active' # NoSend THEN 1 ELSE 0, Len(pending'))
      BY <2>2, <2>3, <2>5, <2>6, ReportedBalanced
    <2>8. SendTypes'
      <3>1. scheduled' \in BOOLEAN /\ timers' \in Nat
        <4>1. CASE scheduled \/ pending = << >>
          BY <1>1, <2>2, <4>1 DEF Scheduled, SendTypes
        <4>2. CASE ~(scheduled \/ pending = << >>)
          BY <1>1, <2>2, <4>2 DEF Scheduled, SendTypes
        <4> QED  BY <4>1, <4>2
      <3> QED  BY <1>1, <1>2, <1>3, <2>2, <2>7, <3>1 DEF SendTypes, store, capture, login, Balanced
    <2>9. Sent'
      <3>1. {r \in requests : r.gen = callGen} = {Request(active)} /\ \A r \in requests : r.gen <= callGen
        BY <1>4 DEF SendInv, Sent, AnswersAreTheActiveSends
      <3>2. {r \in requests' : r.gen = callGen} = {}
        BY <1>2, <1>4, <3>1
      <3>3. ~stranded'
        BY <1>2, <1>4 DEF SendInv, Sent, AnswersAreTheActiveSends
      <3> QED  BY <1>3, <2>2, <3>1, <3>2, <3>3 DEF Sent, AnswersAreTheActiveSends, Busy
    <2>10. \A k \in asked' : Waits(k)'
      BY <2>2 DEF SendInv, QueueHolds, Waits
    <2> QED  BY <1>2, <2>2, <2>7, <2>8, <2>9, <2>10, Together DEF SendInv, QueueHolds, May, capture, store, login
  <1>5. CASE ~(c.gen = callGen /\ Busy)
    <2>1. UNCHANGED <<queue, asked>>
      BY <1>5 DEF Answer, Current
    <2>2. c.gen # callGen
      BY <1>5 DEF SendInv, Sent, AnswersAreTheActiveSends
    <2>3. Sent'
      BY <1>2, <1>3, <2>1, <2>2 DEF SendInv, Sent, AnswersAreTheActiveSends, Busy, Request, queue
    <2>4. SendTypes'
      BY <1>1, <1>2, <1>3, <2>1 DEF SendTypes, store, capture, login, queue
    <2> QED  BY <1>1, <1>2, <2>1, <2>3, <2>4, Together DEF SendInv, QueueHolds, Waits, May, Busy, capture, store, login, queue
  <1> QED  BY <1>4, <1>5

\* Entries leave the queue: those in S stay.
LEMMA LeftBalanced ==
  ASSUME SendTypeOK, BatchCounts, NEW S, NEW l, l = Those(pending, S)
  PROVE  /\ l \in Seq(Entry) /\ ToSet(l) = ToSet(pending) \cap S
         /\ Balanced(Shrunk(l), IF Busy THEN 1 ELSE 0, Len(l))
  <1>1. Balanced(batch, IF Busy THEN 1 ELSE 0, Len(pending)) /\ pending \in Seq(Entry)
    BY BatchBalanced DEF SendTypeOK
  <1>2. l \in Seq(Entry) /\ ToSet(l) = ToSet(pending) \cap S
    BY <1>1, ThoseAre
  <1>3. PICK b, x, y, n : /\ b = (IF Busy THEN 1 ELSE 0) /\ x = batch.completed + b
                          /\ y = batch.total - (Len(pending) - Len(l)) /\ n = Len(l)
    OBVIOUS
  <1>4. batch.total \in Int /\ batch.completed \in Int /\ b \in {0, 1} /\ Len(pending) \in Nat /\ n \in Nat /\ batch \in Counts
    BY <1>1, <1>2, <1>3, Fields, Elements DEF Balanced, Counts
  <1>5. x \in Int /\ y \in Int /\ y = x + n
    BY <1>1, <1>3, <1>4 DEF Balanced
  <1>6. Max({x, y}) = y
    <2>1. y >= x
      BY <1>4, <1>5
    <2> QED  BY <1>5, <2>1, MaxOfTwo
  <1>7. Shrunk(l) = [batch EXCEPT !.total = y]
    BY <1>3, <1>6 DEF Shrunk
  <1>8. Shrunk(l) \in Counts /\ Shrunk(l).total = y /\ Shrunk(l).completed = batch.completed /\ Sums(Shrunk(l))
    BY <1>1, <1>4, <1>5, <1>7, Totalled DEF Balanced
  <1> QED  BY <1>2, <1>3, <1>5, <1>8 DEF Balanced

LEMMA SetAutoSendKeeps == ASSUME SendInv, SetAutoSend PROVE SendInv'
  <1>1. SendTypes /\ SendTypeOK /\ BatchCounts /\ Balanced(batch, IF Busy THEN 1 ELSE 0, Len(pending))
    BY TypesSplit, BatchBalanced DEF SendInv, QueueHolds
  <1>2. /\ auto' = ~auto /\ autoGen' = autoGen + 1 /\ lastAuto' = {} /\ user' \in 0 .. MaxUser
        /\ UNCHANGED <<store, known, active, scheduled, timers, encoding, session, asked>>
    BY <1>1, ActsBound DEF SetAutoSend
  <1>3. Sent'
    BY <1>2, SentKept DEF SendInv, session, login
  <1>4. autoGen' \in Nat /\ auto' \in BOOLEAN
    BY <1>1, <1>2 DEF SendTypes
  <1>5. CASE auto
    <2>1. PICK l : l = Those(pending, {e \in ToSet(pending) : e.origin = "manual"})
      OBVIOUS
    <2>2. pending' = l /\ batch' = Reported(active, l, Shrunk(l))
      BY <1>5, <2>1 DEF SetAutoSend, Kept
    <2>3. l \in Seq(Entry) /\ ToSet(l) = {e \in ToSet(pending) : e.origin = "manual"}
          /\ Balanced(Shrunk(l), IF Busy THEN 1 ELSE 0, Len(l))
      BY <1>1, <2>1, LeftBalanced
    <2>4. Balanced(batch', IF active' # NoSend THEN 1 ELSE 0, Len(pending'))
      BY <1>2, <2>2, <2>3, ReportedBalanced DEF Busy
    <2>5. SendTypes'
      BY <1>1, <1>2, <1>4, <2>2, <2>3, <2>4 DEF SendTypes, store, session, login, Balanced
    <2>6. \A k \in asked' : Waits(k)'
      BY <1>2, <2>2, <2>3 DEF SendInv, QueueHolds, Waits, Busy
    <2>7. \A e \in ToSet(pending') : May(e)'
      BY <1>2, <2>2, <2>3 DEF SendInv, QueueHolds, May, store
    <2> QED  BY <1>2, <1>3, <2>4, <2>5, <2>6, <2>7, Together DEF SendInv, QueueHolds, store, session, login
  <1>6. CASE ~auto
    <2>1. UNCHANGED <<pending, batch>>
      BY <1>6 DEF SetAutoSend
    <2>2. SendTypes'
      BY <1>1, <1>2, <1>4, <2>1 DEF SendTypes, store, session, login
    <2>3. \A e \in ToSet(pending') : May(e)'
      BY <1>2, <1>6, <2>1 DEF SendInv, QueueHolds, May, store
    <2> QED  BY <1>1, <1>2, <1>3, <2>1, <2>2, <2>3, Together DEF SendInv, QueueHolds, Waits, Busy, store, session, login
  <1> QED  BY <1>5, <1>6

LEMMA RemoveRecordsKeeps == ASSUME SendInv, NEW recs \in SUBSET here, RemoveRecords(recs) PROVE SendInv'
  <1>1. SendTypes /\ SendTypeOK /\ BatchCounts
    BY TypesSplit DEF SendInv, QueueHolds
  <1>2. PICK l : l = Those(pending, {e \in ToSet(pending) : e.rec \notin recs})
    OBVIOUS
  <1>3. /\ here' = here \ recs /\ gone' = gone \cup recs /\ user' \in 0 .. MaxUser
        /\ pending' = l /\ batch' = Shrunk(l) /\ asked' = asked \ {k \in Keys(pending) : k.rec \in recs}
        /\ UNCHANGED <<known, active, scheduled, timers, capture, session>>
        /\ \A e \in encoding : e.rec \notin recs
    BY <1>1, <1>2, ActsBound DEF RemoveRecords
  <1>4. l \in Seq(Entry) /\ ToSet(l) = {e \in ToSet(pending) : e.rec \notin recs}
        /\ Balanced(Shrunk(l), IF Busy THEN 1 ELSE 0, Len(l))
    BY <1>1, <1>2, LeftBalanced
  <1>5. Sent'
    BY <1>3, SentKept DEF SendInv, session, login
  <1>6. SendTypes'
    BY <1>1, <1>3, <1>4 DEF SendTypes, capture, session, login, Balanced
  <1>7. \A k \in asked' : Waits(k)'
    <2> TAKE k \in asked'
    <2>1. k \in asked /\ ~(k \in Keys(pending) /\ k.rec \in recs)
      BY <1>3
    <2>2. CASE Busy /\ Key(active) = k
      BY <1>3, <2>2 DEF Waits, Busy
    <2>3. CASE \E e \in ToSet(pending) : Key(e) = k /\ e.origin = "manual"
      <3>1. PICK e \in ToSet(pending) : Key(e) = k /\ e.origin = "manual"
        BY <2>3
      <3>2. k \in Keys(pending) /\ k.rec = e.rec
        BY <3>1 DEF Keys, Key
      <3> QED  BY <1>3, <1>4, <2>1, <3>1, <3>2 DEF Waits
    <2> QED  BY <2>1, <2>2, <2>3 DEF SendInv, QueueHolds, Waits
  <1>8. \A e \in ToSet(pending') : May(e)'
    BY <1>3, <1>4 DEF SendInv, QueueHolds, May, capture, session, login
  <1>10. Balanced(batch', IF active' # NoSend THEN 1 ELSE 0, Len(pending'))
    BY <1>3, <1>4 DEF Busy
  <1> QED  BY <1>3, <1>5, <1>6, <1>7, <1>8, <1>10, Together DEF SendInv, QueueHolds, capture, session, login

\* The calls of a generation that has passed are nobody's.
LEMMA OlderCalls ==
  ASSUME SendTypes, Sent, callGen' = callGen + 1, requests' = requests,
         (IF Busy' THEN stranded' ELSE ~stranded')
  PROVE  Sent'
  <1>1. callGen \in Nat /\ \A c \in requests' : c.gen \in Nat /\ c.gen <= callGen
    BY DEF SendTypes, Sent
  <1>2. \A c \in requests' : c.gen <= callGen' /\ c.gen # callGen'
    BY <1>1
  <1> QED  BY <1>2 DEF Sent, AnswersAreTheActiveSends

LEMMA SessionKeeps == ASSUME SendInv, SetDevices \/ LoggedOut \/ Login \/ SessionEnds \/ LoggedIn PROVE SendInv'
  <1>1. SendTypes /\ callGen + 1 \in Nat /\ autoGen + 1 \in Nat
    BY TypesSplit DEF SendInv, SendTypes
  <1>2. Balanced(batch, IF Busy THEN 1 ELSE 0, Len(pending))
    BY BatchBalanced DEF SendInv, QueueHolds
  <1>3. CASE SetDevices
    <2>1. SendTypes'
      BY <1>1, <1>3, ActsBound DEF SetDevices, SendTypes, store, queue, capture, session, login
    <2> QED  BY <1>3, <2>1, QueueKept DEF SetDevices, SendInv, store, capture
  <1>4. CASE LoggedOut
    <2>1. pending' = << >> /\ Len(pending') = 0 /\ ToSet(pending') = {} /\ pending' \in Seq(Entry) /\ active' = NoSend
      BY <1>4, EmptySeq DEF LoggedOut, ToSet
    <2>2. SendTypes'
      BY <1>1, <1>4, <2>1, ActsBound, Fields DEF LoggedOut, SendTypes, store
    <2>3. Sent'
      BY <1>1, <1>4, OlderCalls DEF LoggedOut, SendInv, Busy
    <2>4. Balanced(batch', IF active' # NoSend THEN 1 ELSE 0, Len(pending'))
      BY <1>4, <2>1, EmptyBalanced DEF LoggedOut
    <2> QED  BY <1>4, <2>1, <2>2, <2>3, <2>4, Together DEF LoggedOut, SendInv, store
  <1>5. CASE Login
    <2>1. SendTypes'
      <3>1. stranded' \in BOOLEAN /\ signing' \in BOOLEAN /\ user' \in 0 .. MaxUser
        BY <1>1, <1>5, ActsBound, Zenon DEF Login, Busy
      <3> QED  BY <1>1, <1>5, <3>1 DEF Login, SendTypes, store, queue, capture
    <2>2. Sent'
      BY <1>1, <1>5, OlderCalls DEF Login, SendInv, Busy, queue
    <2> QED  BY <1>2, <1>5, <2>1, <2>2, Together
             DEF Login, SendInv, QueueHolds, Waits, May, Busy, store, queue, capture
  <1>6. CASE SessionEnds \/ LoggedIn
    <2>1. /\ UNCHANGED <<store, known, queue, capture, requests, callGen, stranded, user, asked>>
          /\ signed' \in BOOLEAN /\ signing' \in BOOLEAN /\ titled' \in BOOLEAN
          /\ (signed' => titled') /\ (titled => titled')
      BY <1>1, <1>6 DEF SessionEnds, LoggedIn, SendTypes, SendInv, QueueHolds
    <2>2. SendTypes'
      BY <1>1, <2>1 DEF SendTypes, store, queue, capture
    <2>3. Sent'
      BY <2>1, SentKept DEF SendInv, queue
    <2> QED  BY <1>2, <2>1, <2>2, <2>3, Together DEF SendInv, QueueHolds, Waits, May, Busy, store, queue, capture
  <1> QED  BY <1>3, <1>4, <1>5, <1>6

LEMMA StartsSendInv == ASSUME SendInit PROVE SendInv
  <1>1. pending = << >> /\ Len(pending) = 0 /\ ToSet(pending) = {} /\ pending \in Seq(Entry) /\ active = NoSend /\ ~Busy
    BY EmptySeq DEF SendInit, ToSet, Busy
  <1>2. SendTypes
    <2>1. /\ auto \in BOOLEAN /\ known \in BOOLEAN /\ signed \in BOOLEAN /\ scheduled \in BOOLEAN
          /\ titled \in BOOLEAN /\ signing \in BOOLEAN /\ stranded \in BOOLEAN
      BY DEF SendInit
    <2>2. user \in 0 .. MaxUser
      BY BoundAssumption DEF SendInit, BoundAssumption
    <2> QED  BY <1>1, <2>1, <2>2, Fields DEF SendInit, SendTypes
  <1>3. BatchCounts
    BY <1>1 DEF SendInit, BatchCounts, Empty
  <1>4. Sent
    BY <1>1 DEF SendInit, Sent, AnswersAreTheActiveSends
  <1> QED  BY <1>1, <1>2, <1>3, <1>4, TypesSplit DEF SendInit, SendInv, QueueHolds

LEMMA StaysSendInv == ASSUME SendInv, UNCHANGED sendVars PROVE SendInv'
  <1>1. SendTypes'
    BY TypesSplit DEF SendInv, SendTypes, sendVars, store, queue, capture, session, login
  <1> QED  BY <1>1, QueueKept DEF SendInv, sendVars, store, capture

\* The inductive invariant of the send queue: besides what the theorems below say, that
\* what was asked for waits in the queue as manual, that who is signed in may sign
\* out, that no call is of a session still to come, and that no picture of a removed
\* record is being encoded.
THEOREM SendInvInductive == SendSpec => []SendInv
  <1>1. SendInit => SendInv
    BY StartsSendInv
  <1>2. SendInv /\ [SendNext]_sendVars => SendInv'
    <2> SUFFICES ASSUME SendInv, [SendNext]_sendVars PROVE SendInv'
      OBVIOUS
    <2>1. CASE User
      BY <2>1, SendRecordsKeeps, CaptureKeeps, RemoveRecordsKeeps, SetAutoSendKeeps, SessionKeeps DEF User
    <2>2. CASE StartNextSend
      BY <2>2, StartKeeps
    <2>3. CASE \E c \in requests, outcome \in Outcome : Answer(c, outcome)
      BY <2>3, AnswerKeeps
    <2>4. CASE \E e \in encoding : Encoded(e)
      BY <2>4, EncodedKeeps
    <2>5. CASE SessionEnds \/ LoggedIn
      BY <2>5, SessionKeeps
    <2>6. CASE UNCHANGED sendVars
      BY <2>6, StaysSendInv
    <2> QED  BY <2>1, <2>2, <2>3, <2>4, <2>5, <2>6 DEF SendNext
  <1> QED  BY <1>1, <1>2, PTL DEF SendSpec

\* Every variable of the send queue keeps its type.
THEOREM SendTypeCorrect == SendSpec => []SendTypeOK
  <1>1. SendInv => SendTypeOK
    BY DEF SendInv
  <1> QED  BY <1>1, SendInvInductive, PTL

\* An answer that is taken is the answer to the call of the send it ends, and the active
\* send has a call, however sessions end while calls are out (finishActiveSend()): but
\* for the send whose call a sign-in aborted after the session had ended by itself.
THEOREM AnswersMatch == SendSpec => []AnswersAreTheActiveSends
  <1>1. SendInv => AnswersAreTheActiveSends
    BY DEF SendInv, Sent
  <1> QED  BY <1>1, SendInvInductive, PTL

\* What the user asked for is in the queue or on its way until it is settled, and
\* nothing waits in the queue that the user has ruled out, whether or not the session
\* has ended by itself meanwhile (startNextSend(), setAutoSendEnabled(),
\* removeRecords(), clearSendQueue()).
THEOREM NothingAskedIsLost == SendSpec => []QueueIsWhatWasAsked
  <1>1. SendInv => QueueIsWhatWasAsked
    BY DEF SendInv, QueueHolds, Waits, May, QueueIsWhatWasAsked, Keys
  <1> QED  BY <1>1, SendInvInductive, PTL

\* The totals of a batch of sends add up (finishSendBatch()).
THEOREM CountsAddUp == SendSpec => []BatchCounts
  <1>1. SendInv => BatchCounts
    BY DEF SendInv, QueueHolds
  <1> QED  BY <1>1, SendInvInductive, PTL

=============================================================================

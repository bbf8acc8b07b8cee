----------------------- MODULE AccountAndRelay_proofs -----------------------
(***************************************************************************)
(* Proofs about the two parts of core/account that a device lives by:      *)
(*   - RelayTunnel, for any queues, any number of connections, channels    *)
(*     and chunks, and any order of what the sockets report;               *)
(*   - AccountSession, for any set of requests and any number of pairs     *)
(*     issued, sign-ins, restarts and calls given up.                      *)
(* The two share no variable; each part is about its own specification.    *)
(***************************************************************************)
EXTENDS AccountSession, RelayTunnel, SequenceTheorems, FiniteSetTheorems, TLAPS

-----------------------------------------------------------------------------
(* Frames in a queue                                                       *)

One(b) == IF b THEN 1 ELSE 0

\* The data frames of a queue in which every other frame is there at most once.
Data(s) == Len(s) - One("eof" \in ToSet(s)) - One("close" \in ToSet(s)) - One("paired" \in ToSet(s))

\* After "close" comes nothing, after "eof" only "close", before "paired" nothing.
InOrder(s) ==
  \A i, j \in 1 .. Len(s) :
    i < j => s[i] # "close" /\ s[j] # "paired" /\ (s[i] = "eof" => s[j] = "close")

LEMMA Least2 == ASSUME NEW a \in Int, NEW b \in Int PROVE Min({a, b}) = IF a <= b THEN a ELSE b
  BY DEF Min

LEMMA FramesOf ==
  ASSUME NEW s \in Seq(Frame)
  PROVE  /\ Len(s) \in Nat /\ DOMAIN s = 1 .. Len(s) /\ \A i \in 1 .. Len(s) : s[i] \in Frame /\ s[i] \in ToSet(s)
         /\ \A f \in ToSet(s) : f \in Frame /\ \E i \in 1 .. Len(s) : f = s[i]
         /\ Data(s) \in Int
  <1>1. Len(s) \in Nat /\ DOMAIN s = 1 .. Len(s)
    BY LenProperties
  <1>2. \A i \in 1 .. Len(s) : s[i] \in Frame
    BY ElementOfSeq
  <1>3. ToSet(s) = {s[i] : i \in 1 .. Len(s)}
    BY <1>1 DEF ToSet
  <1>4. Data(s) \in Int
    BY <1>1 DEF Data, One
  <1> QED  BY <1>1, <1>2, <1>3, <1>4

Marks == {"eof", "close", "paired"}

LEMMA MarkCounts ==
  ASSUME NEW s \in Seq(Frame), NEW t \in Seq(Frame), Len(t) = Len(s) + 1 \/ Len(s) = Len(t) + 1,
         NEW f \in Marks, f \in ToSet(s) <=> Len(s) > Len(t), f \in ToSet(t) <=> Len(t) > Len(s),
         \A m \in Marks : m # f => (m \in ToSet(t) <=> m \in ToSet(s))
  PROVE  Data(t) = Data(s)
  <1>1. PICK n, k : n = Len(s) /\ k = Len(t)
    OBVIOUS
  <1>2. n \in Nat /\ k \in Nat /\ (k = n + 1 \/ n = k + 1)
    BY <1>1, LenProperties
  <1>3. PICK e, c, p, e2, c2, p2 :
          /\ e = One("eof" \in ToSet(s)) /\ c = One("close" \in ToSet(s)) /\ p = One("paired" \in ToSet(s))
          /\ e2 = One("eof" \in ToSet(t)) /\ c2 = One("close" \in ToSet(t)) /\ p2 = One("paired" \in ToSet(t))
    OBVIOUS
  <1>4. {e, c, p, e2, c2, p2} \subseteq {0, 1}
    BY <1>3 DEF One
  <1>5. Data(s) = n - e - c - p /\ Data(t) = k - e2 - c2 - p2
    BY <1>1, <1>3 DEF Data
  <1>6. \A m \in Marks : m # f => One(m \in ToSet(s)) = One(m \in ToSet(t))
    BY DEF One
  <1>7. (n = k + 1 => One(f \in ToSet(s)) = 1 /\ One(f \in ToSet(t)) = 0)
        /\ (k = n + 1 => One(f \in ToSet(s)) = 0 /\ One(f \in ToSet(t)) = 1)
    BY <1>1, <1>2 DEF One
  <1>8. {"eof", "close", "paired"} \subseteq Marks /\ "eof" # "close" /\ "close" # "paired" /\ "eof" # "paired"
    BY DEF Marks
  <1>9. CASE f = "eof"
    <2>1. c = c2 /\ p = p2
      BY <1>3, <1>6, <1>8, <1>9
    <2>2. (n = k + 1 => e = 1 /\ e2 = 0) /\ (k = n + 1 => e = 0 /\ e2 = 1)
      BY <1>3, <1>7, <1>9
    <2> QED  BY <1>2, <1>4, <1>5, <2>1, <2>2
  <1>10. CASE f = "close"
    <2>1. e = e2 /\ p = p2
      BY <1>3, <1>6, <1>8, <1>10
    <2>2. (n = k + 1 => c = 1 /\ c2 = 0) /\ (k = n + 1 => c = 0 /\ c2 = 1)
      BY <1>3, <1>7, <1>10
    <2> QED  BY <1>2, <1>4, <1>5, <2>1, <2>2
  <1>11. CASE f = "paired"
    <2>1. e = e2 /\ c = c2
      BY <1>3, <1>6, <1>8, <1>11
    <2>2. (n = k + 1 => p = 1 /\ p2 = 0) /\ (k = n + 1 => p = 0 /\ p2 = 1)
      BY <1>3, <1>7, <1>11
    <2> QED  BY <1>2, <1>4, <1>5, <2>1, <2>2
  <1> QED  BY <1>9, <1>10, <1>11 DEF Marks

\* Queues with the same marks differ in data frames as they do in length.
LEMMA DataCounts ==
  ASSUME NEW s \in Seq(Frame), NEW t \in Seq(Frame), \A m \in Marks : m \in ToSet(t) <=> m \in ToSet(s)
  PROVE  Data(t) = Data(s) + Len(t) - Len(s)
  <1>1. \A m \in Marks : One(m \in ToSet(t)) = One(m \in ToSet(s))
    BY DEF One
  <1>2. One("eof" \in ToSet(t)) = One("eof" \in ToSet(s)) /\ One("close" \in ToSet(t)) = One("close" \in ToSet(s))
        /\ One("paired" \in ToSet(t)) = One("paired" \in ToSet(s))
    BY <1>1 DEF Marks
  <1>3. PICK e, c, p : e = One("eof" \in ToSet(s)) /\ c = One("close" \in ToSet(s)) /\ p = One("paired" \in ToSet(s))
    OBVIOUS
  <1>4. {e, c, p} \subseteq {0, 1}
    BY <1>3 DEF One
  <1>5. PICK n, k : n = Len(s) /\ k = Len(t)
    OBVIOUS
  <1>6. Data(s) = n - e - c - p /\ Data(t) = k - e - c - p /\ n \in Nat /\ k \in Nat
    BY <1>2, <1>3, <1>5, LenProperties DEF Data
  <1> QED  BY <1>4, <1>5, <1>6

LEMMA Appended ==
  ASSUME NEW s \in Seq(Frame), NEW f \in Frame, NEW t, t = Append(s, f)
  PROVE  /\ t \in Seq(Frame) /\ Len(t) = Len(s) + 1 /\ ToSet(t) = ToSet(s) \cup {f} /\ t # << >>
         /\ Head(t) = IF s = << >> THEN f ELSE Head(s)
         /\ f = "data" => Data(t) = Data(s) + 1
         /\ f # "data" /\ f \notin ToSet(s) => Data(t) = Data(s)
         /\ InOrder(s) /\ "close" \notin ToSet(s) /\ ("eof" \in ToSet(s) => f = "close") /\ (f = "paired" => s = << >>)
              => InOrder(t)
  <1>1. PICK n : n = Len(s)
    OBVIOUS
  <1>2. n \in Nat /\ \A i \in 1 .. n : s[i] \in Frame /\ s[i] \in ToSet(s)
    BY <1>1, FramesOf
  <1>3. t \in Seq(Frame) /\ Len(t) = n + 1 /\ (\A i \in 1 .. n : t[i] = s[i]) /\ t[n + 1] = f
    BY <1>1, AppendProperties
  <1>4. ToSet(t) = ToSet(s) \cup {f}
    <2>1. \A y : y \in ToSet(t) <=> y \in ToSet(s) \cup {f}
      <3> TAKE y
      <3>1. y \in ToSet(t) <=> \E i \in 1 .. (n + 1) : y = t[i]
        BY <1>3, LenProperties DEF ToSet
      <3>2. y \in ToSet(s) <=> \E i \in 1 .. n : y = s[i]
        BY <1>1, LenProperties DEF ToSet
      <3>3. n + 1 \in 1 .. (n + 1) /\ \A i \in 1 .. (n + 1) : i \in 1 .. n \/ i = n + 1
        BY <1>2
      <3>4. \A i \in 1 .. n : i \in 1 .. (n + 1)
        BY <1>2
      <3> QED  BY <1>3, <3>1, <3>2, <3>3, <3>4
    <2> QED  BY <2>1
  <1>5. Head(t) = IF s = << >> THEN f ELSE Head(s)
    <2>1. t # << >> /\ Head(t) = t[1]
      BY <1>2, <1>3, EmptySeq
    <2>2. CASE s = << >>
      <3>1. n = 0
        BY <1>1, <2>2
      <3> QED  BY <1>3, <2>1, <2>2, <3>1
    <2>3. CASE s # << >>
      <3>1. n # 0 /\ Head(s) = s[1]
        BY <1>1, <2>3, EmptySeq
      <3>2. 1 \in 1 .. n
        BY <1>2, <3>1
      <3> QED  BY <1>3, <2>1, <2>3, <3>1, <3>2
    <2> QED  BY <2>2, <2>3
  <1>6. f = "data" => Data(t) = Data(s) + 1
    <2> SUFFICES ASSUME f = "data" PROVE Data(t) = Data(s) + 1
      OBVIOUS
    <2>1. \A m \in Marks : m \in ToSet(t) <=> m \in ToSet(s)
      BY <1>4 DEF Marks
    <2>2. Data(t) = Data(s) + Len(t) - Len(s) /\ Data(s) \in Int
      BY <1>3, <2>1, DataCounts, FramesOf
    <2> QED  BY <1>1, <1>2, <1>3, <2>2
  <1>7. f # "data" /\ f \notin ToSet(s) => Data(t) = Data(s)
    <2> SUFFICES ASSUME f \in Marks, f \notin ToSet(s) PROVE Data(t) = Data(s)
      BY DEF Frame, Marks
    <2>1. f \in ToSet(t) /\ \A m \in Marks : m # f => (m \in ToSet(t) <=> m \in ToSet(s))
      BY <1>4
    <2>2. Len(t) = Len(s) + 1 /\ ~(Len(s) > Len(t)) /\ Len(t) > Len(s)
      BY <1>1, <1>2, <1>3
    <2> QED  BY <1>3, <2>1, <2>2, MarkCounts
  <1>8. ASSUME InOrder(s), "close" \notin ToSet(s), "eof" \in ToSet(s) => f = "close", f = "paired" => s = << >>
        PROVE  InOrder(t)
    <2> SUFFICES ASSUME NEW i \in 1 .. (n + 1), NEW j \in 1 .. (n + 1), i < j
                 PROVE  t[i] # "close" /\ t[j] # "paired" /\ (t[i] = "eof" => t[j] = "close")
      BY <1>3 DEF InOrder
    <2>1. i \in 1 .. n /\ (j \in 1 .. n \/ j = n + 1)
      BY <1>2
    <2>2. t[i] = s[i] /\ s[i] \in ToSet(s)
      BY <1>2, <1>3, <2>1
    <2>3. CASE j \in 1 .. n
      BY <1>1, <1>3, <1>8, <2>1, <2>2, <2>3 DEF InOrder
    <2>4. CASE j = n + 1
      <3>1. t[j] = f
        BY <1>3, <2>4
      <3>2. s # << >>
        BY <1>1, <2>1
      <3> QED  BY <1>8, <2>2, <3>1, <3>2
    <2> QED  BY <2>1, <2>3, <2>4
  <1>9. t # << >>
    BY <1>2, <1>3, EmptySeq
  <1> QED  BY <1>1, <1>3, <1>4, <1>5, <1>6, <1>7, <1>8, <1>9

LEMMA Removed1 ==
  ASSUME NEW s \in Seq(Frame), s # << >>, InOrder(s), NEW t, t = Tail(s)
  PROVE  /\ t \in Seq(Frame) /\ Len(t) = Len(s) - 1 /\ Head(s) \in Frame /\ InOrder(t)
         /\ ToSet(s) = ToSet(t) \cup {Head(s)} /\ "paired" \notin ToSet(t)
         /\ Data(t) = Data(s) - One(Head(s) = "data")
         /\ Head(s) = "close" => t = << >>
         /\ Head(s) = "eof" => ToSet(t) \subseteq {"close"}
  <1>1. PICK n : n = Len(t)
    OBVIOUS
  <1>2. n \in Nat /\ Len(s) = n + 1 /\ t \in Seq(Frame) /\ \A i \in 1 .. n : t[i] = s[i + 1]
    BY <1>1, HeadTailProperties, LenProperties, EmptySeq
  <1>3. Head(s) = s[1] /\ Head(s) \in Frame
    BY HeadTailProperties
  <1>4. \A k \in 1 .. (n + 1) : k = 1 \/ (k - 1 \in 1 .. n /\ t[k - 1] = s[k])
    <2> TAKE k \in 1 .. (n + 1)
    <2>1. CASE k # 1
      <3>1. PICK i : i = k - 1
        OBVIOUS
      <3>2. i \in 1 .. n /\ k = i + 1
        BY <1>2, <2>1, <3>1
      <3> QED  BY <1>2, <3>1, <3>2
    <2> QED  BY <2>1
  <1>5. \A i \in 1 .. n : i + 1 \in 1 .. (n + 1) /\ 1 < i + 1 /\ 1 \in 1 .. (n + 1)
    BY <1>2
  <1>6. ToSet(s) = ToSet(t) \cup {Head(s)}
    <2>1. \A y : y \in ToSet(s) <=> y \in ToSet(t) \cup {Head(s)}
      <3> TAKE y
      <3>1. y \in ToSet(s) <=> \E i \in 1 .. (n + 1) : y = s[i]
        BY <1>2, LenProperties DEF ToSet
      <3>2. y \in ToSet(t) <=> \E i \in 1 .. n : y = t[i]
        BY <1>1, <1>2, LenProperties DEF ToSet
      <3>3. 1 \in 1 .. (n + 1)
        BY <1>2
      <3>4. (\E i \in 1 .. (n + 1) : y = s[i]) => y = Head(s) \/ \E i \in 1 .. n : y = t[i]
        BY <1>3, <1>4
      <3>5. (\E i \in 1 .. n : y = t[i]) => \E i \in 1 .. (n + 1) : y = s[i]
        BY <1>2, <1>5
      <3> QED  BY <1>3, <3>1, <3>2, <3>3, <3>4, <3>5
    <2> QED  BY <2>1
  <1>7. \A f \in ToSet(t) : f # "paired" /\ Head(s) # "close" /\ (Head(s) = "eof" => f = "close")
    <2> TAKE f \in ToSet(t)
    <2>1. PICK i \in 1 .. n : f = t[i]
      BY <1>1, <1>2, FramesOf
    <2>2. PICK k : k = i + 1
      OBVIOUS
    <2>3. k \in 1 .. Len(s) /\ 1 \in 1 .. Len(s) /\ 1 < k /\ f = s[k]
      BY <1>2, <1>5, <2>1, <2>2
    <2> QED  BY <1>3, <2>3 DEF InOrder
  <1>8. InOrder(t)
    <2> SUFFICES ASSUME NEW i \in 1 .. n, NEW j \in 1 .. n, i < j
                 PROVE  t[i] # "close" /\ t[j] # "paired" /\ (t[i] = "eof" => t[j] = "close")
      BY <1>1 DEF InOrder
    <2>1. PICK k, l : k = i + 1 /\ l = j + 1
      OBVIOUS
    <2>2. k \in 1 .. Len(s) /\ l \in 1 .. Len(s) /\ k < l /\ t[i] = s[k] /\ t[j] = s[l]
      BY <1>2, <2>1
    <2> QED  BY <2>2 DEF InOrder
  <1>9. Head(s) = "close" => t = << >>
    <2>1. t # << >> => n # 0
      BY <1>1, <1>2, EmptySeq
    <2>3. n # 0 => 1 \in 1 .. n
      BY <1>2
    <2>4. \A i \in 1 .. n : t[i] \in ToSet(t)
      BY <1>1, <1>2, FramesOf
    <2> QED  BY <1>7, <2>1, <2>3, <2>4
  <1>10. Data(t) = Data(s) - One(Head(s) = "data")
    <2>1. CASE Head(s) = "data"
      <3>1. \A m \in Marks : m \in ToSet(t) <=> m \in ToSet(s)
        BY <1>6, <2>1 DEF Marks
      <3>2. Data(t) = Data(s) + Len(t) - Len(s) /\ Data(s) \in Int
        BY <1>2, <3>1, DataCounts, FramesOf
      <3> QED  BY <1>1, <1>2, <2>1, <3>2 DEF One
    <2>2. CASE Head(s) # "data"
      <3>1. Head(s) \in Marks
        BY <1>3, <2>2 DEF Frame, Marks
      <3>2. Head(s) \notin ToSet(t)
        BY <1>7, <3>1 DEF Marks
      <3>3. Head(s) \in ToSet(s) /\ \A m \in Marks : m # Head(s) => (m \in ToSet(t) <=> m \in ToSet(s))
        BY <1>6
      <3>4. Len(s) = Len(t) + 1 /\ ~(Len(t) > Len(s)) /\ Len(s) > Len(t)
        BY <1>1, <1>2
      <3>6. Data(t) = Data(s)
        BY <1>2, <3>1, <3>2, <3>3, <3>4, MarkCounts
      <3>5. Data(s) \in Int
        BY FramesOf
      <3> QED  BY <2>2, <3>6, <3>5 DEF One
    <2> QED  BY <2>1, <2>2
  <1> QED  BY <1>1, <1>2, <1>3, <1>6, <1>7, <1>8, <1>9, <1>10

LEMMA FramesOfPipe ==
  ASSUME NEW s \in Seq({"data", "eof"})
  PROVE  /\ s \in Seq(Frame)
         /\ \A i \in 1 .. Len(s) : s[i] \in {"data", "eof"} /\ s[i] \in ToSet(s)
         /\ \A f \in ToSet(s) : f \in {"data", "eof"} /\ \E i \in 1 .. Len(s) : f = s[i]
  <1>1. \A i \in 1 .. Len(s) : s[i] \in {"data", "eof"}
    BY ElementOfSeq
  <1>2. s \in Seq(Frame)
    <2>1. {"data", "eof"} \subseteq Frame
      BY DEF Frame
    <2> QED  BY <2>1
  <1> QED  BY <1>1, <1>2, FramesOf

\* What pumpToWebSocket() puts behind a queue without an EOF.
LEMMA Extended ==
  ASSUME NEW s \in Seq({"data", "eof"}), NEW u \in Seq({"data"}), NEW t, t = s \o u,
         InOrder(s), Len(u) = 0 \/ "eof" \notin ToSet(s)
  PROVE  /\ t \in Seq({"data", "eof"}) /\ Len(t) = Len(s) + Len(u) /\ InOrder(t)
         /\ \A f \in Marks : f \in ToSet(t) <=> f \in ToSet(s)
         /\ Len(u) = 0 => t = s
  <1>1. PICK n, k : n = Len(s) /\ k = Len(u)
    OBVIOUS
  <1>2. u \in Seq({"data", "eof"}) /\ k \in Nat /\ \A i \in 1 .. k : u[i] = "data"
    <2>1. {"data"} \subseteq {"data", "eof"}
      OBVIOUS
    <2> QED  BY <1>1, <2>1, SeqMonotonic, ElementOfSeq, LenProperties
  <1>3. n \in Nat /\ t \in Seq({"data", "eof"}) /\ Len(t) = n + k
    BY <1>1, <1>2, ConcatProperties, LenProperties
  <1>4. (\A i \in 1 .. n : t[i] = s[i]) /\ \A i \in 1 .. (n + k) : i \in 1 .. n \/ t[i] = "data"
    <2>1. \A i \in 1 .. (n + k) : t[i] = IF i <= n THEN s[i] ELSE u[i - n]
      BY <1>1, <1>2, ConcatProperties
    <2>2. \A i \in 1 .. n : i \in 1 .. (n + k) /\ i <= n
      BY <1>2, <1>3
    <2>3. \A i \in 1 .. (n + k) : i <= n => i \in 1 .. n
      BY <1>2, <1>3
    <2>4. \A i \in 1 .. (n + k) : ~(i <= n) => i - n \in 1 .. k
      BY <1>2, <1>3
    <2> QED  BY <1>2, <2>1, <2>2, <2>3, <2>4
  <1>7. k = 0 => t = s
    BY <1>1, <1>3, <1>4, SeqEqual
  <1>5. CASE k = 0
    BY <1>1, <1>3, <1>5, <1>7
  <1>6. CASE "eof" \notin ToSet(s)
    <2>1. \A i \in 1 .. n : s[i] = "data"
      BY <1>1, <1>6, FramesOfPipe
    <2>2. \A i \in 1 .. (n + k) : t[i] = "data"
      BY <1>4, <2>1
    <2>3. ToSet(t) \subseteq {"data"} /\ ToSet(s) \subseteq {"data"}
      <3>1. (\A f \in ToSet(s) : \E i \in 1 .. n : f = s[i]) /\ \A f \in ToSet(t) : \E i \in 1 .. (n + k) : f = t[i]
        BY <1>1, <1>3, FramesOfPipe
      <3> QED  BY <2>1, <2>2, <3>1
    <2>4. InOrder(t)
      BY <1>3, <2>2 DEF InOrder
    <2>5. \A f \in Marks : f \in ToSet(t) <=> f \in ToSet(s)
      BY <2>3 DEF Marks
    <2> QED  BY <1>1, <1>3, <1>7, <2>4, <2>5
  <1> QED  BY <1>1, <1>5, <1>6
-----------------------------------------------------------------------------
(* A Pipe                                                                  *)

USE TunnelAssumption

Left(q) == q.tcp \in {"gone", "refused"}

\* The EOF has been queued for the WebSocket.
Ended(q) == q.waitEnd \/ q.timer

Empty(q) ==
  /\ q.in = 0 /\ q.toWs = 0 /\ q.wsq = << >> /\ q.pend = 0 /\ q.tcpq = 0
  /\ ~q.sendEnd /\ ~q.waitEnd /\ ~q.dropTcp /\ ~q.check /\ ~q.timer

\* What the flags of a Pipe say of its sockets and its queues.
Shape(q) ==
  /\ q.life # "on" => Empty(q)
  /\ q.life = "none" <=> q.ws = "none"
  /\ q.life = "none" <=> q.tcp = "none"
  /\ q.life = "gone" => q.ws = "gone" /\ Left(q)
  /\ Len(q.wsq) <= HighWater /\ InOrder(q.wsq)
  /\ q.sendEnd \/ Ended(q) => q.done /\ Left(q) /\ q.ws = "on"
  /\ Ended(q) => q.in = 0 /\ q.toWs = 0 /\ ~q.sendEnd
  /\ q.timer => q.wsq = << >>
  /\ "eof" \in ToSet(q.wsq) => q.waitEnd
  /\ q.dropTcp \/ q.check => q.dropTcp /\ q.done /\ q.ws = "gone" /\ q.tcp = "on"
  /\ q.life = "on" /\ q.ws = "gone" => q.dropTcp
  /\ q.life = "on" /\ q.done => Left(q) \/ q.dropTcp
  /\ q.life = "on" /\ Left(q) => q.done /\ q.ws = "on"

\* Chunks on their way to the relay, and to the application.
Sends(q) == q.in + q.toWs + Data(q.wsq)
Takes(q) == q.pend + q.tcpq

LEMMA PipeFields ==
  ASSUME NEW q \in Pipes
  PROVE  /\ q.life \in {"none", "on", "gone"} /\ q.tcp \in {"none", "opening", "on", "refused", "gone"}
         /\ q.ws \in {"none", "opening", "on", "gone"}
         /\ q.in \in Nat /\ q.toWs \in 0 .. HighWater /\ q.toWs \in Nat /\ q.wsq \in Seq({"data", "eof"})
         /\ q.pend \in Nat /\ q.tcpq \in 0 .. HighWater /\ q.tcpq \in Nat /\ HighWater \in Nat \ {0}
         /\ q.wsq \in Seq(Frame) /\ Len(q.wsq) \in Nat /\ Data(q.wsq) \in Int /\ Sends(q) \in Int /\ Takes(q) \in Nat
  <1>1. /\ q.life \in {"none", "on", "gone"} /\ q.tcp \in {"none", "opening", "on", "refused", "gone"}
        /\ q.ws \in {"none", "opening", "on", "gone"}
        /\ q.in \in Nat /\ q.toWs \in 0 .. HighWater /\ q.wsq \in Seq({"data", "eof"})
        /\ q.pend \in Nat /\ q.tcpq \in 0 .. HighWater
    BY DEF Pipes
  <1>2. HighWater \in Nat \ {0}
    BY DEF TunnelAssumption
  <1>3. q.toWs \in Nat /\ q.tcpq \in Nat
    BY <1>1, <1>2
  <1>4. q.wsq \in Seq(Frame) /\ Len(q.wsq) \in Nat /\ Data(q.wsq) \in Int
    BY <1>1, FramesOfPipe, FramesOf
  <1>5. q.in + q.toWs \in Int /\ q.pend + q.tcpq \in Nat
    BY <1>1, <1>3
  <1>6. Sends(q) \in Int
    BY <1>4, <1>5 DEF Sends
  <1>7. Takes(q) \in Nat
    BY <1>5 DEF Takes
  <1> QED  BY <1>1, <1>2, <1>3, <1>4, <1>6, <1>7

\* What the steps that move chunks towards the relay leave as it is.
Sending(q, p) ==
  /\ q \in Pipes /\ Shape(q) /\ Sends(q) = Sends(p)
  /\ q.life = p.life /\ q.tcp = p.tcp /\ q.ws = p.ws /\ q.pend = p.pend /\ q.tcpq = p.tcpq
  /\ q.done = p.done /\ q.dropTcp = p.dropTcp /\ q.check = p.check
  /\ Ended(p) => Ended(q) /\ q.wsq = p.wsq

\* And those that move chunks towards the application.
Receiving(q, p) ==
  /\ q \in Pipes /\ Shape(q) /\ Takes(q) = Takes(p)
  /\ q.life = p.life /\ q.tcp = p.tcp /\ q.ws = p.ws /\ q.in = p.in /\ q.toWs = p.toWs /\ q.wsq = p.wsq
  /\ q.done = p.done /\ q.dropTcp = p.dropTcp /\ q.check = p.check
  /\ q.sendEnd = p.sendEnd /\ q.waitEnd = p.waitEnd /\ q.timer = p.timer

\* Moving chunks along leaves a Pipe in its shape.
LEMMA Reshaped ==
  ASSUME NEW p \in Pipes, Shape(p), p.life = "on", NEW q \in Pipes,
         q.life = p.life, q.tcp = p.tcp, q.ws = p.ws, q.done = p.done, q.dropTcp = p.dropTcp,
         q.check = p.check, q.sendEnd = p.sendEnd, q.waitEnd = p.waitEnd, q.timer = p.timer,
         Len(q.wsq) <= HighWater, InOrder(q.wsq), "eof" \in ToSet(q.wsq) => "eof" \in ToSet(p.wsq),
         Ended(p) => q.in = 0 /\ q.toWs = 0 /\ q.wsq = p.wsq
  PROVE  Shape(q) /\ (Ended(q) <=> Ended(p))
  <1>1. (Left(q) <=> Left(p)) /\ (Ended(q) <=> Ended(p))
    BY DEF Left, Ended
  <1>2. q.timer => Ended(p)
    BY DEF Ended
  <1> QED  BY <1>1, <1>2 DEF Shape

LEMMA ToWsKeeps ==
  ASSUME NEW p \in Pipes, Shape(p), p.life = "on", NEW q, q = ToWs(p)
  PROVE  Sending(q, p) /\ q.sendEnd = p.sendEnd /\ q.waitEnd = p.waitEnd /\ q.timer = p.timer
  <1>1. CASE p.ws # "on"
    <2>1. PICK n : n = Min({p.in, HighWater - p.toWs})
      OBVIOUS
    <2>2. n \in Nat /\ p.in - n \in Nat /\ p.toWs + n \in 0 .. HighWater
      <3>1. p.in \in Nat /\ p.toWs \in 0 .. HighWater /\ HighWater \in Nat
        BY PipeFields
      <3>2. PICK r : r = HighWater - p.toWs
        OBVIOUS
      <3>3. r \in Nat
        BY <3>1, <3>2
      <3>4. n = IF p.in <= r THEN p.in ELSE r
        BY <2>1, <3>1, <3>2, <3>3, Least2
      <3> QED  BY <3>1, <3>2, <3>3, <3>4
    <2>3. q = [p EXCEPT !.in = p.in - n, !.toWs = p.toWs + n]
      BY <1>1, <2>1 DEF ToWs
    <2>4. q \in Pipes
      BY <2>2, <2>3 DEF Pipes
    <2>5. /\ q.in = p.in - n /\ q.toWs = p.toWs + n /\ q.wsq = p.wsq
          /\ q.life = p.life /\ q.tcp = p.tcp /\ q.ws = p.ws /\ q.pend = p.pend /\ q.tcpq = p.tcpq
          /\ q.done = p.done /\ q.dropTcp = p.dropTcp /\ q.check = p.check
          /\ q.sendEnd = p.sendEnd /\ q.waitEnd = p.waitEnd /\ q.timer = p.timer
      BY <2>3 DEF Pipes
    <2>6. ~Ended(p)
      BY <1>1 DEF Shape
    <2>7. Len(q.wsq) <= HighWater /\ InOrder(q.wsq) /\ ("eof" \in ToSet(q.wsq) => "eof" \in ToSet(p.wsq))
      BY <2>5 DEF Shape
    <2>8. Shape(q) /\ (Ended(q) <=> Ended(p))
      BY <2>4, <2>5, <2>6, <2>7, Reshaped
    <2>9. Sends(q) = Sends(p)
      <3>1. p.in \in Nat /\ p.toWs \in Nat /\ Data(p.wsq) \in Int
        BY PipeFields
      <3>2. PICK a : a = Data(p.wsq)
        OBVIOUS
      <3>3. Sends(q) = (p.in - n) + (p.toWs + n) + a /\ Sends(p) = p.in + p.toWs + a
        BY <2>5, <3>2 DEF Sends
      <3> QED  BY <2>2, <3>1, <3>2, <3>3
    <2> QED  BY <2>4, <2>5, <2>6, <2>8, <2>9 DEF Sending
  <1>2. CASE p.ws = "on"
    <2>1. PICK l : l = Len(p.wsq)
      OBVIOUS
    <2>2. PICK n : n = Min({p.toWs, HighWater - l})
      OBVIOUS
    <2>3. PICK m : m = Min({p.in, HighWater - l - n})
      OBVIOUS
    <2>4. PICK t : t = p.wsq \o [k \in 1 .. n + m |-> "data"]
      OBVIOUS
    <2>5. p.in \in Nat /\ p.toWs \in 0 .. HighWater /\ p.toWs \in Nat /\ HighWater \in Nat /\ l \in Nat /\ l <= HighWater
      BY <2>1, PipeFields DEF Shape
    <2>6. n \in Nat /\ n <= p.toWs /\ n <= HighWater - l
      <3>1. n = IF p.toWs <= HighWater - l THEN p.toWs ELSE HighWater - l
        <4>1. HighWater - l \in Int
          BY <2>5
        <4> QED  BY <2>2, <2>5, <4>1, Least2
      <3> QED  BY <2>5, <3>1
    <2>7. m \in Nat /\ m <= p.in /\ m <= HighWater - l - n
      <3>1. m = IF p.in <= HighWater - l - n THEN p.in ELSE HighWater - l - n
        <4>1. HighWater - l - n \in Int
          BY <2>5, <2>6
        <4> QED  BY <2>3, <2>5, <4>1, Least2
      <3> QED  BY <2>5, <2>6, <3>1
    <2>8. PICK j : j = n + m
      OBVIOUS
    <2>9. j \in Nat /\ l + j <= HighWater
      BY <2>5, <2>6, <2>7, <2>8
    <2>10. Ended(p) => n = 0 /\ m = 0 /\ j = 0
      <3>1. Ended(p) => p.in = 0 /\ p.toWs = 0
        BY DEF Shape
      <3> QED  BY <2>5, <2>6, <2>7, <2>8, <3>1
    <2>11. j = 0 \/ "eof" \notin ToSet(p.wsq)
      <3>1. "eof" \in ToSet(p.wsq) => Ended(p)
        BY DEF Shape, Ended
      <3> QED  BY <2>10, <3>1
    <2>12. /\ t \in Seq({"data", "eof"}) /\ Len(t) = l + j /\ InOrder(t) /\ Data(t) = Data(p.wsq) + j
           /\ ("eof" \in ToSet(t) <=> "eof" \in ToSet(p.wsq)) /\ (j = 0 => t = p.wsq)
      <3>1. InOrder(p.wsq) /\ p.wsq \in Seq({"data", "eof"})
        BY PipeFields DEF Shape
      <3>2. PICK s : s = p.wsq
        OBVIOUS
      <3>3. PICK u : u = [k \in 1 .. j |-> "data"]
        OBVIOUS
      <3>4. u \in Seq({"data"}) /\ Len(u) = j /\ t = s \o u
        <4>1. u \in [1 .. j -> {"data"}]
          BY <3>3
        <4>2. u \in Seq({"data"}) /\ Len(u) = j
          BY <2>9, <4>1, SeqDef, LenProperties
        <4> QED  BY <2>4, <2>8, <3>2, <3>3, <4>2
      <3>6. s \in Seq({"data", "eof"}) /\ InOrder(s) /\ (j = 0 \/ "eof" \notin ToSet(s))
        BY <2>11, <3>1, <3>2
      <3>7. u \in Seq({"data"}) /\ t = s \o u /\ j = Len(u) /\ j \in Nat
        BY <2>9, <3>4
      <3>8. /\ t \in Seq({"data", "eof"}) /\ Len(t) = Len(s) + j /\ InOrder(t)
            /\ (\A f \in Marks : f \in ToSet(t) <=> f \in ToSet(s)) /\ (j = 0 => t = s)
        <4>1. Len(u) = 0 \/ "eof" \notin ToSet(s)
          BY <3>6, <3>7
        <4>2. Len(t) = Len(s) + Len(u)
          BY <3>6, <3>7, ConcatProperties
        <4>4. t \in Seq({"data", "eof"}) /\ InOrder(t)
          BY <3>6, <3>7, <4>1, Extended
        <4>3. (\A f \in Marks : f \in ToSet(t) <=> f \in ToSet(s)) /\ (Len(u) = 0 => t = s)
          BY <3>6, <3>7, <4>1, Extended
        <4> QED  BY <3>7, <4>2, <4>3, <4>4
      <3>9. s \in Seq(Frame) /\ t \in Seq(Frame) /\ Data(s) \in Int /\ Len(s) \in Nat
        BY <3>6, <3>8, FramesOfPipe, FramesOf
      <3>10. Data(t) = Data(s) + Len(t) - Len(s)
        BY <3>8, <3>9, DataCounts
      <3>11. Data(t) = Data(s) + j
        BY <3>7, <3>8, <3>9, <3>10
      <3>12. "eof" \in ToSet(t) <=> "eof" \in ToSet(s)
        BY <3>8 DEF Marks
      <3> QED  BY <2>1, <3>2, <3>8, <3>11, <3>12
    <2>13. q = [p EXCEPT !.toWs = p.toWs - n, !.in = p.in - m, !.wsq = t]
      BY <1>2, <2>1, <2>2, <2>3, <2>4 DEF ToWs
    <2>14. p.toWs - n \in 0 .. HighWater /\ p.in - m \in Nat
      BY <2>5, <2>6, <2>7
    <2>15. q \in Pipes
      BY <2>12, <2>13, <2>14 DEF Pipes
    <2>16. /\ q.in = p.in - m /\ q.toWs = p.toWs - n /\ q.wsq = t
           /\ q.life = p.life /\ q.tcp = p.tcp /\ q.ws = p.ws /\ q.pend = p.pend /\ q.tcpq = p.tcpq
           /\ q.done = p.done /\ q.dropTcp = p.dropTcp /\ q.check = p.check
           /\ q.sendEnd = p.sendEnd /\ q.waitEnd = p.waitEnd /\ q.timer = p.timer
      BY <2>13 DEF Pipes
    <2>17. Ended(p) => q.in = 0 /\ q.toWs = 0 /\ q.wsq = p.wsq
      <3>1. Ended(p) => p.in = 0 /\ p.toWs = 0
        BY DEF Shape
      <3> QED  BY <2>10, <2>12, <2>16, <3>1
    <2>18. Len(q.wsq) <= HighWater /\ InOrder(q.wsq) /\ ("eof" \in ToSet(q.wsq) => "eof" \in ToSet(p.wsq))
      BY <2>9, <2>12, <2>16
    <2>19. Shape(q) /\ (Ended(q) <=> Ended(p))
      BY <2>15, <2>16, <2>17, <2>18, Reshaped
    <2>20. Sends(q) = Sends(p)
      <3>1. Data(p.wsq) \in Int
        BY PipeFields
      <3>2. PICK a : a = Data(p.wsq)
        OBVIOUS
      <3>3. Sends(q) = (p.in - m) + (p.toWs - n) + (a + j) /\ Sends(p) = p.in + p.toWs + a
        BY <2>12, <2>16, <3>2 DEF Sends
      <3> QED  BY <2>5, <2>6, <2>7, <2>8, <3>1, <3>2, <3>3
    <2> QED  BY <2>15, <2>16, <2>17, <2>19, <2>20 DEF Sending
  <1> QED  BY <1>1, <1>2

LEMMA EndIfDrainedKeeps ==
  ASSUME NEW p \in Pipes, Shape(p), p.life = "on", NEW q, q = EndIfDrained(p)
  PROVE  Sending(q, p)
  <1>1. CASE ~(p.sendEnd /\ p.toWs = 0 /\ p.in = 0 /\ p.wsq = << >>)
    <2>1. q = p
      BY <1>1 DEF EndIfDrained
    <2> QED  BY <2>1 DEF Sending
  <1>2. CASE p.sendEnd /\ p.toWs = 0 /\ p.in = 0 /\ p.wsq = << >>
    <2>1. PICK t : t = Append(p.wsq, "eof")
      OBVIOUS
    <2>2. t = <<"eof">> /\ t \in Seq({"data", "eof"}) /\ Len(t) = 1
      BY <1>2, <2>1
    <2>3. /\ InOrder(t) /\ Data(t) = Data(p.wsq) /\ "eof" \in ToSet(t)
      <3>1. PICK s : s = p.wsq
        OBVIOUS
      <3>2. s \in Seq(Frame) /\ "eof" \in Frame /\ t = Append(s, "eof") /\ s = << >>
        BY <1>2, <2>1, <3>1, PipeFields DEF Frame
      <3>3. \A f : f \notin ToSet(s)
        BY <3>2 DEF ToSet
      <3>4. InOrder(s)
        BY <3>1 DEF Shape
      <3>5. ToSet(t) = ToSet(s) \cup {"eof"} /\ Data(t) = Data(s) /\ InOrder(t)
        <4>1. "eof" \notin ToSet(s) /\ "close" \notin ToSet(s) /\ "eof" # "data" /\ "eof" # "paired"
          BY <3>3
        <4> QED  BY <3>2, <3>4, <4>1, Appended
      <3> QED  BY <3>1, <3>5
    <2>4. q = [p EXCEPT !.sendEnd = FALSE, !.waitEnd = TRUE, !.wsq = t]
      BY <1>2, <2>1 DEF EndIfDrained
    <2>5. q \in Pipes
      BY <2>2, <2>4 DEF Pipes
    <2>6. /\ q.in = p.in /\ q.toWs = p.toWs /\ q.wsq = t
          /\ q.life = p.life /\ q.tcp = p.tcp /\ q.ws = p.ws /\ q.pend = p.pend /\ q.tcpq = p.tcpq
          /\ q.done = p.done /\ q.dropTcp = p.dropTcp /\ q.check = p.check
          /\ q.sendEnd = FALSE /\ q.waitEnd = TRUE /\ q.timer = p.timer
      BY <2>4 DEF Pipes
    <2>7. ~Ended(p) /\ p.done /\ Left(p) /\ p.ws = "on"
      BY <1>2 DEF Shape
    <2>8. ~q.timer /\ ~q.sendEnd /\ q.waitEnd /\ Ended(q)
      BY <2>6, <2>7 DEF Ended
    <2>9. Left(q)
      BY <2>6, <2>7 DEF Left
    <2>10. Shape(q)
      <3>1. Len(q.wsq) <= HighWater
        BY <2>2, <2>6, PipeFields
      <3> QED  BY <1>2, <2>3, <2>6, <2>7, <2>8, <2>9, <3>1 DEF Shape
    <2>11. Sends(q) = Sends(p)
      BY <2>3, <2>6 DEF Sends
    <2> QED  BY <2>5, <2>6, <2>7, <2>10, <2>11 DEF Sending
  <1> QED  BY <1>1, <1>2

LEMMA FallbackKeeps ==
  ASSUME NEW p \in Pipes, Shape(p), p.life = "on", NEW q, q = Fallback(p)
  PROVE  Sending(q, p)
  <1>1. CASE ~(p.waitEnd /\ p.wsq = << >>)
    <2>1. q = p
      BY <1>1 DEF Fallback
    <2> QED  BY <2>1 DEF Sending
  <1>2. CASE p.waitEnd /\ p.wsq = << >>
    <2>1. q = [p EXCEPT !.waitEnd = FALSE, !.timer = TRUE]
      BY <1>2 DEF Fallback
    <2>2. q \in Pipes
      BY <2>1 DEF Pipes
    <2>3. /\ q.in = p.in /\ q.toWs = p.toWs /\ q.wsq = p.wsq
          /\ q.life = p.life /\ q.tcp = p.tcp /\ q.ws = p.ws /\ q.pend = p.pend /\ q.tcpq = p.tcpq
          /\ q.done = p.done /\ q.dropTcp = p.dropTcp /\ q.check = p.check
          /\ q.sendEnd = p.sendEnd /\ q.waitEnd = FALSE /\ q.timer = TRUE
      BY <2>1 DEF Pipes
    <2>4. Ended(p) /\ Ended(q) /\ ~q.waitEnd /\ q.timer
      BY <1>2, <2>3 DEF Ended
    <2>5. Left(q) <=> Left(p)
      BY <2>3 DEF Left
    <2>6. "eof" \notin ToSet(q.wsq)
      <3>1. PICK s : s = q.wsq
        OBVIOUS
      <3>2. s = << >>
        BY <1>2, <2>3, <3>1
      <3>3. "eof" \notin ToSet(s)
        BY <3>2 DEF ToSet
      <3> QED  BY <3>1, <3>3
    <2>7. Shape(q)
      BY <1>2, <2>3, <2>4, <2>5, <2>6 DEF Shape
    <2>8. Sends(q) = Sends(p)
      BY <2>3 DEF Sends
    <2> QED  BY <2>2, <2>3, <2>4, <2>7, <2>8 DEF Sending
  <1> QED  BY <1>1, <1>2

LEMMA ProgressKeeps ==
  ASSUME NEW p \in Pipes, Shape(p), p.life = "on", NEW q, q = Progress(p)
  PROVE  Sending(q, p)
  <1>1. PICK a, b : a = ToWs(p) /\ b = EndIfDrained(a)
    OBVIOUS
  <1>2. Sending(a, p)
    BY <1>1, ToWsKeeps
  <1>3. a \in Pipes /\ Shape(a) /\ a.life = "on"
    BY <1>2 DEF Sending
  <1>4. Sending(b, a)
    BY <1>1, <1>3, EndIfDrainedKeeps
  <1>5. b \in Pipes /\ Shape(b) /\ b.life = "on" /\ q = Fallback(b)
    BY <1>1, <1>3, <1>4 DEF Sending, Progress
  <1>6. Sending(q, b)
    BY <1>5, FallbackKeeps
  <1> QED  BY <1>2, <1>4, <1>6 DEF Sending

LEMMA ToTcpKeeps ==
  ASSUME NEW p \in Pipes, Shape(p), p.life = "on", NEW q, q = ToTcp(p)
  PROVE  Receiving(q, p)
  <1>1. CASE p.tcp # "on"
    <2>1. q = p
      BY <1>1 DEF ToTcp
    <2> QED  BY <2>1 DEF Receiving
  <1>2. CASE p.tcp = "on"
    <2>1. PICK n : n = Min({p.pend, HighWater - p.tcpq})
      OBVIOUS
    <2>2. p.pend \in Nat /\ p.tcpq \in 0 .. HighWater /\ HighWater \in Nat
      BY PipeFields
    <2>3. n \in Nat /\ n <= p.pend /\ n <= HighWater - p.tcpq
      <3>1. n = IF p.pend <= HighWater - p.tcpq THEN p.pend ELSE HighWater - p.tcpq
        <4>1. HighWater - p.tcpq \in Int
          BY <2>2
        <4> QED  BY <2>1, <2>2, <4>1, Least2
      <3> QED  BY <2>2, <3>1
    <2>4. q = [p EXCEPT !.pend = p.pend - n, !.tcpq = p.tcpq + n]
      BY <1>2, <2>1 DEF ToTcp
    <2>5. p.pend - n \in Nat /\ p.tcpq + n \in 0 .. HighWater
      BY <2>2, <2>3
    <2>6. q \in Pipes
      BY <2>4, <2>5 DEF Pipes
    <2>7. /\ q.pend = p.pend - n /\ q.tcpq = p.tcpq + n
          /\ q.life = p.life /\ q.tcp = p.tcp /\ q.ws = p.ws /\ q.in = p.in /\ q.toWs = p.toWs /\ q.wsq = p.wsq
          /\ q.done = p.done /\ q.dropTcp = p.dropTcp /\ q.check = p.check
          /\ q.sendEnd = p.sendEnd /\ q.waitEnd = p.waitEnd /\ q.timer = p.timer
      BY <2>4 DEF Pipes
    <2>8. Len(q.wsq) <= HighWater /\ InOrder(q.wsq) /\ (Ended(p) => q.in = 0 /\ q.toWs = 0)
      BY <2>7 DEF Shape
    <2>9. Shape(q)
      BY <2>6, <2>7, <2>8, Reshaped
    <2>10. Takes(q) = Takes(p)
      <3>1. Takes(q) = (p.pend - n) + (p.tcpq + n) /\ Takes(p) = p.pend + p.tcpq
        BY <2>7 DEF Takes
      <3> QED  BY <2>2, <2>3, <3>1
    <2> QED  BY <2>6, <2>7, <2>9, <2>10 DEF Receiving
  <1> QED  BY <1>1, <1>2

\* A Pipe that has gone holds nothing.
Gone(q) ==
  /\ q \in Pipes /\ Shape(q) /\ q.life = "gone" /\ q.ws = "gone"
  /\ Sends(q) = 0 /\ Takes(q) = 0 /\ q.wsq = << >> /\ ~q.dropTcp

LEMMA NoFrames == Data(<< >>) = 0 /\ InOrder(<< >>) /\ Len(<< >>) = 0 /\ \A f : f \notin ToSet(<< >>)
  <1>1. PICK s : s = << >>
    OBVIOUS
  <1>2. Len(s) = 0 /\ \A f : f \notin ToSet(s)
    BY <1>1 DEF ToSet
  <1>3. Data(s) = 0
    <2>1. One("eof" \in ToSet(s)) = 0 /\ One("close" \in ToSet(s)) = 0 /\ One("paired" \in ToSet(s)) = 0
      BY <1>2 DEF One
    <2> QED  BY <1>2, <2>1 DEF Data
  <1>4. InOrder(s)
    BY <1>2 DEF InOrder
  <1> QED  BY <1>1, <1>2, <1>3, <1>4

LEMMA EmptyPipe ==
  ASSUME NEW q \in Pipes, Empty(q)
  PROVE  Sends(q) = 0 /\ Takes(q) = 0
  BY NoFrames DEF Empty, Sends, Takes

LEMMA DeletedIsGone ==
  ASSUME NEW tcp \in {"gone", "refused"}, NEW q, q = Deleted(tcp)
  PROVE  Gone(q) /\ q.tcp = tcp
  <1>1. q = [life |-> "gone", tcp |-> tcp, ws |-> "gone", in |-> 0, toWs |-> 0, wsq |-> << >>,
             pend |-> 0, tcpq |-> 0, done |-> TRUE, sendEnd |-> FALSE, waitEnd |-> FALSE,
             dropTcp |-> FALSE, check |-> FALSE, timer |-> FALSE]
    BY DEF Deleted, Built
  <1>2. 0 \in 0 .. HighWater
    BY DEF TunnelAssumption
  <1>3. q \in Pipes
    BY <1>1, <1>2 DEF Pipes
  <1>4. Empty(q) /\ q.life = "gone" /\ q.ws = "gone" /\ q.tcp = tcp /\ Left(q) /\ ~Ended(q)
    BY <1>1 DEF Empty, Left, Ended
  <1>5. q.wsq = << >> /\ ~q.dropTcp /\ ~q.check /\ ~q.sendEnd /\ ~q.timer
    BY <1>4 DEF Empty
  <1>6. Len(q.wsq) <= HighWater /\ InOrder(q.wsq) /\ "eof" \notin ToSet(q.wsq)
    BY <1>5, NoFrames, PipeFields, <1>3
  <1>7. Shape(q)
    BY <1>4, <1>5, <1>6 DEF Shape
  <1> QED  BY <1>3, <1>4, <1>5, <1>7, EmptyPipe DEF Gone

LEMMA DropIfDrainedKeeps ==
  ASSUME NEW p \in Pipes, Shape(p), NEW q, q = DropIfDrained(p)
  PROVE  \/ q = p
         \/ p.dropTcp /\ Takes(p) = 0 /\ Gone(q) /\ q.tcp = "gone"
  <1>1. CASE p.dropTcp /\ p.pend = 0 /\ p.tcpq = 0
    BY <1>1, DeletedIsGone DEF DropIfDrained, Takes
  <1> QED  BY <1>1 DEF DropIfDrained

LEMMA TcpFinishedKeeps ==
  ASSUME NEW p \in Pipes, Shape(p), p.life = "on", p.tcp \in {"opening", "on"},
         NEW tcp \in {"gone", "refused"}, NEW q, q = TcpFinished(p, tcp)
  PROVE  /\ q.tcp = tcp /\ ~Ended(p)
         /\ \/ (p.done \/ p.ws # "on") /\ Gone(q)
            \/ /\ p.ws = "on" /\ q \in Pipes /\ Shape(q) /\ q.life = "on" /\ q.ws = "on"
               /\ Sends(q) = Sends(p) /\ ~q.dropTcp
  <1>1. ~Left(p) /\ ~Ended(p) /\ ~p.sendEnd
    BY DEF Shape, Left
  <1>2. CASE p.done \/ p.ws # "on"
    <2>1. q = Deleted(tcp)
      BY <1>2 DEF TcpFinished
    <2> QED  BY <1>1, <1>2, <2>1, DeletedIsGone
  <1>3. CASE ~(p.done \/ p.ws # "on")
    <2>1. PICK a, b, c : a = [p EXCEPT !.done = TRUE, !.tcp = tcp] /\ b = ToWs(a) /\ c = [b EXCEPT !.sendEnd = TRUE]
      OBVIOUS
    <2>2. a \in Pipes
      BY <2>1 DEF Pipes
    <2>3. /\ a.in = p.in /\ a.toWs = p.toWs /\ a.wsq = p.wsq
          /\ a.life = p.life /\ a.tcp = tcp /\ a.ws = p.ws /\ a.pend = p.pend /\ a.tcpq = p.tcpq
          /\ a.done = TRUE /\ a.dropTcp = p.dropTcp /\ a.check = p.check
          /\ a.sendEnd = p.sendEnd /\ a.waitEnd = p.waitEnd /\ a.timer = p.timer
      BY <2>1 DEF Pipes
    <2>4. Left(a) /\ a.done /\ a.ws = "on" /\ ~Ended(a) /\ ~a.sendEnd /\ ~a.dropTcp /\ ~a.check
      <3>1. ~p.waitEnd /\ ~p.timer
        BY <1>1 DEF Ended
      <3>2. ~p.dropTcp /\ ~p.check
        BY <1>3 DEF Shape
      <3> QED  BY <1>1, <1>3, <2>3, <3>1, <3>2 DEF Left, Ended
    <2>5. Shape(a)
      <3>1. ~a.timer /\ ~a.waitEnd
        BY <2>4 DEF Ended
      <3>2. Len(a.wsq) <= HighWater /\ InOrder(a.wsq) /\ "eof" \notin ToSet(a.wsq)
        BY <1>1, <2>3 DEF Shape, Ended
      <3>3. a.life = "on" /\ a.tcp # "none" /\ a.ws # "none" /\ a.ws # "gone"
        BY <2>3, <2>4
      <3> QED  BY <2>4, <3>1, <3>2, <3>3 DEF Shape
    <2>6. Sending(b, a) /\ b.sendEnd = a.sendEnd /\ b.waitEnd = a.waitEnd /\ b.timer = a.timer
      BY <2>1, <2>2, <2>3, <2>5, ToWsKeeps
    <2>7. b \in Pipes /\ Shape(b) /\ b.life = "on" /\ b.ws = "on" /\ b.done /\ ~b.dropTcp /\ b.tcp = tcp /\ Sends(b) = Sends(p)
      <3>1. Sends(a) = Sends(p)
        BY <2>3 DEF Sends
      <3> QED  BY <2>3, <2>4, <2>6, <3>1 DEF Sending
    <2>8. c \in Pipes
      BY <2>1, <2>7 DEF Pipes
    <2>9. /\ c.in = b.in /\ c.toWs = b.toWs /\ c.wsq = b.wsq
          /\ c.life = b.life /\ c.tcp = b.tcp /\ c.ws = b.ws /\ c.pend = b.pend /\ c.tcpq = b.tcpq
          /\ c.done = b.done /\ c.dropTcp = b.dropTcp /\ c.check = b.check
          /\ c.sendEnd = TRUE /\ c.waitEnd = b.waitEnd /\ c.timer = b.timer
      BY <2>1, <2>7 DEF Pipes
    <2>10. ~Ended(b) /\ ~Ended(c) /\ ~c.timer /\ Left(b) /\ Left(c)
      BY <2>4, <2>6, <2>7, <2>9 DEF Ended, Left
    <2>11. Shape(c)
      BY <2>7, <2>9, <2>10 DEF Shape
    <2>12. Sending(q, c)
      <3>1. q = EndIfDrained(c)
        BY <1>3, <2>1 DEF TcpFinished
      <3> QED  BY <2>7, <2>8, <2>9, <2>11, <3>1, EndIfDrainedKeeps
    <2>13. Sends(c) = Sends(b)
      BY <2>9 DEF Sends
    <2> QED  BY <1>1, <1>3, <2>7, <2>9, <2>12, <2>13 DEF Sending
  <1> QED  BY <1>2, <1>3

LEMMA WsFinishedKeeps ==
  ASSUME NEW p \in Pipes, Shape(p), p.life = "on", p.ws # "gone", NEW q, q = WsFinished(p)
  PROVE  \/ Gone(q) /\ (q.tcp = "refused" \/ (p.tcp = "gone" /\ q.tcp = "gone"))
         \/ /\ p.tcp = "on" /\ ~Ended(p) /\ q \in Pipes /\ Shape(q) /\ q.life = "on" /\ q.tcp = "on"
            /\ q.ws = "gone" /\ q.dropTcp /\ q.check /\ Takes(q) = Takes(p)
  <1>1. CASE p.done
    <2>1. p.tcp \in {"gone", "refused"}
      BY <1>1 DEF Shape, Left
    <2>2. q = Deleted(p.tcp)
      BY <1>1 DEF WsFinished
    <2> QED  BY <2>1, <2>2, DeletedIsGone
  <1>2. CASE ~p.done /\ p.tcp # "on"
    <2>1. q = Deleted("refused")
      BY <1>2 DEF WsFinished
    <2> QED  BY <2>1, DeletedIsGone
  <1>3. CASE ~p.done /\ p.tcp = "on"
    <2>1. PICK a : a = [p EXCEPT !.done = TRUE, !.ws = "gone", !.dropTcp = TRUE, !.check = TRUE]
      OBVIOUS
    <2>2. a \in Pipes
      BY <2>1 DEF Pipes
    <2>3. /\ a.in = p.in /\ a.toWs = p.toWs /\ a.wsq = p.wsq
          /\ a.life = p.life /\ a.tcp = p.tcp /\ a.ws = "gone" /\ a.pend = p.pend /\ a.tcpq = p.tcpq
          /\ a.done = TRUE /\ a.dropTcp = TRUE /\ a.check = TRUE
          /\ a.sendEnd = p.sendEnd /\ a.waitEnd = p.waitEnd /\ a.timer = p.timer
      BY <2>1 DEF Pipes
    <2>4. ~Ended(p) /\ ~p.sendEnd
      BY <1>3 DEF Shape
    <2>5. ~Ended(a) /\ ~a.sendEnd /\ ~a.timer /\ a.dropTcp /\ a.done /\ ~Left(a) /\ a.check
      BY <1>3, <2>3, <2>4 DEF Ended, Left
    <2>6. Shape(a)
      <3>1. Len(a.wsq) <= HighWater /\ InOrder(a.wsq) /\ "eof" \notin ToSet(a.wsq)
        BY <2>3, <2>4 DEF Shape, Ended
      <3>2. a.life = "on" /\ a.tcp = "on" /\ a.ws = "gone"
        BY <1>3, <2>3
      <3> QED  BY <2>5, <3>1, <3>2 DEF Shape
    <2>7. q = ToTcp(a)
      BY <1>3, <2>1 DEF WsFinished
    <2>8. Receiving(q, a)
      BY <2>2, <2>3, <2>6, <2>7, ToTcpKeeps
    <2>9. Takes(a) = Takes(p)
      BY <2>3 DEF Takes
    <2> QED  BY <1>3, <2>3, <2>4, <2>5, <2>8, <2>9 DEF Receiving
  <1> QED  BY <1>1, <1>2, <1>3
-----------------------------------------------------------------------------
(* The inductive invariant, until a socket is lost                         *)

TailTyped ==
  /\ pipe \in [Device -> Pipes] /\ up \in [Device -> Seq(Frame)] /\ down \in [Device -> Seq(Frame)]
  /\ hold \in Device \cup {"none"} /\ eof \subseteq Device
  /\ wrote \in [Device -> Nat] /\ got \in [Device -> Nat]
  /\ closed \in [Device -> {"no", "early", "clean"}]
  /\ at \in [Socket -> Places] /\ (\A x \in Channel : at[x] \notin {"paired", "ended"})
  /\ waiting \in [Role -> Seq([who : Socket, live : BOOLEAN])]

\* A queue holds sockets of its role, each once while it is parked.
Entries ==
  \A r \in Role : \A i \in 1 .. Len(waiting[r]) :
    /\ RoleOf(waiting[r][i].who) = r
    /\ waiting[r][i].live => at[waiting[r][i].who] = "parked"
    /\ \A j \in 1 .. Len(waiting[r]) :
         waiting[r][i].live /\ waiting[r][j].live /\ waiting[r][i].who = waiting[r][j].who => i = j

\* The far device has been told of its half, or has its Pipe.
Met == pipe["far"].life # "none" \/ down["far"] # << >>

Closing(d) ==
  /\ Shape(pipe[d])
  /\ closed[d] # "no" => pipe[d].tcp = "gone"
  /\ pipe[d].life = "on" /\ pipe[d].tcp = "gone" => closed[d] # "no"

Uplink(d) ==
  /\ InOrder(up[d]) /\ "paired" \notin ToSet(up[d])
  /\ "close" \in ToSet(up[d]) => pipe[d].life = "gone"
  /\ "eof" \in ToSet(up[d]) \/ d \in eof => pipe[d].wsq = << >> /\ (Ended(pipe[d]) \/ pipe[d].life = "gone")
  /\ d \in eof => ToSet(up[d]) \subseteq {"close"} /\ hold # d

Downlink(d) ==
  /\ InOrder(down[d]) /\ "eof" \notin ToSet(down[d])
  /\ "close" \in ToSet(down[d]) => at[Watched] = "ended"
  /\ pipe[d].life # "none" \/ d = "near" => "paired" \notin ToSet(down[d])
  /\ d = "far" /\ pipe[d].life = "none" /\ down[d] # << >> => Head(down[d]) = "paired"

Stage ==
  /\ at[Watched] = "idle" => pipe["near"].life = "none"
  /\ at[Watched] = "paired" => Met
  /\ at[Watched] \notin {"paired", "ended"} => ~Met /\ hold = "none" /\ eof = {} /\ down["near"] = << >>

\* What d writes can still arrive: both sockets were up when d closed, if it did, and
\* the other application has not closed.
Lives(d) ==
  /\ closed[d] # "early" /\ closed[Peer(d)] = "no"
  /\ pipe[d].tcp # "refused" /\ pipe[Peer(d)].tcp # "refused"
  /\ at[Watched] = "ended" => Met

\* What a parser holds when its socket has ended.
Unparsed(s) == ToSet(s) \subseteq {"data"}

\* Every chunk d wrote is in one of the queues or has been given to the other
\* application, and no queue is dropped before it is empty, but the parser's, and that
\* only by a bytesWritten().
Passage(d) ==
  LET e == Peer(d)
  IN  /\ wrote[d] = Sends(pipe[d]) + Data(up[d]) + One(hold = d) + Data(down[e]) + Takes(pipe[e]) + got[e]
      /\ at[Watched] = "ended" => pipe[d].life = "gone" /\ Data(up[d]) = 0 /\ hold # d
      /\ pipe[e].ws = "gone" => at[Watched] = "ended"
      /\ pipe[e].life = "gone" => Unparsed(down[e]) /\ (down[e] # << >> => e \in late)
      /\ pipe[e].dropTcp => Unparsed(down[e]) /\ (down[e] # << >> => pipe[e].check)

TailInv ==
  /\ TailTyped /\ Entries /\ Stage
  /\ \A d \in Device : Closing(d) /\ Uplink(d) /\ Downlink(d) /\ (Lives(d) => Passage(d))

LEMMA TwoDevices ==
  /\ Device = {"near", "far"} /\ Peer("near") = "far" /\ Peer("far") = "near"
  /\ \A d \in Device : Peer(d) \in Device /\ Peer(d) # d /\ Peer(Peer(d)) = d
  /\ \A d, e \in Device : e = d \/ e = Peer(d)
  BY DEF Device, Peer

LEMMA NumbersOf ==
  ASSUME TailTyped, NEW d \in Device
  PROVE  /\ Sends(pipe[d]) \in Int /\ Takes(pipe[d]) \in Int /\ Data(up[d]) \in Int /\ Data(down[d]) \in Int
         /\ wrote[d] \in Int /\ got[d] \in Int /\ One(hold = d) \in Int
  <1>1. pipe[d] \in Pipes /\ up[d] \in Seq(Frame) /\ down[d] \in Seq(Frame) /\ wrote[d] \in Nat /\ got[d] \in Nat
    BY DEF TailTyped
  <1>2. Sends(pipe[d]) \in Int /\ Takes(pipe[d]) \in Int
    BY <1>1, PipeFields
  <1>3. Data(up[d]) \in Int /\ Data(down[d]) \in Int
    BY <1>1, FramesOf
  <1> QED  BY <1>1, <1>2, <1>3 DEF One

\* While what x writes can still arrive, its WebSocket is not gone.
LEMMA StillOpen ==
  ASSUME TailInv, NEW x \in Device, pipe[x].life = "on", Lives(x)
  PROVE  at[Watched] # "ended" /\ ~pipe[x].dropTcp
  <1>1. at[Watched] # "ended"
    BY DEF TailInv, Passage
  <1>2. ASSUME pipe[x].dropTcp PROVE FALSE
    <2>1. pipe[x].ws = "gone" /\ pipe[x].tcp = "on" /\ closed[x] = "no"
      BY <1>2 DEF TailInv, Closing, Shape
    <2>2. Peer(x) \in Device /\ Peer(Peer(x)) = x
      BY TwoDevices
    <2>3. Lives(Peer(x))
      BY <2>1, <2>2 DEF Lives
    <2> QED  BY <1>1, <2>1, <2>2, <2>3 DEF TailInv, Passage
  <1> QED  BY <1>1, <1>2

LEMMA NothingIn ==
  ASSUME NEW s \in Seq(Frame), \A f : f \notin ToSet(s)
  PROVE  s = << >>
  <1>1. PICK n : n = Len(s)
    OBVIOUS
  <1>2. n \in Nat /\ \A i \in 1 .. n : s[i] \in ToSet(s)
    BY <1>1, FramesOf
  <1>3. n = 0
    <2>1. n # 0 => 1 \in 1 .. n
      BY <1>2
    <2> QED  BY <1>2, <2>1
  <1> QED  BY <1>1, <1>3, EmptySeq

\* One event of x's Pipe makes it q, u and v the frames from it and to it, w, g and c what
\* its application wrote, was given and how it closed.
Changes(x, q, u, v, w, g, c) ==
  /\ pipe' = [pipe EXCEPT ![x] = q] /\ up' = [up EXCEPT ![x] = u] /\ down' = [down EXCEPT ![x] = v]
  /\ wrote' = [wrote EXCEPT ![x] = w] /\ got' = [got EXCEPT ![x] = g]
  /\ closed' = [closed EXCEPT ![x] = c] /\ late \subseteq late' /\ UNCHANGED <<at, waiting, hold, eof>>

\* What it has to show of them.
Conserves(x, q, u, v, w, g, c) ==
  /\ pipe[x].life = "on" /\ q \in Pipes /\ Shape(q) /\ q.life # "none"
  /\ u \in Seq(Frame) /\ v \in Seq(Frame) /\ w \in Nat /\ g \in Nat /\ c \in {"no", "early", "clean"}
  /\ c # "no" => q.tcp = "gone"
  /\ q.life = "on" /\ q.tcp = "gone" => c # "no"
  /\ closed[x] # "no" => c = closed[x]
  /\ pipe[x].tcp = "refused" => q.tcp = "refused"
  /\ InOrder(u) /\ "paired" \notin ToSet(u)
  /\ "close" \in ToSet(u) => q.life = "gone"
  /\ "eof" \in ToSet(u) \/ x \in eof => q.wsq = << >> /\ (Ended(q) \/ q.life = "gone")
  /\ x \in eof => ToSet(u) \subseteq {"close"}
  /\ InOrder(v) /\ ToSet(v) \subseteq ToSet(down[x])
  /\ c # "early" /\ q.tcp # "refused" /\ at[Watched] # "ended" /\ ~pipe[x].dropTcp =>
       w + Sends(pipe[x]) + Data(up[x]) = wrote[x] + Sends(q) + Data(u)
  /\ c = "no" /\ q.tcp # "refused" /\ Passage(Peer(x)) =>
       /\ Takes(q) + Data(v) + g = Takes(pipe[x]) + Data(down[x]) + got[x]
       /\ q.ws = "gone" => at[Watched] = "ended"
       /\ q.life = "gone" => Unparsed(v) /\ (v # << >> => x \in late')
       /\ q.dropTcp => Unparsed(v) /\ (v # << >> => q.check)

LEMMA PipeStep ==
  ASSUME TailInv, NEW x \in Device, NEW q, NEW u, NEW v, NEW w, NEW g, NEW c,
         Changes(x, q, u, v, w, g, c), Conserves(x, q, u, v, w, g, c)
  PROVE  TailInv'
  <1> SUFFICES ASSUME pipe[x].life = "on", q \in Pipes, Shape(q), q.life # "none",
                    u \in Seq(Frame), v \in Seq(Frame), w \in Nat, g \in Nat,
                    c \in {"no", "early", "clean"},
                    pipe' = [pipe EXCEPT ![x] = q], up' = [up EXCEPT ![x] = u], down' = [down EXCEPT ![x] = v],
                    wrote' = [wrote EXCEPT ![x] = w], got' = [got EXCEPT ![x] = g],
                    closed' = [closed EXCEPT ![x] = c], late \subseteq late', UNCHANGED <<at, waiting, hold, eof>>,
                    c # "no" => q.tcp = "gone", q.life = "on" /\ q.tcp = "gone" => c # "no",
                    closed[x] # "no" => c = closed[x], pipe[x].tcp = "refused" => q.tcp = "refused",
                    InOrder(u), "paired" \notin ToSet(u), "close" \in ToSet(u) => q.life = "gone",
                    "eof" \in ToSet(u) \/ x \in eof => q.wsq = << >> /\ (Ended(q) \/ q.life = "gone"),
                    x \in eof => ToSet(u) \subseteq {"close"},
                    InOrder(v), ToSet(v) \subseteq ToSet(down[x]),
                    c # "early" /\ q.tcp # "refused" /\ at[Watched] # "ended" /\ ~pipe[x].dropTcp =>
                      w + Sends(pipe[x]) + Data(up[x]) = wrote[x] + Sends(q) + Data(u),
                    c = "no" /\ q.tcp # "refused" /\ Passage(Peer(x)) =>
                      /\ Takes(q) + Data(v) + g = Takes(pipe[x]) + Data(down[x]) + got[x]
                      /\ q.ws = "gone" => at[Watched] = "ended"
                      /\ q.life = "gone" => Unparsed(v) /\ (v # << >> => x \in late')
                      /\ q.dropTcp => Unparsed(v) /\ (v # << >> => q.check)
               PROVE  TailInv'
    BY DEF Changes, Conserves
  <1>1. PICK y : y = Peer(x)
    OBVIOUS
  <1>2. y \in Device /\ y # x /\ Peer(y) = x /\ \A d \in Device : d = x \/ d = y
    BY <1>1, TwoDevices
  <1>3. TailTyped
    BY DEF TailInv
  <1>4. /\ pipe'[x] = q /\ up'[x] = u /\ down'[x] = v /\ wrote'[x] = w /\ got'[x] = g /\ closed'[x] = c
        /\ pipe'[y] = pipe[y] /\ up'[y] = up[y] /\ down'[y] = down[y] /\ wrote'[y] = wrote[y]
        /\ got'[y] = got[y] /\ closed'[y] = closed[y]
        /\ at' = at /\ waiting' = waiting /\ hold' = hold /\ eof' = eof
    BY <1>2, <1>3 DEF TailTyped
  <1>5. TailTyped'
    BY <1>3, <1>4 DEF TailTyped
  <1>6. Entries'
    BY <1>4 DEF TailInv, Entries
  <1>7. (Met' <=> Met) \/ (x = "far" /\ Met /\ Met')
    <2>1. CASE x = "far"
      <3>1. pipe["far"].life # "none" /\ pipe'["far"].life # "none"
        BY <1>4, <2>1
      <3> QED  BY <2>1, <3>1 DEF Met
    <2>2. CASE x # "far"
      <3>1. y = "far"
        BY <1>2, <2>2, TwoDevices
      <3> QED  BY <1>4, <3>1 DEF Met
    <2> QED  BY <2>1, <2>2
  <1>8. at[Watched] \notin {"idle"} \/ x # "near"
    BY DEF TailInv, Stage
  <1>9. Stage'
    <2>1. at[Watched] = "idle" => pipe'["near"].life = "none"
      <3>1. at[Watched] = "idle" => x # "near" /\ pipe["near"].life = "none"
        BY DEF TailInv, Stage
      <3>2. x # "near" => y = "near"
        BY <1>2, TwoDevices
      <3> QED  BY <1>4, <3>1, <3>2
    <2>2. at[Watched] = "paired" => Met'
      BY <1>7 DEF TailInv, Stage
    <2>3. at[Watched] \notin {"paired", "ended"} => ~Met' /\ hold = "none" /\ eof = {} /\ down'["near"] = << >>
      <3> SUFFICES ASSUME at[Watched] \notin {"paired", "ended"}
                   PROVE  ~Met' /\ hold = "none" /\ eof = {} /\ down'["near"] = << >>
        OBVIOUS
      <3>1. ~Met /\ hold = "none" /\ eof = {} /\ down["near"] = << >>
        BY DEF TailInv, Stage
      <3>2. x = "near"
        BY <1>7, <3>1, TwoDevices DEF Met
      <3>3. v = << >>
        <4>1. \A f : f \notin ToSet(v)
          BY <3>1, <3>2, NoFrames
        <4> QED  BY <4>1, NothingIn
      <3> QED  BY <1>4, <1>7, <3>1, <3>2, <3>3
    <2> QED  BY <1>4, <2>1, <2>2, <2>3 DEF Stage
  <1>10. \A d \in Device : Closing(d)'
    <2>1. Closing(x)'
      BY <1>4 DEF Closing
    <2>2. Closing(y)'
      <3>1. Closing(y)
        BY <1>2 DEF TailInv
      <3> QED  BY <1>4, <3>1 DEF Closing
    <2> QED  BY <1>2, <2>1, <2>2
  <1>11. \A d \in Device : Uplink(d)'
    <2>1. Uplink(x)'
      <3>1. x \in eof => hold # x
        BY DEF TailInv, Uplink
      <3> QED  BY <1>4, <3>1 DEF Uplink
    <2>2. Uplink(y)'
      <3>1. Uplink(y)
        BY <1>2 DEF TailInv
      <3> QED  BY <1>4, <3>1 DEF Uplink
    <2> QED  BY <1>2, <2>1, <2>2
  <1>12. \A d \in Device : Downlink(d)'
    <2>1. Downlink(x)'
      <3>1. Downlink(x)
        BY DEF TailInv
      <3>2. "eof" \notin ToSet(v) /\ "paired" \notin ToSet(v) /\ ("close" \in ToSet(v) => at[Watched] = "ended")
        BY <3>1 DEF Downlink
      <3> QED  BY <1>4, <3>2 DEF Downlink
    <2>2. Downlink(y)'
      <3>1. Downlink(y)
        BY <1>2 DEF TailInv
      <3> QED  BY <1>4, <3>1 DEF Downlink
    <2> QED  BY <1>2, <2>1, <2>2
  <1>13. /\ c # "early" /\ closed[y] = "no" /\ q.tcp # "refused" /\ pipe[y].tcp # "refused" /\ (at[Watched] = "ended" => Met')
              <=> Lives(x)'
         /\ closed[y] # "early" /\ c = "no" /\ pipe[y].tcp # "refused" /\ q.tcp # "refused" /\ (at[Watched] = "ended" => Met')
              <=> Lives(y)'
    BY <1>1, <1>2, <1>4 DEF Lives
  <1>14. (Lives(x)' => Lives(x)) /\ (Lives(y)' => Lives(y))
    BY <1>1, <1>2, <1>7, <1>13 DEF Lives
  <1>15. Lives(x)' => Passage(x)'
    <2> SUFFICES ASSUME Lives(x)' PROVE Passage(x)'
      OBVIOUS
    <2>1. Passage(x) /\ at[Watched] # "ended" /\ ~pipe[x].dropTcp
      BY <1>14, StillOpen DEF TailInv
    <2>2. w + Sends(pipe[x]) + Data(up[x]) = wrote[x] + Sends(q) + Data(u)
      BY <1>13, <2>1
    <2>3. wrote[x] = Sends(pipe[x]) + Data(up[x]) + One(hold = x) + Data(down[y]) + Takes(pipe[y]) + got[y]
      BY <1>1, <2>1 DEF Passage
    <2>4. w = Sends(q) + Data(u) + One(hold = x) + Data(down[y]) + Takes(pipe[y]) + got[y]
      <3>1. PICK a1, a2, a3, a4, a5, a6, b1, b2, w1 :
              /\ a1 = Sends(pipe[x]) /\ a2 = Data(up[x]) /\ a3 = One(hold = x) /\ a4 = Data(down[y])
              /\ a5 = Takes(pipe[y]) /\ a6 = got[y] /\ b1 = Sends(q) /\ b2 = Data(u) /\ w1 = wrote[x]
        OBVIOUS
      <3>2. {a1, a2, a3, a4, a5, a6, b1, b2, w1} \subseteq Int
        BY <1>2, <1>3, <3>1, NumbersOf, PipeFields, FramesOf
      <3>3. w + a1 + a2 = w1 + b1 + b2 /\ w1 = a1 + a2 + a3 + a4 + a5 + a6
        BY <2>2, <2>3, <3>1
      <3>4. a1 \in Int /\ a2 \in Int /\ a3 \in Int /\ a4 \in Int /\ a5 \in Int /\ a6 \in Int /\ b1 \in Int /\ b2 \in Int
            /\ w1 \in Int /\ w \in Int
        BY <3>2
      <3>5. PICK r : r = a3 + a4 + a5 + a6
        OBVIOUS
      <3>6. r \in Int /\ w1 = a1 + a2 + r
        BY <3>3, <3>4, <3>5
      <3>7. w = b1 + b2 + r
        BY <3>3, <3>4, <3>6
      <3>8. w = b1 + b2 + a3 + a4 + a5 + a6
        BY <3>4, <3>5, <3>7
      <3> QED  BY <3>1, <3>8
    <2>5. /\ pipe[y].ws = "gone" => at[Watched] = "ended"
          /\ pipe[y].life = "gone" => Unparsed(down[y]) /\ (down[y] # << >> => y \in late)
          /\ pipe[y].dropTcp => Unparsed(down[y]) /\ (down[y] # << >> => pipe[y].check)
      BY <1>1, <2>1 DEF Passage
    <2> QED  BY <1>1, <1>4, <2>1, <2>4, <2>5 DEF Passage
  <1>16. Lives(y)' => Passage(y)'
    <2> SUFFICES ASSUME Lives(y)' PROVE Passage(y)'
      OBVIOUS
    <2>1. Passage(y)
      BY <1>2, <1>14 DEF TailInv
    <2>2. /\ Takes(q) + Data(v) + g = Takes(pipe[x]) + Data(down[x]) + got[x]
          /\ q.ws = "gone" => at[Watched] = "ended"
          /\ q.life = "gone" => Unparsed(v) /\ (v # << >> => x \in late')
          /\ q.dropTcp => Unparsed(v) /\ (v # << >> => q.check)
      BY <1>1, <1>13, <2>1
    <2>3. wrote[y] = Sends(pipe[y]) + Data(up[y]) + One(hold = y) + Data(down[x]) + Takes(pipe[x]) + got[x]
      BY <1>2, <2>1 DEF Passage
    <2>4. wrote[y] = Sends(pipe[y]) + Data(up[y]) + One(hold = y) + Data(v) + Takes(q) + g
      <3>1. PICK a1, a2, a3, a4, a5, a6, b1, b2, w1 :
              /\ a1 = Sends(pipe[y]) /\ a2 = Data(up[y]) /\ a3 = One(hold = y) /\ a4 = Data(down[x])
              /\ a5 = Takes(pipe[x]) /\ a6 = got[x] /\ b1 = Takes(q) /\ b2 = Data(v) /\ w1 = wrote[y]
        OBVIOUS
      <3>2. {a1, a2, a3, a4, a5, a6, b1, b2, w1} \subseteq Int
        BY <1>2, <1>3, <3>1, NumbersOf, PipeFields, FramesOf
      <3>3. b1 + b2 + g = a5 + a4 + a6 /\ w1 = a1 + a2 + a3 + a4 + a5 + a6
        BY <2>2, <2>3, <3>1
      <3>4. a1 \in Int /\ a2 \in Int /\ a3 \in Int /\ a4 \in Int /\ a5 \in Int /\ a6 \in Int /\ b1 \in Int /\ b2 \in Int
            /\ w1 \in Int /\ g \in Int
        BY <3>2
      <3>5. PICK r : r = a1 + a2 + a3
        OBVIOUS
      <3>6. r \in Int /\ w1 = r + a4 + a5 + a6
        BY <3>3, <3>4, <3>5
      <3>7. w1 = r + b2 + b1 + g
        BY <3>3, <3>4, <3>6
      <3>8. w1 = a1 + a2 + a3 + b2 + b1 + g
        BY <3>4, <3>5, <3>7
      <3> QED  BY <3>1, <3>8
    <2>5. at[Watched] = "ended" => pipe[y].life = "gone" /\ Data(up[y]) = 0 /\ hold # y
      BY <2>1 DEF Passage
    <2> QED  BY <1>2, <1>4, <2>2, <2>4, <2>5 DEF Passage
  <1> QED  BY <1>2, <1>5, <1>6, <1>9, <1>10, <1>11, <1>12, <1>15, <1>16 DEF TailInv

LEMMA Unmoved ==
  ASSUME TailTyped, NEW x \in Device
  PROVE  /\ pipe = [pipe EXCEPT ![x] = pipe[x]] /\ up = [up EXCEPT ![x] = up[x]]
         /\ down = [down EXCEPT ![x] = down[x]] /\ wrote = [wrote EXCEPT ![x] = wrote[x]]
         /\ got = [got EXCEPT ![x] = got[x]] /\ closed = [closed EXCEPT ![x] = closed[x]]
         /\ pipe[x] \in Pipes /\ up[x] \in Seq(Frame) /\ down[x] \in Seq(Frame)
         /\ wrote[x] \in Nat /\ got[x] \in Nat /\ closed[x] \in {"no", "early", "clean"}
  BY DEF TailTyped

LEMMA Reaching ==
  ASSUME NEW x \in Device, Passage(Peer(x))
  PROVE  /\ pipe[x].ws = "gone" => at[Watched] = "ended"
         /\ pipe[x].life = "gone" => Unparsed(down[x]) /\ (down[x] # << >> => x \in late)
         /\ pipe[x].dropTcp => Unparsed(down[x]) /\ (down[x] # << >> => pipe[x].check)
  <1>1. Peer(Peer(x)) = x
    BY TwoDevices
  <1> QED  BY <1>1 DEF Passage

\* An event that makes q of x's Pipe p, v of the frames sent to it, w, g and c of what
\* its application wrote, was given and how it closed.
Event(x, p, q, v, w, g, c) ==
  /\ p = pipe[x] /\ Become(x, q) /\ down' = [down EXCEPT ![x] = v]
  /\ wrote' = [wrote EXCEPT ![x] = w] /\ got' = [got EXCEPT ![x] = g]
  /\ closed' = [closed EXCEPT ![x] = c] /\ late \subseteq late' /\ Rest

\* No chunk is lost in it, of those on their way to the relay and to the application.
SendsAll(x, p, q, w) == w + Sends(p) = wrote[x] + Sends(q)
TakesAll(x, p, q, v, g) == Takes(q) + Data(v) + g = Takes(p) + Data(down[x]) + got[x]

\* What the event must keep for the invariant to hold after it.
Sound(x, p, q, v, w, g, c) ==
  /\ p.life = "on" /\ q \in Pipes /\ Shape(q) /\ (q.life = "on" \/ Gone(q))
  /\ q.life = "on" /\ Ended(p) => Ended(q) /\ q.wsq = p.wsq
  /\ v \in Seq(Frame) /\ w \in Nat /\ g \in Nat /\ c \in {"no", "early", "clean"}
  /\ c # "no" => q.tcp = "gone"
  /\ q.life = "on" /\ q.tcp = "gone" => c # "no"
  /\ closed[x] # "no" => c = closed[x]
  /\ p.tcp = "refused" => q.tcp = "refused"
  /\ InOrder(v) /\ ToSet(v) \subseteq ToSet(down[x])
  /\ c # "early" /\ q.tcp # "refused" /\ at[Watched] # "ended" /\ ~p.dropTcp => SendsAll(x, p, q, w)
  /\ c = "no" /\ q.tcp # "refused" /\ Passage(Peer(x)) =>
       /\ TakesAll(x, p, q, v, g)
       /\ q.ws = "gone" => at[Watched] = "ended"
       /\ q.life = "gone" => Unparsed(v) /\ (v # << >> => x \in late')
       /\ q.dropTcp => Unparsed(v) /\ (v # << >> => q.check)

LEMMA Becomes ==
  ASSUME TailInv, NEW x \in Device, NEW p, NEW q, NEW v, NEW w, NEW g, NEW c,
         Event(x, p, q, v, w, g, c), Sound(x, p, q, v, w, g, c)
  PROVE  TailInv'
  <1>0. /\ p = pipe[x] /\ Become(x, q) /\ down' = [down EXCEPT ![x] = v]
        /\ wrote' = [wrote EXCEPT ![x] = w] /\ got' = [got EXCEPT ![x] = g]
        /\ closed' = [closed EXCEPT ![x] = c] /\ late \subseteq late' /\ Rest
    BY DEF Event
  <1> USE DEF Sound
  <1>1. TailTyped /\ Uplink(x)
    BY DEF TailInv
  <1>2. PICK s, u : s = up[x] /\ u = IF q.life = "gone" /\ p.ws \in {"opening", "on"} THEN Append(s, "close") ELSE s
    OBVIOUS
  <1>3. s \in Seq(Frame) /\ "close" \in Frame /\ "close" \notin ToSet(s) /\ InOrder(s) /\ "paired" \notin ToSet(s)
    BY <1>0, <1>1, <1>2 DEF TailTyped, Uplink, Frame
  <1>4. /\ u \in Seq(Frame) /\ InOrder(u) /\ "paired" \notin ToSet(u) /\ Data(u) = Data(s)
        /\ ToSet(u) \subseteq ToSet(s) \cup {"close"} /\ ("close" \in ToSet(u) => q.life = "gone")
    <2>1. CASE q.life = "gone" /\ p.ws \in {"opening", "on"}
      <3>1. u = Append(s, "close")
        BY <1>2, <2>1
      <3>2. u \in Seq(Frame) /\ ToSet(u) = ToSet(s) \cup {"close"}
        BY <1>3, <3>1, Appended
      <3>3. Data(u) = Data(s)
        BY <1>3, <3>1, Appended
      <3>4. InOrder(u)
        BY <1>3, <3>1, Appended
      <3> QED  BY <1>3, <2>1, <3>2, <3>3, <3>4
    <2>2. CASE ~(q.life = "gone" /\ p.ws \in {"opening", "on"})
      <3>1. u = s
        BY <1>2, <2>2
      <3> QED  BY <1>3, <3>1
    <2> QED  BY <2>1, <2>2
  <1>5. up' = [up EXCEPT ![x] = u] /\ pipe' = [pipe EXCEPT ![x] = q]
    <2>1. CASE q.life = "gone" /\ p.ws \in {"opening", "on"}
      BY <1>0, <1>2, <2>1 DEF Become
    <2>2. CASE ~(q.life = "gone" /\ p.ws \in {"opening", "on"})
      BY <1>0, <1>1, <1>2, <2>2, Unmoved DEF Become
    <2> QED  BY <2>1, <2>2
  <1>6. UNCHANGED <<at, waiting, hold, eof>>
    BY <1>0 DEF Rest, pairing
  <1>7. "eof" \in ToSet(u) \/ x \in eof => q.wsq = << >> /\ (Ended(q) \/ q.life = "gone")
    <2> SUFFICES ASSUME "eof" \in ToSet(u) \/ x \in eof PROVE q.wsq = << >> /\ (Ended(q) \/ q.life = "gone")
      OBVIOUS
    <2>1. "eof" \in ToSet(s) \/ x \in eof
      BY <1>4
    <2>2. p.wsq = << >> /\ Ended(p)
      BY <1>0, <1>1, <1>2, <2>1 DEF Uplink
    <2> QED  BY <2>2 DEF Gone
  <1>8. x \in eof => ToSet(u) \subseteq {"close"}
    BY <1>1, <1>2, <1>4 DEF Uplink
  <1>9. c # "early" /\ q.tcp # "refused" /\ at[Watched] # "ended" /\ ~p.dropTcp =>
          w + Sends(p) + Data(up[x]) = wrote[x] + Sends(q) + Data(u)
    BY <1>2, <1>4 DEF SendsAll
  <1>13. c = "no" /\ q.tcp # "refused" /\ Passage(Peer(x)) =>
           /\ Takes(q) + Data(v) + g = Takes(p) + Data(down[x]) + got[x]
           /\ q.ws = "gone" => at[Watched] = "ended"
           /\ q.life = "gone" => Unparsed(v) /\ (v # << >> => x \in late')
           /\ q.dropTcp => Unparsed(v) /\ (v # << >> => q.check)
    BY DEF TakesAll
  <1>10. q.life # "none"
    BY DEF Gone
  <1>11. "close" \in ToSet(u) => q.life = "gone"
    BY <1>4
  <1>12. u \in Seq(Frame) /\ InOrder(u) /\ "paired" \notin ToSet(u)
    BY <1>4
  <1>14. /\ pipe[x].life = "on" /\ q \in Pipes /\ Shape(q) /\ v \in Seq(Frame) /\ w \in Nat /\ g \in Nat
         /\ c \in {"no", "early", "clean"} /\ (c # "no" => q.tcp = "gone") /\ (closed[x] # "no" => c = closed[x])
         /\ (q.life = "on" /\ q.tcp = "gone" => c # "no") /\ (pipe[x].tcp = "refused" => q.tcp = "refused")
         /\ InOrder(v) /\ ToSet(v) \subseteq ToSet(down[x])
    BY <1>0
  <1> HIDE DEF Sound
  <1>15. Changes(x, q, u, v, w, g, c)
    BY <1>0, <1>5, <1>6 DEF Changes
  <1>16. Conserves(x, q, u, v, w, g, c)
    BY <1>0, <1>7, <1>8, <1>9, <1>10, <1>11, <1>12, <1>13, <1>14 DEF Conserves
  <1> QED  BY <1>15, <1>16, PipeStep
-----------------------------------------------------------------------------
(* The Pipe's events                                                       *)

\* What every event finds.
LEMMA AtPipe ==
  ASSUME TailInv, NEW x \in Device
  PROVE  /\ TailTyped /\ pipe[x] \in Pipes /\ Shape(pipe[x]) /\ Closing(x) /\ Uplink(x) /\ Downlink(x)
         /\ down[x] \in Seq(Frame) /\ InOrder(down[x]) /\ wrote[x] \in Nat /\ got[x] \in Nat
         /\ closed[x] \in {"no", "early", "clean"}
         /\ Sends(pipe[x]) \in Int /\ Takes(pipe[x]) \in Int /\ Data(down[x]) \in Int
  <1>1. TailTyped /\ Closing(x) /\ Uplink(x) /\ Downlink(x)
    BY DEF TailInv
  <1>2. Shape(pipe[x]) /\ InOrder(down[x])
    BY <1>1 DEF Closing, Downlink
  <1> QED  BY <1>1, <1>2, Unmoved, NumbersOf

\* A chunk more in one place of a Pipe.
LEMMA OneMore ==
  ASSUME NEW p \in Pipes, Shape(p), p.life = "on", NEW a
  PROVE  /\ a = [p EXCEPT !.in = @ + 1] /\ p.tcp = "on" =>
              /\ a \in Pipes /\ Shape(a) /\ ~Ended(a) /\ Sends(a) = Sends(p) + 1 /\ Takes(a) = Takes(p)
              /\ a.life = "on" /\ a.tcp = "on" /\ a.ws = p.ws /\ a.dropTcp = p.dropTcp /\ a.check = p.check
         /\ a = [p EXCEPT !.pend = @ + 1] =>
              /\ a \in Pipes /\ Shape(a) /\ Sends(a) = Sends(p) /\ Takes(a) = Takes(p) + 1
              /\ a.life = "on" /\ a.tcp = p.tcp /\ a.ws = p.ws /\ a.dropTcp = p.dropTcp /\ a.check = p.check
              /\ a.wsq = p.wsq /\ (Ended(a) <=> Ended(p))
         /\ a = [p EXCEPT !.tcpq = @ - 1] /\ p.tcpq > 0 =>
              /\ a \in Pipes /\ Shape(a) /\ Sends(a) = Sends(p) /\ Takes(a) = Takes(p) - 1
              /\ a.life = "on" /\ a.tcp = p.tcp /\ a.ws = p.ws /\ a.dropTcp = p.dropTcp /\ a.check = p.check
              /\ a.wsq = p.wsq /\ (Ended(a) <=> Ended(p))
  <1>1. /\ p.in \in Nat /\ p.toWs \in Nat /\ p.pend \in Nat /\ p.tcpq \in 0 .. HighWater /\ p.tcpq \in Nat
        /\ HighWater \in Nat /\ Data(p.wsq) \in Int
    BY PipeFields
  <1>2. Len(p.wsq) <= HighWater /\ InOrder(p.wsq) /\ (Ended(p) => p.in = 0 /\ p.toWs = 0 /\ Left(p))
    BY DEF Shape
  <1>3. ASSUME a = [p EXCEPT !.in = p.in + 1], p.tcp = "on"
        PROVE  /\ a \in Pipes /\ Shape(a) /\ ~Ended(a) /\ Sends(a) = Sends(p) + 1 /\ Takes(a) = Takes(p)
               /\ a.life = "on" /\ a.tcp = "on" /\ a.ws = p.ws /\ a.dropTcp = p.dropTcp /\ a.check = p.check
    <2>1. a \in Pipes
      BY <1>1, <1>3 DEF Pipes
    <2>2. /\ a.in = p.in + 1 /\ a.toWs = p.toWs /\ a.wsq = p.wsq /\ a.pend = p.pend /\ a.tcpq = p.tcpq
          /\ a.life = p.life /\ a.tcp = p.tcp /\ a.ws = p.ws /\ a.done = p.done /\ a.dropTcp = p.dropTcp
          /\ a.check = p.check /\ a.sendEnd = p.sendEnd /\ a.waitEnd = p.waitEnd /\ a.timer = p.timer
      BY <1>3 DEF Pipes
    <2>3. ~Ended(p)
      BY <1>2, <1>3 DEF Left
    <2>4. Shape(a) /\ ~Ended(a)
      BY <1>2, <2>1, <2>2, <2>3, Reshaped
    <2>5. Sends(a) = Sends(p) + 1
      <3>1. PICK e : e = Data(p.wsq)
        OBVIOUS
      <3>2. Sends(a) = (p.in + 1) + p.toWs + e /\ Sends(p) = p.in + p.toWs + e
        BY <2>2, <3>1 DEF Sends
      <3> QED  BY <1>1, <3>1, <3>2
    <2> QED  BY <1>3, <2>1, <2>2, <2>4, <2>5 DEF Takes
  <1>4. ASSUME a = [p EXCEPT !.pend = p.pend + 1]
        PROVE  /\ a \in Pipes /\ Shape(a) /\ Sends(a) = Sends(p) /\ Takes(a) = Takes(p) + 1
               /\ a.life = "on" /\ a.tcp = p.tcp /\ a.ws = p.ws /\ a.dropTcp = p.dropTcp /\ a.check = p.check
               /\ a.wsq = p.wsq /\ (Ended(a) <=> Ended(p))
    <2>0. p.pend + 1 \in Nat
      BY <1>1
    <2>1. a \in Pipes
      BY <1>4, <2>0 DEF Pipes
    <2>2. /\ a.in = p.in /\ a.toWs = p.toWs /\ a.wsq = p.wsq /\ a.pend = p.pend + 1 /\ a.tcpq = p.tcpq
          /\ a.life = p.life /\ a.tcp = p.tcp /\ a.ws = p.ws /\ a.done = p.done /\ a.dropTcp = p.dropTcp
          /\ a.check = p.check /\ a.sendEnd = p.sendEnd /\ a.waitEnd = p.waitEnd /\ a.timer = p.timer
      BY <1>4 DEF Pipes
    <2>3. Shape(a) /\ (Ended(a) <=> Ended(p))
      BY <1>2, <2>1, <2>2, Reshaped
    <2>4. Takes(a) = Takes(p) + 1
      BY <1>1, <2>2 DEF Takes
    <2> QED  BY <2>1, <2>2, <2>3, <2>4 DEF Sends
  <1>5. ASSUME a = [p EXCEPT !.tcpq = p.tcpq - 1], p.tcpq > 0
        PROVE  /\ a \in Pipes /\ Shape(a) /\ Sends(a) = Sends(p) /\ Takes(a) = Takes(p) - 1
               /\ a.life = "on" /\ a.tcp = p.tcp /\ a.ws = p.ws /\ a.dropTcp = p.dropTcp /\ a.check = p.check
               /\ a.wsq = p.wsq /\ (Ended(a) <=> Ended(p))
    <2>1. p.tcpq - 1 \in 0 .. HighWater
      BY <1>1, <1>5
    <2>2. a \in Pipes
      BY <1>5, <2>1 DEF Pipes
    <2>3. /\ a.in = p.in /\ a.toWs = p.toWs /\ a.wsq = p.wsq /\ a.pend = p.pend /\ a.tcpq = p.tcpq - 1
          /\ a.life = p.life /\ a.tcp = p.tcp /\ a.ws = p.ws /\ a.done = p.done /\ a.dropTcp = p.dropTcp
          /\ a.check = p.check /\ a.sendEnd = p.sendEnd /\ a.waitEnd = p.waitEnd /\ a.timer = p.timer
      BY <1>5 DEF Pipes
    <2>4. Shape(a) /\ (Ended(a) <=> Ended(p))
      BY <1>2, <2>2, <2>3, Reshaped
    <2>5. Takes(a) = Takes(p) - 1
      BY <1>1, <2>3 DEF Takes
    <2> QED  BY <2>2, <2>3, <2>4, <2>5 DEF Sends
  <1> QED  BY <1>3, <1>4, <1>5

LEMMA AppWritesKeeps ==
  ASSUME TailInv, NEW x \in Device, AppWrites(x)
  PROVE  TailInv'
  <1>1. PICK p, a, q : p = pipe[x] /\ a = [p EXCEPT !.in = @ + 1] /\ q = ToWs(a)
    OBVIOUS
  <1>2. /\ p.life = "on" /\ p.tcp = "on" /\ wrote' = [wrote EXCEPT ![x] = wrote[x] + 1]
        /\ Become(x, q) /\ Rest /\ down' = down /\ got' = got /\ late' = late /\ closed' = closed
    BY <1>1 DEF AppWrites
  <1>3. TailTyped /\ p \in Pipes /\ Shape(p) /\ Closing(x) /\ wrote[x] \in Nat /\ InOrder(down[x])
    BY <1>1, AtPipe
  <1>4. /\ a \in Pipes /\ Shape(a) /\ ~Ended(a) /\ Sends(a) = Sends(p) + 1 /\ Takes(a) = Takes(p)
        /\ a.life = "on" /\ a.tcp = "on" /\ a.ws = p.ws /\ a.dropTcp = p.dropTcp /\ a.check = p.check
    BY <1>1, <1>2, <1>3, OneMore
  <1>5. Sending(q, a)
    BY <1>1, <1>4, ToWsKeeps
  <1>6. /\ q \in Pipes /\ Shape(q) /\ q.life = "on" /\ Sends(q) = Sends(p) + 1 /\ Takes(q) = Takes(p)
        /\ q.tcp = "on" /\ q.ws = p.ws /\ q.dropTcp = p.dropTcp /\ q.check = p.check
    BY <1>4, <1>5 DEF Sending, Takes
  <1>7. closed[x] = "no" /\ ~Ended(p)
    BY <1>1, <1>2, <1>3 DEF Closing, Shape, Left
  <1>8. PICK w : w = wrote[x] + 1
    OBVIOUS
  <1>9. w \in Nat /\ SendsAll(x, p, q, w)
    <2>1. Sends(p) \in Int
      BY <1>3, PipeFields
    <2>2. w \in Nat /\ w + Sends(p) = wrote[x] + Sends(q)
      BY <1>3, <1>6, <1>8, <2>1
    <2> QED  BY <2>2 DEF SendsAll
  <1>10. /\ down' = [down EXCEPT ![x] = down[x]] /\ got' = [got EXCEPT ![x] = got[x]]
         /\ closed' = [closed EXCEPT ![x] = closed[x]] /\ down[x] \in Seq(Frame) /\ got[x] \in Nat
    BY <1>2, <1>3, Unmoved
  <1>11. Passage(Peer(x)) =>
           /\ TakesAll(x, p, q, down[x], got[x])
           /\ q.ws = "gone" => at[Watched] = "ended"
           /\ q.life = "gone" => Unparsed(down[x]) /\ (down[x] # << >> => x \in late')
           /\ q.dropTcp => Unparsed(down[x]) /\ (down[x] # << >> => q.check)
    BY <1>1, <1>6, Reaching DEF TakesAll
  <1>12. wrote' = [wrote EXCEPT ![x] = w] /\ ToSet(down[x]) \subseteq ToSet(down[x])
    BY <1>2, <1>8
  <1>13. Event(x, p, q, down[x], w, got[x], closed[x])
    BY <1>1, <1>2, <1>10, <1>12 DEF Event
  <1>14. /\ q.life = "on" /\ Ended(p) => Ended(q) /\ q.wsq = p.wsq
         /\ closed[x] # "no" => q.tcp = "gone"
         /\ q.life = "on" /\ q.tcp = "gone" => closed[x] # "no"
         /\ p.tcp = "refused" => q.tcp = "refused"
    BY <1>2, <1>6, <1>7
  <1>15. closed[x] \in {"no", "early", "clean"}
    BY <1>7
  <1>20. Sound(x, p, q, down[x], w, got[x], closed[x])
    BY <1>2, <1>3, <1>6, <1>9, <1>10, <1>11, <1>12, <1>14, <1>15 DEF Sound
  <1> QED  BY <1>13, <1>20, Becomes

LEMMA AppClosesKeeps ==
  ASSUME TailInv, NEW x \in Device, AppCloses(x)
  PROVE  TailInv'
  <1>1. PICK p, q, c : p = pipe[x] /\ q = TcpFinished(p, "gone") /\ c = IF p.ws = "opening" THEN "early" ELSE "clean"
    OBVIOUS
  <1>2. /\ p.life = "on" /\ p.tcp = "on" /\ closed' = [closed EXCEPT ![x] = c]
        /\ Become(x, q) /\ Rest /\ down' = down /\ got' = got /\ late' = late /\ wrote' = wrote
    BY <1>1 DEF AppCloses
  <1>3. TailTyped /\ p \in Pipes /\ Shape(p) /\ Closing(x) /\ wrote[x] \in Nat /\ InOrder(down[x])
    BY <1>1, AtPipe
  <1>4. /\ q.tcp = "gone" /\ ~Ended(p)
        /\ \/ (p.done \/ p.ws # "on") /\ Gone(q)
           \/ /\ p.ws = "on" /\ q \in Pipes /\ Shape(q) /\ q.life = "on" /\ q.ws = "on"
              /\ Sends(q) = Sends(p) /\ ~q.dropTcp
    BY <1>1, <1>2, <1>3, TcpFinishedKeeps
  <1>5. q \in Pipes /\ Shape(q) /\ (q.life = "on" \/ Gone(q))
    BY <1>4 DEF Gone
  <1>6. closed[x] = "no"
    BY <1>1, <1>2, <1>3 DEF Closing
  <1>7. c # "early" /\ ~p.dropTcp => SendsAll(x, p, q, wrote[x])
    <2> SUFFICES ASSUME p.ws # "opening", ~p.dropTcp PROVE Sends(q) = Sends(p)
      BY <1>1 DEF SendsAll
    <2>1. p.ws = "on"
      BY <1>2, <1>3, PipeFields DEF Shape
    <2>2. ~p.done
      BY <1>2, <1>3 DEF Shape, Left
    <2> QED  BY <1>4, <2>1, <2>2
  <1>8. /\ down' = [down EXCEPT ![x] = down[x]] /\ got' = [got EXCEPT ![x] = got[x]]
        /\ wrote' = [wrote EXCEPT ![x] = wrote[x]] /\ down[x] \in Seq(Frame) /\ got[x] \in Nat
    BY <1>2, <1>3, Unmoved
  <1>9. c \in {"no", "early", "clean"} /\ c # "no" /\ ToSet(down[x]) \subseteq ToSet(down[x])
    BY <1>1
  <1>10. Event(x, p, q, down[x], wrote[x], got[x], c)
    BY <1>1, <1>2, <1>8 DEF Event
  <1>20. Sound(x, p, q, down[x], wrote[x], got[x], c)
    BY <1>1, <1>2, <1>3, <1>4, <1>5, <1>6, <1>7, <1>8, <1>9 DEF Sound
  <1> QED  BY <1>10, <1>20, Becomes

LEMMA TcpConnectsKeeps ==
  ASSUME TailInv, NEW x \in Device, TcpConnects(x)
  PROVE  TailInv'
  <1>1. PICK p : p = pipe[x]
    OBVIOUS
  <1>2. /\ p.life = "on" /\ p.tcp = "opening" /\ Rest /\ down' = down /\ wrote' = wrote /\ got' = got /\ late' = late /\ closed' = closed
        /\ Become(x, ToTcp([p EXCEPT !.tcp = "on"])) \/ Become(x, TcpFinished(p, "refused"))
    BY <1>1 DEF TcpConnects
  <1>3. TailTyped /\ p \in Pipes /\ Shape(p) /\ Closing(x) /\ InOrder(down[x]) /\ wrote[x] \in Nat
    BY <1>1, AtPipe
  <1>4. ~Ended(p) /\ ~p.dropTcp /\ ~p.done /\ ~p.sendEnd /\ ~p.check /\ p.ws # "gone" /\ p.ws # "none"
    BY <1>2, <1>3 DEF Shape, Left
  <1>5. closed[x] = "no"
    BY <1>1, <1>2, <1>3 DEF Closing
  <1>6. /\ down' = [down EXCEPT ![x] = down[x]] /\ got' = [got EXCEPT ![x] = got[x]]
        /\ wrote' = [wrote EXCEPT ![x] = wrote[x]] /\ closed' = [closed EXCEPT ![x] = closed[x]]
        /\ down[x] \in Seq(Frame) /\ got[x] \in Nat
    BY <1>2, <1>3, Unmoved
  <1>7. closed[x] \in {"no", "early", "clean"} /\ ToSet(down[x]) \subseteq ToSet(down[x])
    BY <1>5
  <1>8. ASSUME NEW q, q = ToTcp([p EXCEPT !.tcp = "on"]), Become(x, q) PROVE TailInv'
    <2>1. PICK a : a = [p EXCEPT !.tcp = "on"]
      OBVIOUS
    <2>2. a \in Pipes
      BY <1>3, <2>1 DEF Pipes
    <2>3. /\ a.in = p.in /\ a.toWs = p.toWs /\ a.wsq = p.wsq /\ a.pend = p.pend /\ a.tcpq = p.tcpq
          /\ a.life = p.life /\ a.tcp = "on" /\ a.ws = p.ws /\ a.done = p.done /\ a.dropTcp = p.dropTcp
          /\ a.check = p.check /\ a.sendEnd = p.sendEnd /\ a.waitEnd = p.waitEnd /\ a.timer = p.timer
      BY <1>3, <2>1 DEF Pipes
    <2>4. ~a.done /\ ~a.sendEnd /\ ~a.dropTcp /\ ~a.check /\ ~Ended(a) /\ ~Left(a) /\ ~a.timer /\ ~a.waitEnd
      BY <1>4, <2>3 DEF Left, Ended
    <2>5. Shape(a)
      <3>1. Len(a.wsq) <= HighWater /\ InOrder(a.wsq) /\ "eof" \notin ToSet(a.wsq)
        BY <1>3, <1>4, <2>3 DEF Shape, Ended
      <3> QED  BY <1>2, <1>4, <2>3, <2>4, <3>1 DEF Shape
    <2>6. Receiving(q, a)
      BY <1>2, <1>8, <2>1, <2>2, <2>3, <2>5, ToTcpKeeps
    <2>7. q \in Pipes /\ Shape(q) /\ q.life = "on" /\ q.tcp = "on" /\ q.ws = p.ws /\ ~q.dropTcp
      BY <1>2, <2>3, <2>4, <2>6 DEF Receiving
    <2>8. SendsAll(x, p, q, wrote[x])
      BY <2>3, <2>6 DEF Receiving, SendsAll, Sends
    <2>9. TakesAll(x, p, q, down[x], got[x])
      <3>1. Takes(q) = Takes(p)
        BY <2>3, <2>6 DEF Receiving, Takes
      <3> QED  BY <3>1 DEF TakesAll
    <2>10. Passage(Peer(x)) =>
             /\ TakesAll(x, p, q, down[x], got[x])
             /\ q.ws = "gone" => at[Watched] = "ended"
             /\ q.life = "gone" => Unparsed(down[x]) /\ (down[x] # << >> => x \in late')
             /\ q.dropTcp => Unparsed(down[x]) /\ (down[x] # << >> => q.check)
      BY <1>4, <2>7, <2>9
    <2>11. Event(x, p, q, down[x], wrote[x], got[x], closed[x])
      BY <1>1, <1>2, <1>6, <1>8 DEF Event
    <2>12. /\ q.life = "on" /\ Ended(p) => Ended(q) /\ q.wsq = p.wsq
           /\ closed[x] # "no" => q.tcp = "gone"
           /\ q.life = "on" /\ q.tcp = "gone" => closed[x] # "no"
           /\ p.tcp = "refused" => q.tcp = "refused"
      BY <1>2, <1>4, <1>5, <2>7
    <2>20. Sound(x, p, q, down[x], wrote[x], got[x], closed[x])
      BY <1>2, <1>3, <1>6, <1>7, <2>7, <2>8, <2>10, <2>12 DEF Sound
    <2> QED  BY <2>11, <2>20, Becomes
  <1>9. ASSUME NEW q, q = TcpFinished(p, "refused"), Become(x, q) PROVE TailInv'
    <2>1. q.tcp = "refused" /\ q \in Pipes /\ Shape(q) /\ (q.life = "on" \/ Gone(q))
      <3>1. /\ q.tcp = "refused"
            /\ \/ Gone(q)
               \/ q \in Pipes /\ Shape(q) /\ q.life = "on"
        BY <1>2, <1>3, <1>9, TcpFinishedKeeps
      <3> QED  BY <3>1 DEF Gone
    <2>2. Event(x, p, q, down[x], wrote[x], got[x], closed[x])
      BY <1>1, <1>2, <1>6, <1>9 DEF Event
    <2>3. /\ q.life = "on" /\ Ended(p) => Ended(q) /\ q.wsq = p.wsq
          /\ closed[x] # "no" => q.tcp = "gone"
          /\ q.life = "on" /\ q.tcp = "gone" => closed[x] # "no"
          /\ p.tcp = "refused" => q.tcp = "refused"
      BY <1>4, <1>5, <2>1
    <2>20. Sound(x, p, q, down[x], wrote[x], got[x], closed[x])
      BY <1>2, <1>3, <1>6, <1>7, <2>1, <2>3 DEF Sound
    <2> QED  BY <2>2, <2>20, Becomes
  <1> QED  BY <1>2, <1>8, <1>9

\* What is left to the application, when its Pipe may go as soon as nothing is.
LEMMA DropKeeps ==
  ASSUME TailInv, NEW x \in Device, NEW p, p = pipe[x], p.life = "on",
         NEW b \in Pipes, Shape(b), b.life = "on", b.tcp = "on", p.tcp = "on",
         b.ws = p.ws, b.dropTcp = p.dropTcp, b.check = p.check \/ down[x] = << >>, Ended(p) => Ended(b) /\ b.wsq = p.wsq,
         NEW q, q = DropIfDrained(b), NEW g \in Nat, Event(x, p, q, down[x], wrote[x], g, closed[x]),
         SendsAll(x, p, b, wrote[x]), TakesAll(x, p, b, down[x], g),
         q.life = "gone" /\ down[x] # << >> => x \in late'
  PROVE  TailInv'
  <1>1. TailTyped /\ Closing(x) /\ InOrder(down[x]) /\ wrote[x] \in Nat /\ down[x] \in Seq(Frame)
    BY AtPipe
  <1>2. closed[x] = "no"
    BY <1>1 DEF Closing
  <1>3. \/ q = b
        \/ b.dropTcp /\ Takes(b) = 0 /\ Gone(q) /\ q.tcp = "gone"
    BY DropIfDrainedKeeps
  <1>4. q \in Pipes /\ Shape(q) /\ (q.life = "on" \/ Gone(q)) /\ q.tcp \in {"on", "gone"} /\ (q.life = "on" => q = b)
    BY <1>3 DEF Gone
  <1>5. /\ q.life = "on" /\ Ended(p) => Ended(q) /\ q.wsq = p.wsq
        /\ closed[x] # "no" => q.tcp = "gone"
        /\ q.life = "on" /\ q.tcp = "gone" => closed[x] # "no"
        /\ p.tcp = "refused" => q.tcp = "refused"
    BY <1>2, <1>4
  <1>6. ~p.dropTcp => SendsAll(x, p, q, wrote[x])
    BY <1>3
  <1>7. Takes(q) = Takes(b)
    BY <1>3 DEF Gone
  <1>8. Passage(Peer(x)) =>
          /\ TakesAll(x, p, q, down[x], g)
          /\ q.ws = "gone" => at[Watched] = "ended"
          /\ q.life = "gone" => Unparsed(down[x]) /\ (down[x] # << >> => x \in late')
          /\ q.dropTcp => Unparsed(down[x]) /\ (down[x] # << >> => q.check)
    <2> SUFFICES ASSUME Passage(Peer(x))
                 PROVE  /\ TakesAll(x, p, q, down[x], g)
                        /\ q.ws = "gone" => at[Watched] = "ended"
                        /\ q.life = "gone" => Unparsed(down[x]) /\ (down[x] # << >> => x \in late')
                        /\ q.dropTcp => Unparsed(down[x]) /\ (down[x] # << >> => q.check)
      OBVIOUS
    <2>1. TakesAll(x, p, q, down[x], g)
      BY <1>7 DEF TakesAll
    <2>2. p.ws = "gone" => at[Watched] = "ended"
      BY Reaching
    <2>3. b.dropTcp => b.ws = "gone"
      BY DEF Shape
    <2>4. b.dropTcp => Unparsed(down[x]) /\ (down[x] # << >> => b.check)
      BY Reaching
    <2>5. q.life = "gone" => Unparsed(down[x]) /\ (down[x] # << >> => x \in late')
      BY <1>3, <2>4
    <2>6. q.dropTcp => Unparsed(down[x]) /\ (down[x] # << >> => q.check)
      BY <1>3, <2>4 DEF Gone
    <2> QED  BY <1>3, <2>1, <2>2, <2>3, <2>5, <2>6 DEF Gone
  <1>9. closed[x] \in {"no", "early", "clean"} /\ ToSet(down[x]) \subseteq ToSet(down[x])
    BY <1>2
  <1>10. /\ closed[x] # "early" /\ q.tcp # "refused" /\ at[Watched] # "ended" /\ ~p.dropTcp => SendsAll(x, p, q, wrote[x])
         /\ closed[x] = "no" /\ q.tcp # "refused" /\ Passage(Peer(x)) =>
              /\ TakesAll(x, p, q, down[x], g)
              /\ q.ws = "gone" => at[Watched] = "ended"
              /\ q.life = "gone" => Unparsed(down[x]) /\ (down[x] # << >> => x \in late')
              /\ q.dropTcp => Unparsed(down[x]) /\ (down[x] # << >> => q.check)
    BY <1>6, <1>8
  <1>11. closed[x] # "no" => closed[x] = closed[x]
    OBVIOUS
  <1>20. Sound(x, p, q, down[x], wrote[x], g, closed[x])
    BY <1>1, <1>4, <1>5, <1>9, <1>10, <1>11 DEF Sound
  <1> QED  BY <1>20, Becomes

LEMMA TcpWrittenKeeps ==
  ASSUME TailInv, NEW x \in Device, TcpWritten(x)
  PROVE  TailInv'
  <1>1. PICK p, a, b, q : p = pipe[x] /\ a = [p EXCEPT !.tcpq = @ - 1] /\ b = ToTcp(a) /\ q = DropIfDrained(b)
    OBVIOUS
  <1>2. /\ p.life = "on" /\ p.tcp = "on" /\ p.tcpq > 0 /\ got' = [got EXCEPT ![x] = got[x] + 1]
        /\ late' = IF q.life = "gone" /\ down[x] # << >> THEN late \cup {x} ELSE late
        /\ Become(x, q) /\ Rest /\ down' = down /\ wrote' = wrote /\ closed' = closed
    BY <1>1 DEF TcpWritten
  <1>3. TailTyped /\ p \in Pipes /\ Shape(p) /\ got[x] \in Nat /\ Data(down[x]) \in Int
    BY <1>1, AtPipe
  <1>4. /\ a \in Pipes /\ Shape(a) /\ Sends(a) = Sends(p) /\ Takes(a) = Takes(p) - 1
        /\ a.life = "on" /\ a.tcp = p.tcp /\ a.ws = p.ws /\ a.dropTcp = p.dropTcp /\ a.check = p.check
        /\ a.wsq = p.wsq /\ (Ended(a) <=> Ended(p))
    BY <1>1, <1>2, <1>3, OneMore
  <1>5. Receiving(b, a)
    BY <1>1, <1>4, ToTcpKeeps
  <1>6. /\ b \in Pipes /\ Shape(b) /\ b.life = "on" /\ b.tcp = "on" /\ b.ws = p.ws /\ b.dropTcp = p.dropTcp
        /\ Ended(p) => Ended(b) /\ b.wsq = p.wsq
    BY <1>2, <1>4, <1>5 DEF Receiving, Ended
  <1>7. PICK g : g = got[x] + 1
    OBVIOUS
  <1>8. g \in Nat /\ TakesAll(x, p, b, down[x], g)
    <2>1. Takes(p) \in Int
      BY <1>3, PipeFields
    <2>2. Takes(b) = Takes(p) - 1
      BY <1>4, <1>5 DEF Receiving
    <2>3. g \in Nat /\ Takes(b) + Data(down[x]) + g = Takes(p) + Data(down[x]) + got[x]
      BY <1>3, <1>7, <2>1, <2>2
    <2> QED  BY <2>3 DEF TakesAll
  <1>9. SendsAll(x, p, b, wrote[x])
    <2>1. Sends(b) = Sends(a)
      BY <1>5 DEF Receiving, Sends
    <2> QED  BY <1>4, <2>1 DEF SendsAll
  <1>10. late \subseteq late' /\ (q.life = "gone" /\ down[x] # << >> => x \in late') /\ b.check = p.check
    BY <1>2, <1>4, <1>5 DEF Receiving
  <1>11. Event(x, p, q, down[x], wrote[x], g, closed[x])
    BY <1>1, <1>2, <1>3, <1>7, <1>10, Unmoved DEF Event
  <1> QED  BY <1>1, <1>2, <1>6, <1>8, <1>9, <1>10, <1>11, DropKeeps

LEMMA TailCheckedKeeps ==
  ASSUME TailInv, NEW x \in Device, TailChecked(x)
  PROVE  TailInv'
  <1>1. PICK p, a, b, q : p = pipe[x] /\ a = [p EXCEPT !.check = FALSE] /\ b = ToTcp(a) /\ q = DropIfDrained(b)
    OBVIOUS
  <1>2. /\ p.life = "on" /\ p.check /\ down[x] = << >>
        /\ Become(x, q) /\ Rest /\ down' = down /\ wrote' = wrote /\ got' = got /\ late' = late /\ closed' = closed
    BY <1>1 DEF TailChecked
  <1>3. TailTyped /\ p \in Pipes /\ Shape(p) /\ got[x] \in Nat
    BY <1>1, AtPipe
  <1>4. a \in Pipes
    BY <1>1, <1>3 DEF Pipes
  <1>5. /\ a.in = p.in /\ a.toWs = p.toWs /\ a.wsq = p.wsq /\ a.pend = p.pend /\ a.tcpq = p.tcpq
        /\ a.life = p.life /\ a.tcp = p.tcp /\ a.ws = p.ws /\ a.done = p.done /\ a.dropTcp = p.dropTcp
        /\ a.check = FALSE /\ a.sendEnd = p.sendEnd /\ a.waitEnd = p.waitEnd /\ a.timer = p.timer
    BY <1>1, <1>3 DEF Pipes
  <1>6. p.dropTcp /\ p.tcp = "on" /\ p.ws = "gone" /\ p.done /\ ~Left(p) /\ ~Ended(p) /\ ~p.sendEnd
    BY <1>2, <1>3 DEF Shape, Left
  <1>7. Shape(a)
    <2>1. ~Left(a) /\ ~Ended(a) /\ ~a.check /\ ~a.sendEnd /\ ~a.timer
      BY <1>5, <1>6 DEF Left, Ended
    <2>2. Len(a.wsq) <= HighWater /\ InOrder(a.wsq) /\ "eof" \notin ToSet(a.wsq)
      BY <1>3, <1>5, <1>6 DEF Shape, Ended
    <2> QED  BY <1>2, <1>5, <1>6, <2>1, <2>2 DEF Shape
  <1>8. Receiving(b, a)
    BY <1>1, <1>2, <1>4, <1>5, <1>7, ToTcpKeeps
  <1>9. /\ b \in Pipes /\ Shape(b) /\ b.life = "on" /\ b.tcp = "on" /\ b.ws = p.ws /\ b.dropTcp = p.dropTcp
        /\ Ended(p) => Ended(b) /\ b.wsq = p.wsq
    BY <1>2, <1>5, <1>6, <1>8 DEF Receiving
  <1>10. SendsAll(x, p, b, wrote[x])
    <2>1. Sends(b) = Sends(p)
      BY <1>5, <1>8 DEF Receiving, Sends
    <2> QED  BY <2>1 DEF SendsAll
  <1>11. TakesAll(x, p, b, down[x], got[x])
    <2>1. Takes(b) = Takes(p)
      BY <1>5, <1>8 DEF Receiving, Takes
    <2> QED  BY <2>1 DEF TakesAll
  <1>12. Event(x, p, q, down[x], wrote[x], got[x], closed[x])
    BY <1>1, <1>2, <1>3, Unmoved DEF Event
  <1> QED  BY <1>1, <1>2, <1>3, <1>6, <1>9, <1>10, <1>11, <1>12, DropKeeps

LEMMA WsConnectsKeeps ==
  ASSUME TailInv, WsConnects
  PROVE  TailInv'
  <1>1. PICK x, p, a, q : x = "near" /\ p = pipe[x] /\ a = [p EXCEPT !.ws = "on"] /\ q = Progress(a)
    OBVIOUS
  <1>2. /\ x \in Device /\ p.life = "on" /\ p.ws = "opening"
        /\ Become(x, q) /\ Rest /\ down' = down /\ wrote' = wrote /\ got' = got /\ late' = late /\ closed' = closed
    BY <1>1, TwoDevices DEF WsConnects
  <1>3. TailTyped /\ p \in Pipes /\ Shape(p) /\ Closing(x) /\ InOrder(down[x]) /\ wrote[x] \in Nat
    BY <1>1, <1>2, AtPipe
  <1>4. ~Left(p) /\ ~Ended(p) /\ ~p.sendEnd /\ ~p.dropTcp /\ ~p.check /\ ~p.done
    BY <1>2, <1>3 DEF Shape
  <1>5. a \in Pipes
    BY <1>1, <1>3 DEF Pipes
  <1>6. /\ a.in = p.in /\ a.toWs = p.toWs /\ a.wsq = p.wsq /\ a.pend = p.pend /\ a.tcpq = p.tcpq
        /\ a.life = p.life /\ a.tcp = p.tcp /\ a.ws = "on" /\ a.done = p.done /\ a.dropTcp = p.dropTcp
        /\ a.check = p.check /\ a.sendEnd = p.sendEnd /\ a.waitEnd = p.waitEnd /\ a.timer = p.timer
    BY <1>1, <1>3 DEF Pipes
  <1>7. Shape(a)
    <2>1. ~Left(a) /\ ~Ended(a) /\ ~a.timer /\ ~a.sendEnd /\ ~a.dropTcp /\ ~a.check /\ ~a.done
      BY <1>4, <1>6 DEF Left, Ended
    <2>2. Len(a.wsq) <= HighWater /\ InOrder(a.wsq) /\ "eof" \notin ToSet(a.wsq)
      BY <1>3, <1>4, <1>6 DEF Shape, Ended
    <2>3. a.tcp # "none" /\ a.life = "on"
      BY <1>2, <1>3, <1>6 DEF Shape
    <2> QED  BY <1>6, <2>1, <2>2, <2>3 DEF Shape
  <1>8. Sending(q, a)
    BY <1>1, <1>2, <1>5, <1>6, <1>7, ProgressKeeps
  <1>9. /\ q \in Pipes /\ Shape(q) /\ q.life = "on" /\ q.tcp = p.tcp /\ q.ws = "on" /\ ~q.dropTcp
    BY <1>2, <1>4, <1>6, <1>8 DEF Sending
  <1>10. SendsAll(x, p, q, wrote[x])
    <2>1. Sends(q) = Sends(p)
      BY <1>6, <1>8 DEF Sending, Sends
    <2> QED  BY <2>1 DEF SendsAll
  <1>11. TakesAll(x, p, q, down[x], got[x])
    <2>1. Takes(q) = Takes(p)
      BY <1>6, <1>8 DEF Sending, Takes
    <2> QED  BY <2>1 DEF TakesAll
  <1>12. closed[x] = "no" /\ p.tcp # "gone"
    BY <1>1, <1>3, <1>4 DEF Closing, Left
  <1>13. Event(x, p, q, down[x], wrote[x], got[x], closed[x]) /\ down[x] \in Seq(Frame) /\ got[x] \in Nat
    BY <1>1, <1>2, <1>3, Unmoved DEF Event
  <1>14. Sound(x, p, q, down[x], wrote[x], got[x], closed[x])
    BY <1>2, <1>3, <1>4, <1>9, <1>10, <1>11, <1>12, <1>13 DEF Sound
  <1> QED  BY <1>2, <1>13, <1>14, Becomes

LEMMA WsReceivesKeeps ==
  ASSUME TailInv, NEW x \in Device, WsReceives(x)
  PROVE  TailInv'
  <1>1. PICK p, a, q, s, v : p = pipe[x] /\ a = [p EXCEPT !.pend = @ + 1] /\ q = ToTcp(a) /\ s = down[x] /\ v = Tail(s)
    OBVIOUS
  <1>2. /\ p.life = "on" /\ s # << >> /\ Head(s) = "data" /\ down' = [down EXCEPT ![x] = v]
        /\ Become(x, q) /\ Rest /\ wrote' = wrote /\ got' = got /\ late' = late /\ closed' = closed
    BY <1>1 DEF WsReceives
  <1>3. TailTyped /\ p \in Pipes /\ Shape(p) /\ Closing(x) /\ s \in Seq(Frame) /\ InOrder(s) /\ wrote[x] \in Nat
        /\ got[x] \in Nat /\ closed[x] \in {"no", "early", "clean"}
    BY <1>1, AtPipe
  <1>4. v \in Seq(Frame) /\ InOrder(v) /\ ToSet(v) \subseteq ToSet(s)
    <2>1. v \in Seq(Frame) /\ InOrder(v) /\ ToSet(s) = ToSet(v) \cup {Head(s)}
      BY <1>1, <1>2, <1>3, Removed1
    <2> QED  BY <2>1
  <1>5. Data(v) = Data(s) - 1 /\ Data(s) \in Int
    <2>1. One(Head(s) = "data") = 1
      BY <1>2 DEF One
    <2>2. Data(v) = Data(s) - One(Head(s) = "data")
      BY <1>1, <1>2, <1>3, Removed1
    <2> QED  BY <1>3, <2>1, <2>2, FramesOf
  <1>6. /\ a \in Pipes /\ Shape(a) /\ Sends(a) = Sends(p) /\ Takes(a) = Takes(p) + 1
        /\ a.life = "on" /\ a.tcp = p.tcp /\ a.ws = p.ws /\ a.dropTcp = p.dropTcp /\ a.check = p.check
        /\ a.wsq = p.wsq /\ (Ended(a) <=> Ended(p))
    BY <1>1, <1>2, <1>3, OneMore
  <1>7. Receiving(q, a)
    BY <1>1, <1>6, ToTcpKeeps
  <1>8. /\ q \in Pipes /\ Shape(q) /\ q.life = "on" /\ q.tcp = p.tcp /\ q.ws = p.ws /\ q.dropTcp = p.dropTcp
        /\ q.check = p.check /\ q.wsq = p.wsq /\ (Ended(p) => Ended(q))
    BY <1>6, <1>7 DEF Receiving, Ended
  <1>9. SendsAll(x, p, q, wrote[x])
    <2>1. Sends(q) = Sends(p)
      BY <1>6, <1>7 DEF Receiving, Sends
    <2> QED  BY <2>1 DEF SendsAll
  <1>10. TakesAll(x, p, q, v, got[x])
    <2>1. Takes(q) = Takes(p) + 1
      BY <1>6, <1>7 DEF Receiving
    <2>2. Takes(p) \in Int
      BY <1>3, PipeFields
    <2>3. Takes(q) + Data(v) + got[x] = Takes(p) + Data(s) + got[x]
      BY <1>3, <1>5, <2>1, <2>2
    <2> QED  BY <1>1, <2>3 DEF TakesAll
  <1>11. Passage(Peer(x)) =>
           /\ q.ws = "gone" => at[Watched] = "ended"
           /\ q.dropTcp => Unparsed(v) /\ (v # << >> => q.check)
    <2> SUFFICES ASSUME Passage(Peer(x))
                 PROVE  /\ q.ws = "gone" => at[Watched] = "ended"
                        /\ q.dropTcp => Unparsed(v) /\ q.check
      OBVIOUS
    <2>1. (p.ws = "gone" => at[Watched] = "ended") /\ (p.dropTcp => Unparsed(s) /\ p.check)
      BY <1>1, <1>2, Reaching
    <2> QED  BY <1>4, <1>8, <2>1 DEF Unparsed
  <1>12. /\ closed[x] # "no" => q.tcp = "gone"
         /\ q.life = "on" /\ q.tcp = "gone" => closed[x] # "no"
    BY <1>1, <1>2, <1>3, <1>8 DEF Closing
  <1>13. Event(x, p, q, v, wrote[x], got[x], closed[x])
    BY <1>1, <1>2, <1>3, Unmoved DEF Event
  <1>14. Sound(x, p, q, v, wrote[x], got[x], closed[x])
    BY <1>1, <1>2, <1>3, <1>4, <1>8, <1>9, <1>10, <1>11, <1>12 DEF Sound
  <1> QED  BY <1>13, <1>14, Becomes

LEMMA FallbackFiresKeeps ==
  ASSUME TailInv, NEW x \in Device, FallbackFires(x)
  PROVE  TailInv'
  <1>1. PICK p, q : p = pipe[x] /\ q = Deleted(p.tcp)
    OBVIOUS
  <1>2. /\ p.life = "on" /\ p.timer
        /\ Become(x, q) /\ Rest /\ down' = down /\ wrote' = wrote /\ got' = got /\ late' = late /\ closed' = closed
    BY <1>1 DEF FallbackFires
  <1>3. TailTyped /\ p \in Pipes /\ Shape(p) /\ Closing(x) /\ InOrder(down[x]) /\ wrote[x] \in Nat
        /\ closed[x] \in {"no", "early", "clean"}
    BY <1>1, AtPipe
  <1>4. p.tcp \in {"gone", "refused"} /\ p.in = 0 /\ p.toWs = 0 /\ p.wsq = << >>
    BY <1>2, <1>3 DEF Shape, Ended, Left
  <1>5. Gone(q) /\ q.tcp = p.tcp
    BY <1>1, <1>4, DeletedIsGone
  <1>6. SendsAll(x, p, q, wrote[x])
    <2>1. Sends(p) = 0
      BY <1>4, NoFrames DEF Sends
    <2>2. Sends(q) = Sends(p)
      BY <1>5, <2>1 DEF Gone
    <2> QED  BY <2>2 DEF SendsAll
  <1>7. p.tcp = "gone" => closed[x] # "no"
    BY <1>1, <1>2, <1>3 DEF Closing
  <1>8. q.tcp = "refused" \/ closed[x] # "no"
    BY <1>4, <1>5, <1>7
  <1>9. Event(x, p, q, down[x], wrote[x], got[x], closed[x]) /\ down[x] \in Seq(Frame) /\ got[x] \in Nat
    BY <1>1, <1>2, <1>3, Unmoved DEF Event
  <1>10. /\ q \in Pipes /\ Shape(q) /\ q.life = "gone"
         /\ closed[x] # "no" => q.tcp = "gone"
    BY <1>1, <1>3, <1>5 DEF Gone, Closing
  <1>11. Sound(x, p, q, down[x], wrote[x], got[x], closed[x])
    BY <1>2, <1>3, <1>5, <1>6, <1>8, <1>9, <1>10 DEF Sound
  <1> QED  BY <1>9, <1>11, Becomes

LEMMA WsWrittenKeeps ==
  ASSUME TailInv, NEW x \in Device, WsWritten(x)
  PROVE  TailInv'
  <1>1. PICK p, a, q, s, t, f, u :
          /\ p = pipe[x] /\ s = p.wsq /\ t = Tail(s) /\ f = Head(s) /\ a = [p EXCEPT !.wsq = t] /\ q = Progress(a)
          /\ u = Append(up[x], f)
    OBVIOUS
  <1>2. /\ p.life = "on" /\ p.ws = "on" /\ s # << >> /\ pipe' = [pipe EXCEPT ![x] = q] /\ up' = [up EXCEPT ![x] = u]
        /\ Rest /\ down' = down /\ wrote' = wrote /\ got' = got /\ late' = late /\ closed' = closed
    BY <1>1 DEF WsWritten
  <1>3. TailTyped /\ p \in Pipes /\ Shape(p) /\ Closing(x) /\ Uplink(x) /\ InOrder(down[x]) /\ wrote[x] \in Nat /\ got[x] \in Nat
        /\ closed[x] \in {"no", "early", "clean"} /\ down[x] \in Seq(Frame) /\ up[x] \in Seq(Frame) /\ Data(up[x]) \in Int
    BY <1>1, AtPipe, Unmoved, NumbersOf
  <1>4. s \in Seq({"data", "eof"}) /\ s \in Seq(Frame) /\ InOrder(s) /\ Len(s) <= HighWater /\ Len(s) \in Nat /\ Data(s) \in Int
    BY <1>1, <1>3, PipeFields DEF Shape
  <1>5. /\ t \in Seq({"data", "eof"}) /\ Len(t) = Len(s) - 1 /\ f \in {"data", "eof"} /\ InOrder(t)
        /\ ToSet(s) = ToSet(t) \cup {f} /\ Data(t) = Data(s) - One(f = "data")
        /\ f = "eof" => ToSet(t) \subseteq {"close"}
    <2>1. t \in Seq({"data", "eof"}) /\ f \in {"data", "eof"}
      BY <1>1, <1>2, <1>4, HeadTailProperties
    <2> QED  BY <1>1, <1>2, <1>4, <2>1, Removed1
  <1>6. ~p.timer
    BY <1>1, <1>2, <1>3 DEF Shape
  <1>7. f = "eof" => p.waitEnd /\ t = << >>
    <2> SUFFICES ASSUME f = "eof" PROVE p.waitEnd /\ t = << >>
      OBVIOUS
    <2>1. p.waitEnd
      BY <1>1, <1>3, <1>5 DEF Shape
    <2>2. \A e : e \notin ToSet(t)
      BY <1>5, FramesOfPipe
    <2>3. t \in Seq(Frame)
      BY <1>5, FramesOfPipe
    <2> QED  BY <2>1, <2>2, <2>3, NothingIn
  <1>8. a \in Pipes
    BY <1>1, <1>3, <1>5 DEF Pipes
  <1>9. /\ a.in = p.in /\ a.toWs = p.toWs /\ a.wsq = t /\ a.pend = p.pend /\ a.tcpq = p.tcpq
        /\ a.life = p.life /\ a.tcp = p.tcp /\ a.ws = p.ws /\ a.done = p.done /\ a.dropTcp = p.dropTcp
        /\ a.check = p.check /\ a.sendEnd = p.sendEnd /\ a.waitEnd = p.waitEnd /\ a.timer = p.timer
    BY <1>1, <1>3 DEF Pipes
  <1>10. Shape(a) /\ (Ended(a) <=> Ended(p))
    <2>1. (Left(a) <=> Left(p)) /\ (Ended(a) <=> Ended(p)) /\ ~a.timer
      BY <1>6, <1>9 DEF Left, Ended
    <2>2. Len(a.wsq) <= HighWater /\ InOrder(a.wsq) /\ ("eof" \in ToSet(a.wsq) => p.waitEnd)
      BY <1>1, <1>3, <1>4, <1>5, <1>9 DEF Shape
    <2> QED  BY <1>2, <1>3, <1>9, <2>1, <2>2 DEF Shape
  <1>11. Sending(q, a)
    BY <1>1, <1>2, <1>8, <1>9, <1>10, ProgressKeeps
  <1>12. /\ q \in Pipes /\ Shape(q) /\ q.life = "on" /\ q.tcp = p.tcp /\ q.ws = "on" /\ ~q.dropTcp
         /\ Ended(p) => Ended(q) /\ q.wsq = t
    BY <1>2, <1>9, <1>10, <1>11 DEF Sending, Shape
  <1>13. x \notin eof /\ "eof" \notin ToSet(up[x]) /\ "close" \notin ToSet(up[x]) /\ InOrder(up[x]) /\ "paired" \notin ToSet(up[x])
    BY <1>1, <1>2, <1>3 DEF Uplink
  <1>14. f \in Frame
    BY <1>5 DEF Frame
  <1>15. /\ u \in Seq(Frame) /\ ToSet(u) = ToSet(up[x]) \cup {f}
    BY <1>1, <1>3, <1>14, Appended
  <1>16. Data(u) = Data(up[x]) + One(f = "data")
    <2>1. CASE f = "data"
      <3>1. Data(u) = Data(up[x]) + 1
        BY <1>1, <1>3, <1>14, <2>1, Appended
      <3> QED  BY <2>1, <3>1 DEF One
    <2>2. CASE f = "eof"
      <3>1. Data(u) = Data(up[x])
        <4>1. f # "data" /\ f \notin ToSet(up[x])
          BY <1>13, <2>2
        <4> QED  BY <1>1, <1>3, <1>14, <4>1, Appended
      <3> QED  BY <1>3, <2>2, <3>1 DEF One
    <2> QED  BY <1>5, <2>1, <2>2
  <1>17. InOrder(u)
    <2>1. f # "paired"
      BY <1>5
    <2> QED  BY <1>1, <1>3, <1>13, <1>14, <2>1, Appended
  <1>18. Sends(p) + Data(up[x]) = Sends(q) + Data(u)
    <2>1. PICK e, d, k : e = Data(s) /\ d = Data(up[x]) /\ k = One(f = "data")
      OBVIOUS
    <2>2. k \in Int /\ e \in Int /\ d \in Int /\ p.in \in Int /\ p.toWs \in Int
      BY <1>3, <1>4, <2>1, PipeFields DEF One
    <2>3. Sends(q) = p.in + p.toWs + (e - k) /\ Sends(p) = p.in + p.toWs + e
      BY <1>1, <1>5, <1>9, <1>11, <2>1 DEF Sending, Sends
    <2>4. Data(u) = d + k
      BY <1>16, <2>1
    <2> QED  BY <2>1, <2>2, <2>3, <2>4
  <1>19. wrote[x] + Sends(pipe[x]) + Data(up[x]) = wrote[x] + Sends(q) + Data(u)
    <2>1. PICK w, e, d, e2, d2 : w = wrote[x] /\ e = Sends(p) /\ d = Data(up[x]) /\ e2 = Sends(q) /\ d2 = Data(u)
      OBVIOUS
    <2>2. w \in Int /\ e \in Int /\ d \in Int /\ e2 \in Int /\ d2 \in Int
      BY <1>3, <1>12, <1>15, <2>1, PipeFields, FramesOf
    <2>3. e + d = e2 + d2
      BY <1>18, <2>1
    <2>4. w + e + d = w + e2 + d2
      BY <2>2, <2>3
    <2> QED  BY <1>1, <2>1, <2>4
  <1>20. "eof" \in ToSet(u) \/ x \in eof => q.wsq = << >> /\ (Ended(q) \/ q.life = "gone")
    <2> SUFFICES ASSUME "eof" \in ToSet(u) PROVE q.wsq = << >> /\ Ended(q)
      BY <1>13
    <2>1. f = "eof"
      BY <1>13, <1>15
    <2>2. Ended(p) /\ t = << >>
      BY <1>7, <2>1 DEF Ended
    <2> QED  BY <1>12, <2>2
  <1>21. Passage(Peer(x)) =>
           /\ Takes(q) + Data(down[x]) + got[x] = Takes(pipe[x]) + Data(down[x]) + got[x]
           /\ q.ws = "gone" => at[Watched] = "ended"
           /\ q.life = "gone" => Unparsed(down[x]) /\ (down[x] # << >> => x \in late')
           /\ q.dropTcp => Unparsed(down[x]) /\ (down[x] # << >> => q.check)
    <2>1. Takes(q) = Takes(pipe[x])
      BY <1>1, <1>9, <1>11 DEF Sending, Takes
    <2> QED  BY <1>12, <2>1
  <1>22. /\ down' = [down EXCEPT ![x] = down[x]] /\ wrote' = [wrote EXCEPT ![x] = wrote[x]]
         /\ got' = [got EXCEPT ![x] = got[x]] /\ closed' = [closed EXCEPT ![x] = closed[x]]
    BY <1>2, <1>3, Unmoved
  <1>23. UNCHANGED <<at, waiting, hold, eof>>
    BY <1>2 DEF Rest, pairing
  <1>24. /\ closed[x] # "no" => q.tcp = "gone"
         /\ q.life = "on" /\ q.tcp = "gone" => closed[x] # "no"
         /\ pipe[x].tcp = "refused" => q.tcp = "refused"
         /\ pipe[x].life = "on" /\ q.life # "none"
    BY <1>1, <1>2, <1>3, <1>12 DEF Closing
  <1>25. /\ "paired" \notin ToSet(u) /\ ("close" \in ToSet(u) => q.life = "gone") /\ (x \in eof => ToSet(u) \subseteq {"close"})
         /\ ToSet(down[x]) \subseteq ToSet(down[x]) /\ (closed[x] # "no" => closed[x] = closed[x])
    BY <1>5, <1>13, <1>15
  <1>26. Changes(x, q, u, down[x], wrote[x], got[x], closed[x])
    BY <1>2, <1>22, <1>23 DEF Changes
  <1>27. Conserves(x, q, u, down[x], wrote[x], got[x], closed[x])
    BY <1>3, <1>12, <1>15, <1>17, <1>19, <1>20, <1>21, <1>24, <1>25 DEF Conserves
  <1> QED  BY <1>26, <1>27, PipeStep

\* The last frames of a socket.
LEMMA LastFrames ==
  /\ \A f \in Frame : /\ <<f>> \in Seq(Frame) /\ ToSet(<<f>>) = {f} /\ InOrder(<<f>>) /\ Head(<<f>>) = f
                      /\ Data(<<f>>) = One(f = "data") /\ Tail(<<f>>) = << >> /\ Front(<<f>>) = << >>
  <1>1. ASSUME NEW f \in Frame
        PROVE  /\ <<f>> \in Seq(Frame) /\ ToSet(<<f>>) = {f} /\ InOrder(<<f>>) /\ Head(<<f>>) = f
               /\ Data(<<f>>) = One(f = "data") /\ Tail(<<f>>) = << >> /\ Front(<<f>>) = << >>
    <2>1. PICK s, t : s = << >> /\ t = <<f>>
      OBVIOUS
    <2>2. s \in Seq(Frame) /\ t = Append(s, f) /\ t \in Seq(Frame)
      BY <2>1
    <2>3. InOrder(s) /\ Data(s) = 0 /\ \A e : e \notin ToSet(s)
      BY <2>1, NoFrames
    <2>4. ToSet(t) = ToSet(s) \cup {f}
      BY <2>2, Appended
    <2>5. ToSet(t) = {f}
      BY <2>3, <2>4
    <2>6. InOrder(t)
      <3>1. "close" \notin ToSet(s) /\ ("eof" \in ToSet(s) => f = "close") /\ (f = "paired" => s = << >>)
        BY <2>1, <2>3
      <3> QED  BY <2>2, <2>3, <3>1, Appended
    <2>7. Data(t) = One(f = "data")
      <3>1. CASE f = "data"
        <4>1. Data(t) = Data(s) + 1
          BY <2>2, <3>1, Appended
        <4> QED  BY <2>3, <3>1, <4>1 DEF One
      <3>2. CASE f # "data"
        <4>1. f \notin ToSet(s)
          BY <2>3
        <4>2. Data(t) = Data(s)
          BY <2>2, <3>2, <4>1, Appended
        <4> QED  BY <2>3, <3>2, <4>2 DEF One
      <3> QED  BY <3>1, <3>2
    <2>8. Front(t) = << >>
      <3>1. Len(t) = 1 /\ Front(t) = SubSeq(t, 1, Len(t) - 1)
        BY <2>1 DEF Front
      <3>2. Front(t) = SubSeq(t, 1, 0)
        BY <3>1
      <3> QED  BY <2>2, <3>2, SubSeqEmpty
    <2>9. Head(t) = f /\ Tail(t) = << >>
      BY <2>1
    <2> QED  BY <2>1, <2>2, <2>5, <2>6, <2>7, <2>8, <2>9
  <1> QED  BY <1>1

\* What is before the last frame of a socket.
LEMMA BeforeClose ==
  ASSUME NEW s \in Seq(Frame), s # << >>, InOrder(s), Last(s) = "close", NEW v, v = Front(s)
  PROVE  /\ v \in Seq(Frame) /\ InOrder(v) /\ ToSet(s) = ToSet(v) \cup {"close"}
         /\ "close" \notin ToSet(v) /\ Data(v) = Data(s)
  <1>1. PICK n, f : n = Len(s) - 1 /\ f = "close"
    OBVIOUS
  <1>2. n \in Nat /\ Len(s) = n + 1 /\ f \in Frame /\ \A i \in 1 .. n + 1 : s[i] \in Frame
    BY <1>1, FramesOf, EmptySeq DEF Frame
  <1>3. v = SubSeq(s, 1, n) /\ s[n + 1] = f
    BY <1>1, <1>2 DEF Front, Last
  <1>4. v \in Seq(Frame) /\ Len(v) = n /\ \A i \in 1 .. n : v[i] = s[i]
    <2>1. 1 \in 1 .. Len(s) + 1 /\ n \in 0 .. Len(s)
      BY <1>2
    <2>2. v \in Seq(Frame) /\ Len(v) = n
      BY <1>2, <1>3, <2>1, SubSeqProperties
    <2>3. \A i \in 1 .. n : v[i] = s[i]
      BY <1>2, <1>3, <2>1, SubSeqProperties
    <2> QED  BY <2>2, <2>3
  <1>5. PICK t : t = Append(v, f)
    OBVIOUS
  <1>6. t = s
    <2>1. t \in Seq(Frame) /\ Len(t) = n + 1 /\ (\A i \in 1 .. n : t[i] = v[i]) /\ t[n + 1] = f
      BY <1>2, <1>4, <1>5, AppendProperties
    <2>2. \A i \in 1 .. Len(t) : t[i] = s[i]
      BY <1>2, <1>3, <1>4, <2>1
    <2> QED  BY <1>2, <2>1, <2>2, SeqEqual
  <1>7. InOrder(v)
    BY <1>2, <1>4 DEF InOrder
  <1>8. "close" \notin ToSet(v)
    <2>1. \A i \in 1 .. n : s[i] # "close"
      BY <1>2 DEF InOrder
    <2>2. DOMAIN v = 1 .. n
      BY <1>4, FramesOf
    <2> QED  BY <1>4, <2>1, <2>2 DEF ToSet
  <1>9. ToSet(t) = ToSet(v) \cup {f}
    BY <1>2, <1>4, <1>5, Appended
  <1>10. Data(t) = Data(v)
    <2>1. f # "data" /\ f \notin ToSet(v)
      BY <1>1, <1>8
    <2> QED  BY <1>2, <1>4, <1>5, <2>1, Appended
  <1> QED  BY <1>1, <1>4, <1>6, <1>7, <1>8, <1>9, <1>10

LEMMA WsEndsKeeps ==
  ASSUME TailInv, NEW x \in Device, WsEnds(x)
  PROVE  TailInv'
  <1>1. PICK p, q, s, v : p = pipe[x] /\ q = WsFinished(p) /\ s = down[x] /\ v = Front(s)
    OBVIOUS
  <1>2. /\ p.life = "on" /\ p.ws # "gone" /\ down' = [down EXCEPT ![x] = v] /\ pipe' = [pipe EXCEPT ![x] = q]
        /\ s # << >> /\ Last(s) = "close" /\ late' = late
        /\ Rest /\ up' = up /\ wrote' = wrote /\ got' = got /\ late' = late /\ closed' = closed
    BY <1>1 DEF WsEnds
  <1>3. TailTyped /\ p \in Pipes /\ Shape(p) /\ Closing(x) /\ Uplink(x) /\ Downlink(x) /\ wrote[x] \in Nat /\ got[x] \in Nat
        /\ closed[x] \in {"no", "early", "clean"} /\ up[x] \in Seq(Frame)
    BY <1>1, AtPipe, Unmoved
  <1>4. /\ v \in Seq(Frame) /\ InOrder(v) /\ ToSet(v) \subseteq ToSet(s) /\ "close" \in ToSet(s) /\ Data(v) = Data(s)
        /\ "close" \notin ToSet(v)
    <2>1. s \in Seq(Frame) /\ InOrder(s)
      BY <1>1, AtPipe
    <2> QED  BY <1>1, <1>2, <2>1, BeforeClose
  <1>20. Unparsed(v)
    <2>1. "eof" \notin ToSet(v) /\ "paired" \notin ToSet(v)
      <3>1. p.life # "none"
        BY <1>2
      <3> QED  BY <1>1, <1>3, <1>4, <3>1 DEF Downlink
    <2>2. ToSet(v) \subseteq Frame
      BY <1>4, FramesOf DEF ToSet
    <2> QED  BY <1>4, <2>1, <2>2 DEF Unparsed, Frame
  <1>5. at[Watched] = "ended"
    BY <1>1, <1>3, <1>4 DEF Downlink
  <1>6. \/ Gone(q) /\ (q.tcp = "refused" \/ (p.tcp = "gone" /\ q.tcp = "gone"))
        \/ /\ p.tcp = "on" /\ ~Ended(p) /\ q \in Pipes /\ Shape(q) /\ q.life = "on" /\ q.tcp = "on"
           /\ q.ws = "gone" /\ q.dropTcp /\ q.check /\ Takes(q) = Takes(p)
    BY <1>1, <1>2, <1>3, WsFinishedKeeps
  <1>7. q \in Pipes /\ Shape(q) /\ q.life # "none"
    BY <1>6 DEF Gone
  <1>8. /\ closed[x] # "no" => q.tcp = "gone"
        /\ q.life = "on" /\ q.tcp = "gone" => closed[x] # "no"
        /\ p.tcp = "refused" => q.tcp = "refused"
        /\ q.tcp = "gone" => closed[x] # "no"
    <2>1. (closed[x] # "no" => p.tcp = "gone") /\ (p.tcp = "gone" => closed[x] # "no")
      BY <1>1, <1>2, <1>3 DEF Closing
    <2>2. p.tcp = "gone" => Gone(q) /\ q.tcp = "gone"
      <3>1. p.tcp = "gone" => p.done
        BY <1>2, <1>3 DEF Shape, Left
      <3>2. p.tcp = "gone" => q = Deleted("gone")
        BY <1>1, <3>1 DEF WsFinished
      <3> QED  BY <3>2, DeletedIsGone
    <2>3. p.tcp = "refused" => Gone(q) /\ q.tcp = "refused"
      <3>1. p.tcp = "refused" => p.done
        BY <1>2, <1>3 DEF Shape, Left
      <3>2. p.tcp = "refused" => q = Deleted("refused")
        BY <1>1, <3>1 DEF WsFinished
      <3> QED  BY <3>2, DeletedIsGone
    <2> QED  BY <1>6, <2>1, <2>2, <2>3
  <1>9. closed[x] = "no" /\ q.tcp # "refused" =>
          /\ Takes(q) + Data(v) + got[x] = Takes(pipe[x]) + Data(down[x]) + got[x]
          /\ q.life = "on" /\ q.check
          /\ Unparsed(v)
    <2> SUFFICES ASSUME closed[x] = "no", q.tcp # "refused"
                 PROVE  /\ Takes(q) + Data(v) + got[x] = Takes(pipe[x]) + Data(down[x]) + got[x]
                        /\ q.life = "on" /\ q.check
                        /\ Unparsed(v)
      OBVIOUS
    <2>1. Takes(q) = Takes(p) /\ q.life = "on" /\ q.check
      BY <1>6, <1>8
    <2> QED  BY <1>1, <1>4, <1>20, <2>1
  <1>10. InOrder(up[x]) /\ "paired" \notin ToSet(up[x]) /\ "close" \notin ToSet(up[x])
    BY <1>1, <1>2, <1>3 DEF Uplink
  <1>11. "eof" \in ToSet(up[x]) \/ x \in eof => q.wsq = << >> /\ (Ended(q) \/ q.life = "gone")
    <2> SUFFICES ASSUME "eof" \in ToSet(up[x]) \/ x \in eof PROVE q.wsq = << >> /\ q.life = "gone"
      OBVIOUS
    <2>1. Ended(p)
      BY <1>1, <1>2, <1>3 DEF Uplink
    <2> QED  BY <1>6, <2>1 DEF Gone
  <1>12. x \in eof => ToSet(up[x]) \subseteq {"close"}
    BY <1>3 DEF Uplink
  <1>13. Changes(x, q, up[x], v, wrote[x], got[x], closed[x])
    <2>1. UNCHANGED <<at, waiting, hold, eof>>
      BY <1>2 DEF Rest, pairing
    <2>2. up' = [up EXCEPT ![x] = up[x]] /\ wrote' = [wrote EXCEPT ![x] = wrote[x]]
          /\ got' = [got EXCEPT ![x] = got[x]] /\ closed' = [closed EXCEPT ![x] = closed[x]]
      BY <1>2, <1>3, Unmoved
    <2> QED  BY <1>2, <2>1, <2>2 DEF Changes
  <1>14. Conserves(x, q, up[x], v, wrote[x], got[x], closed[x])
    BY <1>1, <1>2, <1>3, <1>4, <1>5, <1>7, <1>8, <1>9, <1>10, <1>11, <1>12 DEF Conserves
  <1> QED  BY <1>13, <1>14, PipeStep
-----------------------------------------------------------------------------
(* The halves meet                                                         *)

Queued == [who : Socket, live : BOOLEAN]

\* What the pairing may do to the watched connection: nothing once it is paired or has
\* ended, and it is never dialled again.
PairingMoves ==
  /\ at' \in [Socket -> Places] /\ \A x \in Channel : at'[x] \notin {"paired", "ended"}
  /\ waiting' \in [Role -> Seq([who : Socket, live : BOOLEAN])] /\ Entries'
  /\ at[Watched] \in {"paired", "ended"} => at'[Watched] = at[Watched]
  /\ at'[Watched] = "idle" => at[Watched] = "idle"

LEMMA Roles ==
  /\ \A x \in Socket : RoleOf(x) \in Role /\ Other(RoleOf(x)) \in Role /\ Other(RoleOf(x)) # RoleOf(x)
                       /\ (RoleOf(x) = "accept" <=> x \in Channel) /\ (x \in Conn <=> x \notin Channel)
  /\ \A r \in Role, s \in Role : r # s => s = Other(r)
  /\ Watched \in Conn /\ Watched \in Socket /\ Watched \notin Channel /\ Conn \subseteq Socket /\ Channel \subseteq Socket
  /\ \A x \in Socket : After(x) \in {"idle", "ended"} /\ (After(x) = "idle" <=> x \in Channel)
  <1>1. Conn \cap Channel = {} /\ Watched \in Conn
    BY PairingAssumption DEF PairingAssumption, TunnelAssumption
  <1>2. \A x \in Socket : x \in Conn <=> x \notin Channel
    BY <1>1 DEF Socket
  <1>3. Watched \in Socket /\ Watched \notin Channel /\ Conn \subseteq Socket /\ Channel \subseteq Socket
    BY <1>1 DEF Socket
  <1>4. \A x \in Socket : RoleOf(x) \in Role /\ Other(RoleOf(x)) \in Role /\ Other(RoleOf(x)) # RoleOf(x)
                          /\ (RoleOf(x) = "accept" <=> x \in Channel)
    BY DEF RoleOf, Role, Other
  <1>5. \A r \in Role, s \in Role : r # s => s = Other(r)
    BY DEF Role, Other
  <1>6. \A x \in Socket : After(x) \in {"idle", "ended"} /\ (After(x) = "idle" <=> x \in Channel)
    BY DEF After
  <1> QED  BY <1>1, <1>2, <1>3, <1>4, <1>5, <1>6

\* The queues stay as they are, and what is parked stays parked.
LEMMA QueuesKept ==
  ASSUME TailTyped, Entries, waiting' = waiting,
         NEW x \in Socket, NEW place \in Places, at' = [at EXCEPT ![x] = place], at[x] # "parked",
         x \in Channel => place \notin {"paired", "ended"},
         x = Watched => at[x] \notin {"paired", "ended"} /\ (place = "idle" => at[x] = "idle")
  PROVE  PairingMoves
  <1>1. /\ at \in [Socket -> Places] /\ waiting \in [Role -> Seq([who : Socket, live : BOOLEAN])]
        /\ \A y \in Channel : at[y] \notin {"paired", "ended"}
    BY DEF TailTyped
  <1>2. at' \in [Socket -> Places] /\ (\A y \in Socket : at'[y] = IF y = x THEN place ELSE at[y])
    BY <1>1
  <1>3. \A y \in Channel : at'[y] \notin {"paired", "ended"}
    BY <1>1, <1>2, Roles
  <1>4. \A y \in Socket : at[y] = "parked" => at'[y] = "parked"
    BY <1>2
  <1>5. \A r \in Role : \A i \in 1 .. Len(waiting[r]) : waiting[r][i].who \in Socket
    <2> TAKE r \in Role
    <2>1. waiting[r] \in Seq([who : Socket, live : BOOLEAN])
      BY <1>1
    <2> TAKE i \in 1 .. Len(waiting[r])
    <2>2. waiting[r][i] \in [who : Socket, live : BOOLEAN]
      BY <2>1, ElementOfSeq
    <2> QED  BY <2>2
  <1>6. Entries'
    BY <1>4, <1>5 DEF Entries
  <1>7. at[Watched] \in {"paired", "ended"} => at'[Watched] = at[Watched]
    BY <1>2, Roles
  <1>8. at'[Watched] = "idle" => at[Watched] = "idle"
    BY <1>2, Roles
  <1> QED  BY <1>1, <1>2, <1>3, <1>6, <1>7, <1>8 DEF PairingMoves

LEMMA QueueOf ==
  ASSUME TailTyped, NEW r \in Role
  PROVE  /\ waiting[r] \in Seq(Queued) /\ Len(waiting[r]) \in Nat
         /\ \A i \in 1 .. Len(waiting[r]) : waiting[r][i] \in Queued /\ waiting[r][i].who \in Socket
  <1>1. waiting[r] \in Seq(Queued)
    BY DEF TailTyped, Queued
  <1>2. \A i \in 1 .. Len(waiting[r]) : waiting[r][i] \in Queued
    BY <1>1, ElementOfSeq
  <1> QED  BY <1>1, <1>2, LenProperties DEF Queued

\* The head of the other role's queue is parked: it and x are the two halves.
LEMMA Halves ==
  ASSUME TailTyped, Entries, NEW x \in Socket, at[x] = "joining",
         NEW other, other = Other(RoleOf(x)), waiting[other] # << >>,
         NEW y, y = Head(waiting[other]).who, Head(waiting[other]).live,
         NEW c, c = (IF x \in Conn THEN x ELSE y), NEW a, a = IF x \in Conn THEN y ELSE x
  PROVE  /\ y \in Socket /\ RoleOf(y) = other /\ at[y] = "parked" /\ y # x
         /\ c \in Conn /\ c \notin Channel /\ a \in Channel /\ a \notin Conn /\ c # a /\ {c, a} = {x, y}
         /\ c \in Socket /\ a \in Socket
  <1>1. other \in Role
    BY Roles
  <1>2. PICK s, h : s = waiting[other] /\ h = Head(s)
    OBVIOUS
  <1>3. s \in Seq(Queued) /\ Len(s) \in Nat /\ Len(s) # 0
    BY <1>1, <1>2, QueueOf, EmptySeq
  <1>4. h \in Queued /\ h = s[1]
    BY <1>2, <1>3, HeadTailProperties
  <1>5. y \in Socket /\ RoleOf(y) = other /\ at[y] = "parked" /\ y # x
    <2>1. 1 \in 1 .. Len(s)
      BY <1>3
    <2> QED  BY <1>1, <1>2, <1>4, <2>1 DEF Entries, Queued
  <1>6. CASE x \in Conn
    <2>1. other = "accept"
      BY <1>6, Roles DEF RoleOf, Other
    <2>2. y \in Channel /\ y \notin Conn
      BY <1>5, <2>1, Roles
    <2> QED  BY <1>5, <1>6, <2>2, Roles
  <1>7. CASE x \notin Conn
    <2>1. x \in Channel
      BY <1>7, Roles
    <2>2. other = "connect"
      BY <2>1 DEF RoleOf, Other
    <2>3. y \in Conn /\ y \notin Channel
      BY <1>5, <2>2, Roles
    <2> QED  BY <1>5, <1>7, <2>1, <2>3, Roles
  <1> QED  BY <1>6, <1>7

\* One turn of join()'s loop that takes an entry off the other role's queue.
LEMMA TakenOff ==
  ASSUME TailTyped, Entries, NEW x \in Socket, at[x] = "joining",
         NEW other, other = Other(RoleOf(x)), waiting[other] # << >>,
         waiting' = [waiting EXCEPT ![other] = Tail(@)],
         IF Head(waiting[other]).live THEN Paired(x, Head(waiting[other]).who) ELSE at' = at
  PROVE  PairingMoves
  <1>1. /\ at \in [Socket -> Places] /\ waiting \in [Role -> Seq([who : Socket, live : BOOLEAN])]
        /\ \A y \in Channel : at[y] \notin {"paired", "ended"}
    BY DEF TailTyped
  <1>2. PICK s, t, h, n : s = waiting[other] /\ t = Tail(s) /\ h = Head(s) /\ n = Len(t)
    OBVIOUS
  <1>3. other \in Role /\ other # RoleOf(x)
    BY Roles
  <1>4. s \in Seq(Queued) /\ s # << >> /\ t \in Seq(Queued) /\ Len(s) = n + 1 /\ n \in Nat /\ h = s[1] /\ h \in Queued
        /\ \A i \in 1 .. n : t[i] = s[i + 1]
    <2>1. s \in Seq(Queued) /\ s # << >>
      BY <1>2, <1>3, QueueOf
    <2>2. Len(s) \in Nat /\ Len(s) # 0
      BY <2>1, LenProperties, EmptySeq
    <2>3. t \in Seq(Queued) /\ h \in Queued /\ h = s[1] /\ Len(t) = Len(s) - 1
      BY <1>2, <2>1, HeadTailProperties
    <2>4. n \in Nat /\ Len(s) = n + 1
      BY <1>2, <2>2, <2>3
    <2>5. \A i \in 1 .. n : t[i] = s[i + 1]
      BY <1>2, <2>1, HeadTailProperties
    <2> QED  BY <2>1, <2>3, <2>4, <2>5
  <1>5. waiting'[other] = t /\ (\A r \in Role : r # other => waiting'[r] = waiting[r])
        /\ waiting' \in [Role -> Seq([who : Socket, live : BOOLEAN])]
    BY <1>1, <1>2, <1>3, <1>4 DEF Queued
  <1>6. \A i \in 1 .. n : i + 1 \in 1 .. Len(s) /\ i + 1 # 1 /\ 1 \in 1 .. Len(s)
    BY <1>4
  \* Who is still queued, and was parked, stays so.
  <1>7. /\ at' \in [Socket -> Places] /\ (\A y \in Channel : at'[y] \notin {"paired", "ended"})
        /\ at[Watched] \in {"paired", "ended"} => at'[Watched] = at[Watched]
        /\ at'[Watched] = "idle" => at[Watched] = "idle"
        /\ \A y \in Socket : at[y] = "parked" => at'[y] = "parked" \/ (h.live /\ y = h.who)
    <2>1. CASE ~h.live
      <3>1. at' = at
        BY <1>2, <2>1
      <3> QED  BY <1>1, <3>1
    <2>2. CASE h.live
      <3>1. PICK y : y = h.who
        OBVIOUS
      <3>2. PICK c, a : c = (IF x \in Conn THEN x ELSE y) /\ a = IF x \in Conn THEN y ELSE x
        OBVIOUS
      <3>3. /\ y \in Socket /\ RoleOf(y) = other /\ at[y] = "parked" /\ y # x
            /\ c \in Conn /\ c \notin Channel /\ a \in Channel /\ a \notin Conn /\ c # a /\ {c, a} = {x, y}
            /\ c \in Socket /\ a \in Socket
        BY <1>2, <2>2, <3>1, <3>2, Halves
      <3>4. c \in {x, y} /\ a \in {x, y} /\ y \in {c, a} /\ x \in {c, a}
        BY <3>3
      <3>5. at' = [at EXCEPT ![c] = "paired", ![a] = "idle"]
        BY <1>2, <2>2, <3>1, <3>2 DEF Paired
      <3>6. \A z \in Socket : at'[z] = IF z = a THEN "idle" ELSE IF z = c THEN "paired" ELSE at[z]
        BY <1>1, <3>3, <3>5
      <3>7. at' \in [Socket -> Places]
        BY <1>1, <3>5 DEF Places
      <3>8. at[c] \in {"joining", "parked"} /\ at[a] \in {"joining", "parked"}
        BY <3>3, <3>4
      <3>9. \A z \in Channel : at'[z] \notin {"paired", "ended"}
        BY <1>1, <3>3, <3>6, Roles
      <3>10. at[Watched] \in {"paired", "ended"} => at'[Watched] = at[Watched]
        BY <3>6, <3>8, Roles
      <3>11. at'[Watched] = "idle" => at[Watched] = "idle"
        BY <3>3, <3>6, Roles
      <3>12. \A z \in Socket : at[z] = "parked" => at'[z] = "parked" \/ z = y
        <4> TAKE z \in Socket
        <4>1. at[z] = "parked" => z # x
          OBVIOUS
        <4>2. z # x /\ z # y => z # a /\ z # c
          BY <3>4
        <4> QED  BY <3>6, <4>1, <4>2
      <3> QED  BY <2>2, <3>1, <3>7, <3>9, <3>10, <3>11, <3>12
    <2> QED  BY <2>1, <2>2
  <1>8. Entries'
    <2> SUFFICES ASSUME NEW r \in Role, NEW i \in 1 .. Len(waiting'[r])
                 PROVE  /\ RoleOf(waiting'[r][i].who) = r
                        /\ waiting'[r][i].live => at'[waiting'[r][i].who] = "parked"
                        /\ \A j \in 1 .. Len(waiting'[r]) :
                             waiting'[r][i].live /\ waiting'[r][j].live /\ waiting'[r][i].who = waiting'[r][j].who => i = j
      BY DEF Entries
    <2>1. CASE r = other
      <3>1. waiting'[r] = t /\ Len(t) = n /\ i \in 1 .. n
        BY <1>2, <1>5, <2>1
      <3>2. PICK k : k = i + 1
        OBVIOUS
      <3>3. k \in 1 .. Len(s) /\ k # 1 /\ 1 \in 1 .. Len(s) /\ t[i] = s[k]
        BY <1>4, <1>6, <3>1, <3>2
      <3>4. RoleOf(s[k].who) = r /\ (s[k].live => at[s[k].who] = "parked") /\ s[k].who \in Socket
        BY <1>2, <1>3, <2>1, <3>3, QueueOf DEF Entries
      <3>5. s[k].live /\ h.live => s[k].who # h.who
        BY <1>2, <1>3, <1>4, <3>3 DEF Entries
      <3>6. s[k].live => at'[s[k].who] = "parked"
        BY <1>7, <3>4, <3>5
      <3>7. ASSUME NEW j \in 1 .. n, s[k].live, t[j].live, s[k].who = t[j].who PROVE i = j
        <4>1. PICK l : l = j + 1
          OBVIOUS
        <4>2. l \in 1 .. Len(s) /\ t[j] = s[l]
          BY <1>4, <1>6, <4>1
        <4>3. k = l
          BY <1>2, <1>3, <3>3, <3>7, <4>2 DEF Entries
        <4> QED  BY <3>1, <3>2, <3>7, <4>1, <4>3
      <3> QED  BY <3>1, <3>3, <3>4, <3>6, <3>7
    <2>2. CASE r # other
      <3>1. waiting'[r] = waiting[r]
        BY <1>5, <2>2
      <3>2. RoleOf(waiting[r][i].who) = r /\ (waiting[r][i].live => at[waiting[r][i].who] = "parked") /\ waiting[r][i].who \in Socket
        BY <3>1, QueueOf DEF Entries
      <3>3. h.live => RoleOf(h.who) = other
        BY <1>2, <1>3, <1>4, LenProperties DEF Entries
      <3>4. waiting[r][i].live => at'[waiting[r][i].who] = "parked"
        BY <1>7, <2>2, <3>2, <3>3
      <3>5. \A j \in 1 .. Len(waiting[r]) :
              waiting[r][i].live /\ waiting[r][j].live /\ waiting[r][i].who = waiting[r][j].who => i = j
        BY <3>1 DEF Entries
      <3> QED  BY <3>1, <3>2, <3>4, <3>5
    <2> QED  BY <2>1, <2>2
  <1> QED  BY <1>5, <1>7, <1>8 DEF PairingMoves

LEMMA DialMoves ==
  ASSUME TailTyped, Entries, NEW x \in Socket, Dial(x)
  PROVE  PairingMoves \/ x = Watched
  <1>1. at[x] = "idle" /\ at' = [at EXCEPT ![x] = "dialing"] /\ waiting' = waiting /\ "dialing" \in Places
    BY DEF Dial, Places
  <1> QED  BY <1>1, QueuesKept

LEMMA AdmitMoves ==
  ASSUME TailTyped, Entries, NEW x \in Socket, Admit(x)
  PROVE  PairingMoves
  <1>1. at[x] = "dialing" /\ waiting' = waiting /\ "joining" \in Places /\ After(x) \in Places
    BY Roles DEF Admit, Places
  <1>2. at' = [at EXCEPT ![x] = "joining"] \/ at' = [at EXCEPT ![x] = After(x)]
    BY DEF Admit
  <1>3. (x \in Channel => After(x) = "idle") /\ (x = Watched => After(x) = "ended")
    BY Roles
  <1> QED  BY <1>1, <1>2, <1>3, QueuesKept

LEMMA JoinMoves ==
  ASSUME TailTyped, Entries, NEW x \in Socket, Join(x)
  PROVE  PairingMoves
  <1>1. PICK other : other = Other(RoleOf(x))
    OBVIOUS
  <1>2. at[x] = "joining" /\ "parking" \in Places /\ After(x) \in Places
    BY Roles DEF Join, Places
  <1>3. (x \in Channel => After(x) = "idle") /\ (x = Watched => After(x) = "ended")
    BY Roles
  <1>4. CASE waiting' = waiting /\ at' = [at EXCEPT ![x] = After(x)]
    BY <1>2, <1>3, <1>4, QueuesKept
  <1>5. CASE waiting' = waiting /\ at' = [at EXCEPT ![x] = "parking"]
    BY <1>2, <1>5, QueuesKept
  <1>6. CASE /\ waiting[other] # << >> /\ waiting' = [waiting EXCEPT ![other] = Tail(@)]
             /\ IF Head(waiting[other]).live THEN Paired(x, Head(waiting[other]).who) ELSE at' = at
    BY <1>1, <1>2, <1>6, TakenOff
  <1> QED  BY <1>1, <1>4, <1>5, <1>6 DEF Join

LEMMA ParkMoves ==
  ASSUME TailTyped, Entries, NEW x \in Socket, Park(x)
  PROVE  PairingMoves
  <1>1. /\ at \in [Socket -> Places] /\ waiting \in [Role -> Seq([who : Socket, live : BOOLEAN])]
        /\ \A y \in Channel : at[y] \notin {"paired", "ended"}
    BY DEF TailTyped
  <1>2. at[x] = "parking" /\ After(x) \in Places
    BY Roles DEF Park, Places
  <1>3. CASE ~session
    <2>1. waiting' = waiting /\ at' = [at EXCEPT ![x] = After(x)]
      BY <1>3 DEF Park
    <2>2. (x \in Channel => After(x) = "idle") /\ (x = Watched => After(x) = "ended")
      BY Roles
    <2> QED  BY <1>2, <2>1, <2>2, QueuesKept
  <1>4. CASE session
    <2>1. PICK role, e, s, t, n :
            role = RoleOf(x) /\ e = [who |-> x, live |-> TRUE] /\ s = waiting[role] /\ t = Append(s, e) /\ n = Len(s)
      OBVIOUS
    <2>2. role \in Role /\ e \in Queued /\ e.who = x /\ e.live
      BY <2>1, Roles DEF Queued
    <2>3. s \in Seq(Queued) /\ n \in Nat /\ \A i \in 1 .. n : s[i] \in Queued /\ s[i].who \in Socket
      BY <2>1, <2>2, QueueOf
    <2>4. t \in Seq(Queued) /\ Len(t) = n + 1 /\ (\A i \in 1 .. n : t[i] = s[i]) /\ t[n + 1] = e
      <3>1. t \in Seq(Queued) /\ Len(t) = Len(s) + 1
        BY <2>1, <2>2, <2>3, AppendProperties
      <3>2. (\A i \in 1 .. Len(s) : t[i] = s[i]) /\ t[Len(s) + 1] = e
        BY <2>1, <2>2, <2>3, AppendProperties
      <3> QED  BY <2>1, <3>1, <3>2
    <2>5. at' = [at EXCEPT ![x] = "parked"] /\ waiting' = [waiting EXCEPT ![role] = Append(@, e)]
      BY <1>4, <2>1 DEF Park
    <2>6. waiting'[role] = t /\ (\A r \in Role : r # role => waiting'[r] = waiting[r])
          /\ waiting' \in [Role -> Seq([who : Socket, live : BOOLEAN])]
      BY <1>1, <2>1, <2>2, <2>4, <2>5 DEF Queued
    <2>7. "parked" \in Places /\ at' \in [Socket -> Places] /\ (\A y \in Socket : at'[y] = IF y = x THEN "parked" ELSE at[y])
      BY <1>1, <2>5 DEF Places
    <2>8. \A i \in 1 .. (n + 1) : i \in 1 .. n \/ i = n + 1
      BY <2>3
    <2>9. Entries'
      <3> SUFFICES ASSUME NEW r \in Role, NEW i \in 1 .. Len(waiting'[r])
                   PROVE  /\ RoleOf(waiting'[r][i].who) = r
                          /\ waiting'[r][i].live => at'[waiting'[r][i].who] = "parked"
                          /\ \A j \in 1 .. Len(waiting'[r]) :
                               waiting'[r][i].live /\ waiting'[r][j].live /\ waiting'[r][i].who = waiting'[r][j].who => i = j
        BY DEF Entries
      <3>1. CASE r = role
        <4>1. waiting'[r] = t /\ Len(t) = n + 1 /\ i \in 1 .. (n + 1)
          BY <2>4, <2>6, <3>1
        \* x is not parked yet, so no live entry is its own.
        <4>2. \A k \in 1 .. n : RoleOf(s[k].who) = r /\ (s[k].live => at[s[k].who] = "parked" /\ s[k].who # x)
          BY <1>2, <2>1, <2>2, <3>1 DEF Entries
        <4>3. \A k \in 1 .. n, l \in 1 .. n : s[k].live /\ s[l].live /\ s[k].who = s[l].who => k = l
          <5> TAKE k \in 1 .. n
          <5>1. \A j \in 1 .. Len(waiting[role]) :
                  waiting[role][k].live /\ waiting[role][j].live /\ waiting[role][k].who = waiting[role][j].who => k = j
            BY <2>1, <2>2 DEF Entries
          <5> QED  BY <2>1, <5>1
        <4>4. RoleOf(t[i].who) = r /\ (t[i].live => at'[t[i].who] = "parked")
          <5>1. CASE i = n + 1
            <6>1. t[i] = e
              BY <2>4, <5>1
            <6> QED  BY <2>1, <2>2, <2>7, <3>1, <6>1
          <5>2. CASE i \in 1 .. n
            <6>1. t[i] = s[i] /\ s[i].who \in Socket
              BY <2>3, <2>4, <5>2
            <6> QED  BY <2>7, <4>2, <5>2, <6>1
          <5> QED  BY <2>8, <4>1, <5>1, <5>2
        <4>5. ASSUME NEW j \in 1 .. (n + 1), t[i].live, t[j].live, t[i].who = t[j].who PROVE i = j
          <5>1. CASE i \in 1 .. n /\ j \in 1 .. n
            <6>1. t[i] = s[i] /\ t[j] = s[j]
              BY <2>4, <5>1
            <6> QED  BY <4>3, <4>5, <5>1, <6>1
          <5>2. CASE i \in 1 .. n /\ j = n + 1
            <6>1. t[i] = s[i] /\ t[j] = e
              BY <2>4, <5>2
            <6> QED  BY <2>2, <4>2, <4>5, <5>2, <6>1
          <5>3. CASE i = n + 1 /\ j \in 1 .. n
            <6>1. t[j] = s[j] /\ t[i] = e
              BY <2>4, <5>3
            <6> QED  BY <2>2, <4>2, <4>5, <5>3, <6>1
          <5> QED  BY <2>8, <4>1, <5>1, <5>2, <5>3
        <4> QED  BY <4>1, <4>4, <4>5
      <3>2. CASE r # role
        <4>1. waiting'[r] = waiting[r]
          BY <2>6, <3>2
        <4>2. RoleOf(waiting[r][i].who) = r /\ (waiting[r][i].live => at[waiting[r][i].who] = "parked") /\ waiting[r][i].who \in Socket
          BY <4>1, QueueOf DEF Entries
        <4>3. waiting[r][i].live => at'[waiting[r][i].who] = "parked"
          BY <2>7, <4>2
        <4>4. \A j \in 1 .. Len(waiting[r]) :
                waiting[r][i].live /\ waiting[r][j].live /\ waiting[r][i].who = waiting[r][j].who => i = j
          BY <4>1 DEF Entries
        <4> QED  BY <4>1, <4>2, <4>3, <4>4
      <3> QED  BY <3>1, <3>2
    <2>10. \A y \in Channel : at'[y] \notin {"paired", "ended"}
      BY <1>1, <2>7, Roles
    <2>11. at[Watched] \in {"paired", "ended"} => at'[Watched] = at[Watched]
      BY <1>2, <2>7, Roles
    <2>12. at'[Watched] = "idle" => at[Watched] = "idle"
      BY <2>7, Roles
    <2> QED  BY <2>6, <2>7, <2>9, <2>10, <2>11, <2>12 DEF PairingMoves
  <1> QED  BY <1>3, <1>4

LEMMA GiveUpMoves ==
  ASSUME TailTyped, Entries, NEW x \in Socket, GiveUp(x)
  PROVE  PairingMoves
  <1>1. /\ at \in [Socket -> Places] /\ waiting \in [Role -> Seq([who : Socket, live : BOOLEAN])]
        /\ \A y \in Channel : at[y] \notin {"paired", "ended"}
    BY DEF TailTyped
  <1>2. at[x] = "parked" /\ at' = [at EXCEPT ![x] = After(x)] /\ After(x) \in Places
        /\ (x \in Channel => After(x) = "idle") /\ (x = Watched => After(x) = "ended")
    BY Roles DEF GiveUp, Places
  <1>3. PICK role, s, n : role = RoleOf(x) /\ s = waiting[role] /\ n = Len(s)
    OBVIOUS
  <1>4. role \in Role /\ s \in Seq(Queued) /\ n \in Nat /\ DOMAIN s = 1 .. n
        /\ \A i \in 1 .. n : s[i] \in Queued /\ s[i].who \in Socket
    BY <1>3, Roles, QueueOf, LenProperties
  <1>5. PICK t : t = [i \in 1 .. n |-> IF s[i].who = x THEN [s[i] EXCEPT !.live = FALSE] ELSE s[i]]
    OBVIOUS
  <1>6. t \in Seq(Queued) /\ Len(t) = n /\ \A i \in 1 .. n : t[i].who = s[i].who /\ (t[i].live => s[i].live /\ s[i].who # x)
    <2>1. \A i \in 1 .. n : t[i] \in Queued /\ t[i].who = s[i].who /\ (t[i].live => s[i].live /\ s[i].who # x)
      BY <1>4, <1>5 DEF Queued
    <2>2. t \in [1 .. n -> Queued]
      BY <1>5, <2>1
    <2> QED  BY <1>4, <2>1, <2>2
  <1>7. waiting' = [waiting EXCEPT ![role] = t]
    BY <1>1, <1>3, <1>4, <1>5 DEF GiveUp
  <1>8. waiting'[role] = t /\ (\A r \in Role : r # role => waiting'[r] = waiting[r])
        /\ waiting' \in [Role -> Seq([who : Socket, live : BOOLEAN])]
    BY <1>1, <1>4, <1>6, <1>7 DEF Queued
  <1>9. at' \in [Socket -> Places] /\ (\A y \in Socket : at'[y] = IF y = x THEN After(x) ELSE at[y])
    BY <1>1, <1>2
  <1>10. Entries'
    <2> SUFFICES ASSUME NEW r \in Role, NEW i \in 1 .. Len(waiting'[r])
                 PROVE  /\ RoleOf(waiting'[r][i].who) = r
                        /\ waiting'[r][i].live => at'[waiting'[r][i].who] = "parked"
                        /\ \A j \in 1 .. Len(waiting'[r]) :
                             waiting'[r][i].live /\ waiting'[r][j].live /\ waiting'[r][i].who = waiting'[r][j].who => i = j
      BY DEF Entries
    <2>1. CASE r = role
      <3>1. waiting'[r] = t /\ i \in 1 .. n /\ s[i].who \in Socket
        BY <1>4, <1>6, <1>8, <2>1
      <3>2. RoleOf(s[i].who) = r /\ (s[i].live => at[s[i].who] = "parked")
        BY <1>3, <1>4, <2>1, <3>1 DEF Entries
      <3>3. \A j \in 1 .. n : s[i].live /\ s[j].live /\ s[i].who = s[j].who => i = j
        BY <1>3, <1>4, <3>1 DEF Entries
      <3>4. t[i].live => at'[s[i].who] = "parked"
        BY <1>6, <1>9, <3>1, <3>2
      <3>5. \A j \in 1 .. n : t[i].live /\ t[j].live /\ t[i].who = t[j].who => i = j
        BY <1>6, <3>1, <3>3
      <3> QED  BY <1>6, <3>1, <3>2, <3>4, <3>5
    <2>2. CASE r # role
      <3>1. waiting'[r] = waiting[r]
        BY <1>8, <2>2
      <3>2. RoleOf(waiting[r][i].who) = r /\ (waiting[r][i].live => at[waiting[r][i].who] = "parked") /\ waiting[r][i].who \in Socket
        BY <3>1, QueueOf DEF Entries
      <3>3. waiting[r][i].who # x
        BY <1>3, <2>2, <3>2
      <3>4. waiting[r][i].live => at'[waiting[r][i].who] = "parked"
        BY <1>9, <3>2, <3>3
      <3>5. \A j \in 1 .. Len(waiting[r]) :
              waiting[r][i].live /\ waiting[r][j].live /\ waiting[r][i].who = waiting[r][j].who => i = j
        BY <3>1 DEF Entries
      <3> QED  BY <3>1, <3>2, <3>4, <3>5
    <2> QED  BY <2>1, <2>2
  <1>11. \A y \in Channel : at'[y] \notin {"paired", "ended"}
    BY <1>1, <1>2, <1>9, Roles
  <1>12. at[Watched] \in {"paired", "ended"} => at'[Watched] = at[Watched]
    BY <1>2, <1>9, Roles
  <1>13. at'[Watched] = "idle" => at[Watched] = "idle"
    BY <1>2, <1>9, Roles
  <1> QED  BY <1>8, <1>9, <1>10, <1>11, <1>12, <1>13 DEF PairingMoves

LEMMA SessionMoves ==
  ASSUME TailTyped, Entries, SessionEnds
  PROVE  PairingMoves
  <1>1. at \in [Socket -> Places] /\ \A y \in Channel : at[y] \notin {"paired", "ended"}
    BY DEF TailTyped
  <1>2. at' = [y \in Socket |-> IF at[y] = "parked" THEN After(y) ELSE at[y]] /\ waiting' = [role \in Role |-> << >>]
    BY DEF SessionEnds
  <1>3. \A y \in Socket : at'[y] = IF at[y] = "parked" THEN After(y) ELSE at[y]
    BY <1>2
  <1>4. \A y \in Socket : After(y) \in Places
    BY Roles DEF Places
  <1>5. at' \in [Socket -> Places] /\ \A y \in Channel : at'[y] \notin {"paired", "ended"}
    BY <1>1, <1>2, <1>3, <1>4, Roles
  <1>6. \A r \in Role : waiting'[r] = << >> /\ Len(waiting'[r]) = 0
    BY <1>2
  <1>7. waiting' \in [Role -> Seq([who : Socket, live : BOOLEAN])]
    BY <1>2
  <1>8. Entries'
    BY <1>6 DEF Entries
  <1>9. at[Watched] \in {"paired", "ended"} => at'[Watched] = at[Watched]
    BY <1>3, Roles
  <1>10. at'[Watched] = "idle" => at[Watched] = "idle"
    BY <1>3, Roles
  <1> QED  BY <1>5, <1>7, <1>8, <1>9, <1>10 DEF PairingMoves

\* The pairing goes on among the other sockets, or the watched one waits still.
LEMMA Elsewhere ==
  ASSUME TailInv, PairingMoves, UNCHANGED <<pipe, up, down, hold, eof, wrote, got, late, closed>>,
         \A f \in {"paired", "ended"} : at'[Watched] = f <=> at[Watched] = f
  PROVE  TailInv'
  <1>1. (at'[Watched] = "paired" <=> at[Watched] = "paired") /\ (at'[Watched] = "ended" <=> at[Watched] = "ended")
    OBVIOUS
  <1>2. TailTyped' /\ Entries'
    BY DEF TailInv, TailTyped, PairingMoves
  <1>3. Met' <=> Met
    BY DEF Met
  <1>4. Stage'
    BY <1>1, <1>3 DEF TailInv, Stage, PairingMoves
  <1>5. \A d \in Device : Closing(d)' /\ Uplink(d)' /\ Downlink(d)'
    <2> TAKE d \in Device
    <2>1. Closing(d) /\ Uplink(d) /\ Downlink(d)
      BY DEF TailInv
    <2> QED  BY <1>1, <2>1 DEF Closing, Uplink, Downlink
  <1>6. \A d \in Device : Lives(d)' => Passage(d)'
    <2> TAKE d \in Device
    <2>1. Lives(d) => Passage(d)
      BY DEF TailInv
    <2>2. Lives(d)' => Lives(d)
      BY <1>1, <1>3 DEF Lives
    <2> QED  BY <1>1, <2>1, <2>2 DEF Passage
  <1> QED  BY <1>2, <1>4, <1>5, <1>6 DEF TailInv

LEMMA ToldKeeps ==
  ASSUME TailInv, PairingMoves, Told
  PROVE  TailInv'
  <1>1. UNCHANGED <<pipe, up, hold, eof, wrote, got, late, closed>>
    BY DEF Told
  <1>2. TailTyped /\ Stage /\ "near" \in Device /\ "far" \in Device /\ "near" # "far"
    BY TwoDevices DEF TailInv
  <1>3. CASE at[Watched] \in {"paired", "ended"} \/ at'[Watched] \notin {"paired", "ended"}
    <2>1. \A f \in {"paired", "ended"} : at'[Watched] = f <=> at[Watched] = f
      BY <1>3 DEF PairingMoves
    <2>2. down' = down
      BY <1>3, <2>1 DEF Told
    <2> QED  BY <1>1, <2>1, <2>2, Elsewhere
  <1>4. CASE at[Watched] \notin {"paired", "ended"} /\ at'[Watched] \in {"paired", "ended"}
    <2>1. pipe["far"].life = "none" /\ down["far"] = << >> /\ down["near"] = << >> /\ hold = "none" /\ eof = {} /\ ~Met
      BY <1>2, <1>4 DEF Stage, Met
    <2>2. ASSUME NEW d \in Device
          PROVE  /\ Closing(d) /\ Uplink(d) /\ Downlink(d) /\ pipe[d] \in Pipes /\ up[d] \in Seq(Frame)
                 /\ Closing(d)' /\ Uplink(d)'
      <3>1. Closing(d) /\ Uplink(d) /\ Downlink(d)
        BY DEF TailInv
      <3> QED  BY <1>1, <1>2, <3>1 DEF Closing, Uplink, TailTyped
    <2>3. pipe["far"].ws = "none" /\ ~pipe["far"].dropTcp /\ pipe["far"].ws # "gone"
      BY <1>2, <2>1, <2>2 DEF Closing, Shape, Empty
    <2>4. CASE at'[Watched] = "ended"
      <3>1. PICK v : v = Sent("near", "close")
        OBVIOUS
      <3>2. PICK f : f = "close"
        OBVIOUS
      <3>3. v = << >> \/ v = <<f>>
        BY <2>1, <3>1, <3>2 DEF Sent
      <3>4. <<f>> \in Seq(Frame) /\ InOrder(<<f>>) /\ ToSet(<<f>>) = {f}
        BY <3>2, LastFrames DEF Frame
      <3>5. v \in Seq(Frame) /\ InOrder(v) /\ ToSet(v) \subseteq {"close"}
        <4>1. CASE v = << >>
          BY <4>1, NoFrames
        <4>2. CASE v = <<f>>
          BY <3>2, <3>4, <4>2
        <4> QED  BY <3>3, <4>1, <4>2
      <3>6. down' = [down EXCEPT !["near"] = v]
        BY <1>4, <2>4, <3>1 DEF Told
      <3>7. down'["near"] = v /\ down'["far"] = down["far"] /\ down' \in [Device -> Seq(Frame)]
        BY <1>2, <3>5, <3>6 DEF TailTyped
      <3>8. ~Met'
        BY <1>1, <2>1, <3>7 DEF Met
      <3>9. TailTyped' /\ Entries'
        BY <1>1, <1>2, <3>7 DEF TailTyped, PairingMoves
      <3>10. Stage'
        BY <2>4 DEF Stage
      <3>11. Downlink("near")'
        BY <2>4, <3>5, <3>7, <1>2 DEF Downlink
      <3>12. Downlink("far")'
        <4>1. InOrder(down["far"]) /\ \A g : g \notin ToSet(down["far"])
          BY <2>1, NoFrames
        <4> QED  BY <1>1, <1>2, <2>1, <3>7, <4>1 DEF Downlink
      <3>13. \A d \in Device : ~Lives(d)'
        BY <2>4, <3>8 DEF Lives
      <3> QED  BY <2>2, <3>9, <3>10, <3>11, <3>12, <3>13, TwoDevices DEF TailInv
    <2>5. CASE at'[Watched] = "paired"
      <3>1. PICK f : f = "paired"
        OBVIOUS
      <3>2. PICK v : v = <<f>>
        OBVIOUS
      <3>3. v \in Seq(Frame) /\ InOrder(v) /\ ToSet(v) = {f} /\ Data(v) = One(f = "data")
        BY <3>1, <3>2, LastFrames DEF Frame
      <3>4. v # << >> /\ Head(v) = "paired"
        BY <3>1, <3>2
      <3>5. Data(v) = 0 /\ Data(down["far"]) = 0
        BY <2>1, <3>1, <3>3, NoFrames DEF One
      <3>6. down' = [down EXCEPT !["far"] = v]
        BY <1>4, <2>5, <3>1, <3>2 DEF Told
      <3>7. down'["far"] = v /\ down'["near"] = down["near"] /\ down' \in [Device -> Seq(Frame)]
        BY <1>2, <3>3, <3>6 DEF TailTyped
      <3>8. Met'
        BY <3>4, <3>7 DEF Met
      <3>9. TailTyped' /\ Entries'
        BY <1>1, <1>2, <3>7 DEF TailTyped, PairingMoves
      <3>10. Stage'
        BY <1>1, <2>5, <3>8 DEF Stage
      <3>11. Downlink("near")'
        <4>1. InOrder(down["near"]) /\ \A g : g \notin ToSet(down["near"])
          BY <2>1, NoFrames
        <4> QED  BY <1>2, <3>7, <4>1 DEF Downlink
      <3>12. Downlink("far")'
        BY <1>1, <1>2, <2>1, <3>1, <3>3, <3>4, <3>7 DEF Downlink
      <3>13. ASSUME NEW d \in Device, Lives(d)' PROVE Passage(d)'
        <4>1. Lives(d)
          BY <1>1, <1>4, <3>13 DEF Lives
        <4>2. Passage(d)
          BY <4>1 DEF TailInv
        <4>3. PICK e : e = Peer(d)
          OBVIOUS
        <4>4. e \in Device /\ Data(down'[e]) = Data(down[e])
          <5>1. e = "far" \/ e = "near"
            BY <4>3, TwoDevices
          <5> QED  BY <3>5, <3>7, <5>1, TwoDevices
        <4>5. wrote'[d] = Sends(pipe'[d]) + Data(up'[d]) + One(hold' = d) + Data(down'[e]) + Takes(pipe'[e]) + got'[e]
          BY <1>1, <4>2, <4>3, <4>4 DEF Passage
        <4>6. pipe[e].ws # "gone"
          BY <1>4, <4>2, <4>3 DEF Passage
        <4>7. pipe[e].life # "gone" /\ ~pipe[e].dropTcp
          BY <2>2, <4>4, <4>6 DEF Closing, Shape
        <4> QED  BY <1>1, <2>5, <4>3, <4>5, <4>6, <4>7 DEF Passage
      <3> QED  BY <2>2, <3>9, <3>10, <3>11, <3>12, <3>13, TwoDevices DEF TailInv
    <2> QED  BY <1>4, <2>4, <2>5
  <1> QED  BY <1>3, <1>4

\* A Pipe that was just made.
LEMMA BuiltIsEmpty ==
  ASSUME NEW tcp \in {"on", "opening"}, NEW ws \in {"on", "opening"}, NEW q, q = Built(tcp, ws)
  PROVE  /\ q \in Pipes /\ Shape(q) /\ Sends(q) = 0 /\ Takes(q) = 0 /\ ~q.dropTcp /\ ~Ended(q)
         /\ q.life = "on" /\ q.tcp = tcp /\ q.ws = ws
  <1>1. q = [life |-> "on", tcp |-> tcp, ws |-> ws, in |-> 0, toWs |-> 0, wsq |-> << >>,
             pend |-> 0, tcpq |-> 0, done |-> FALSE, sendEnd |-> FALSE, waitEnd |-> FALSE,
             dropTcp |-> FALSE, check |-> FALSE, timer |-> FALSE]
    BY DEF Built
  <1>2. 0 \in 0 .. HighWater
    BY DEF TunnelAssumption
  <1>3. q \in Pipes /\ Empty(q) /\ q.life = "on" /\ q.tcp = tcp /\ q.ws = ws /\ ~q.done
    BY <1>1, <1>2 DEF Pipes, Empty
  <1>4. Len(q.wsq) <= HighWater /\ InOrder(q.wsq) /\ "eof" \notin ToSet(q.wsq)
    BY <1>3, NoFrames, PipeFields DEF Empty
  <1>5. Shape(q) /\ ~Ended(q) /\ ~q.dropTcp
    BY <1>3, <1>4 DEF Shape, Empty, Left, Ended
  <1> QED  BY <1>3, <1>5, EmptyPipe

LEMMA DialsKeeps ==
  ASSUME TailInv, NEW x \in Socket, Dials(x)
  PROVE  TailInv'
  <1>1. TailTyped /\ Entries /\ Stage /\ "near" \in Device /\ "far" \in Device /\ "near" # "far"
    BY TwoDevices DEF TailInv
  <1>2. Dial(x) /\ UNCHANGED <<up, down, hold, eof, wrote, got, late, closed>>
    BY DEF Dials
  <1>3. at[x] = "idle" /\ at' = [at EXCEPT ![x] = "dialing"] /\ waiting' = waiting
    BY <1>2 DEF Dial
  <1>4. \A y \in Socket : at'[y] = IF y = x THEN "dialing" ELSE at[y]
    BY <1>1, <1>3 DEF TailTyped
  <1>5. CASE x # Watched
    <2>1. PairingMoves /\ pipe' = pipe
      BY <1>1, <1>2, <1>5, DialMoves DEF Dials
    <2>2. \A f \in {"paired", "ended"} : at'[Watched] = f <=> at[Watched] = f
      BY <1>4, <1>5, Roles
    <2> QED  BY <1>2, <2>1, <2>2, Elsewhere
  <1>6. CASE x = Watched
    <2>1. PICK q : q = Built("on", "opening")
      OBVIOUS
    <2>2. pipe' = [pipe EXCEPT !["near"] = q]
      BY <1>6, <2>1 DEF Dials
    <2>3. /\ q \in Pipes /\ Shape(q) /\ Sends(q) = 0 /\ Takes(q) = 0 /\ ~q.dropTcp
          /\ q.life = "on" /\ q.tcp = "on" /\ q.ws = "opening"
      BY <2>1, BuiltIsEmpty
    <2>8. /\ pipe["near"].life = "none" /\ ~Met /\ hold = "none" /\ eof = {} /\ down["near"] = << >>
          /\ at[Watched] = "idle" /\ at'[Watched] = "dialing"
      BY <1>1, <1>3, <1>4, <1>6, Roles DEF Stage
    <2>9. pipe'["near"] = q /\ pipe'["far"] = pipe["far"] /\ pipe' \in [Device -> Pipes]
      BY <1>1, <2>2, <2>3 DEF TailTyped
    <2>10. Closing("near") /\ Uplink("near") /\ Downlink("near") /\ Closing("far") /\ Uplink("far") /\ Downlink("far")
      BY <1>1 DEF TailInv
    <2>11. TailTyped' /\ Entries'
      <3>1. at' \in [Socket -> Places] /\ \A y \in Channel : at'[y] \notin {"paired", "ended"}
        BY <1>1, <1>3, <1>4, Roles DEF TailTyped, Places
      <3>2. TailTyped'
        BY <1>1, <1>2, <1>3, <2>9, <3>1 DEF TailTyped
      <3>3. \A r \in Role : \A i \in 1 .. Len(waiting[r]) : waiting[r][i].who \in Socket
        BY <1>1, QueueOf
      <3>4. \A y \in Socket : at[y] = "parked" => at'[y] = "parked"
        BY <1>3, <1>4
      <3>5. Entries'
        BY <1>1, <1>3, <3>3, <3>4 DEF Entries
      <3> QED  BY <3>2, <3>5
    <2>12. ~Met'
      BY <1>2, <2>8, <2>9 DEF Met
    <2>13. Stage'
      BY <1>2, <2>8, <2>12 DEF Stage
    <2>14. Closing("near")'
      <3>1. pipe["near"].tcp = "none" /\ closed["near"] = "no"
        BY <2>8, <2>10 DEF Closing, Shape
      <3> QED  BY <1>2, <2>3, <2>9, <3>1 DEF Closing
    <2>15. Uplink("near")'
      <3>1. ~("close" \in ToSet(up["near"])) /\ ~("eof" \in ToSet(up["near"]) \/ "near" \in eof)
        BY <2>8, <2>10 DEF Uplink, Closing, Shape, Empty, Ended
      <3> QED  BY <1>2, <2>10, <3>1 DEF Uplink
    <2>16. Downlink("near")'
      <3>1. \A f : f \notin ToSet(down["near"])
        BY <2>8, NoFrames
      <3> QED  BY <1>1, <1>2, <2>10, <3>1 DEF Downlink
    <2>17. Closing("far")' /\ Uplink("far")'
      BY <1>2, <2>9, <2>10 DEF Closing, Uplink
    <2>18. Downlink("far")'
      BY <1>2, <2>8, <2>9, <2>10 DEF Downlink
    <2>19. ASSUME NEW d \in Device, Lives(d)' PROVE Passage(d)'
      <3>0. pipe["near"] \in Pipes /\ pipe["near"].tcp = "none" /\ pipe["near"].ws = "none" /\ Empty(pipe["near"])
        BY <1>1, <2>8, <2>10 DEF TailTyped, Closing, Shape
      <3>1. Sends(pipe["near"]) = 0 /\ Takes(pipe["near"]) = 0
        BY <3>0, EmptyPipe
      <3>2. Lives(d)
        <4>1. pipe["near"].tcp # "refused" /\ (pipe'["far"].tcp = pipe["far"].tcp) /\ closed' = closed
          BY <1>2, <2>9, <3>0
        <4>2. CASE d = "near"
          BY <2>8, <2>19, <4>1, <4>2, TwoDevices DEF Lives
        <4>3. CASE d = "far"
          BY <2>8, <2>19, <4>1, <4>3, TwoDevices DEF Lives
        <4> QED  BY <4>2, <4>3, TwoDevices
      <3>3. Passage(d)
        BY <3>2 DEF TailInv
      <3>4. \A e \in Device : Sends(pipe'[e]) = Sends(pipe[e]) /\ Takes(pipe'[e]) = Takes(pipe[e])
        BY <2>3, <2>9, <3>1, TwoDevices
      <3>5. PICK e : e = Peer(d)
        OBVIOUS
      <3>6. e \in Device
        BY <3>5, TwoDevices
      <3>7. wrote'[d] = Sends(pipe'[d]) + Data(up'[d]) + One(hold' = d) + Data(down'[e]) + Takes(pipe'[e]) + got'[e]
        BY <1>2, <3>3, <3>4, <3>5, <3>6 DEF Passage
      <3>8. pipe[e].ws # "gone"
        BY <2>8, <3>3, <3>5 DEF Passage
      <3>9. pipe'[e].ws # "gone" /\ pipe'[e].life # "gone" /\ ~pipe'[e].dropTcp
        <4>1. CASE e = "near"
          BY <2>3, <2>9, <4>1
        <4>2. CASE e = "far"
          BY <2>9, <2>10, <3>8, <4>2 DEF Closing, Shape
        <4> QED  BY <3>6, <4>1, <4>2, TwoDevices
      <3> QED  BY <2>8, <3>5, <3>7, <3>9 DEF Passage
    <2> QED  BY <2>11, <2>13, <2>14, <2>15, <2>16, <2>17, <2>18, <2>19, TwoDevices DEF TailInv
  <1> QED  BY <1>5, <1>6

LEMMA WsPairedKeeps ==
  ASSUME TailInv, WsPaired
  PROVE  TailInv'
  <1>1. TailTyped /\ Entries /\ Stage /\ "near" \in Device /\ "far" \in Device /\ "near" # "far"
        /\ Closing("near") /\ Uplink("near") /\ Downlink("near") /\ Closing("far") /\ Uplink("far") /\ Downlink("far")
    BY TwoDevices DEF TailInv
  <1>2. PICK p, q, s, v : p = pipe["far"] /\ q = Built("opening", "on") /\ s = down["far"] /\ v = Tail(s)
    OBVIOUS
  <1>3. /\ q \in Pipes /\ Shape(q) /\ Sends(q) = 0 /\ Takes(q) = 0 /\ ~q.dropTcp /\ ~Ended(q)
        /\ q.life = "on" /\ q.tcp = "opening" /\ q.ws = "on"
    BY <1>2, BuiltIsEmpty
  <1>4. /\ p.life = "none" /\ s # << >> /\ Head(s) = "paired" /\ down' = [down EXCEPT !["far"] = v]
        /\ Become("far", q) /\ UNCHANGED <<at, waiting, hold, eof, wrote, got, late, closed>>
    BY <1>2 DEF WsPaired, Rest, pairing
  <1>5. pipe' = [pipe EXCEPT !["far"] = q] /\ up' = up
    BY <1>3, <1>4 DEF Become
  <1>6. s \in Seq(Frame) /\ InOrder(s) /\ p \in Pipes
    BY <1>1, <1>2 DEF TailTyped, Downlink
  <1>7. v \in Seq(Frame) /\ InOrder(v) /\ ToSet(s) = ToSet(v) \cup {Head(s)} /\ "paired" \notin ToSet(v)
    BY <1>2, <1>4, <1>6, Removed1
  <1>8. Data(v) = Data(s)
    <2>1. Data(v) = Data(s) - One(Head(s) = "data")
      BY <1>2, <1>4, <1>6, Removed1
    <2>2. One(Head(s) = "data") = 0 /\ Data(s) \in Int
      BY <1>4, <1>6, FramesOf DEF One
    <2> QED  BY <2>1, <2>2
  <1>9. /\ pipe'["far"] = q /\ pipe'["near"] = pipe["near"] /\ down'["far"] = v /\ down'["near"] = down["near"]
        /\ pipe' \in [Device -> Pipes] /\ down' \in [Device -> Seq(Frame)]
    BY <1>1, <1>3, <1>4, <1>5, <1>7 DEF TailTyped
  <1>10. p.ws = "none" /\ p.tcp = "none" /\ Empty(p) /\ Sends(p) = 0 /\ Takes(p) = 0 /\ closed["far"] = "no"
    <2>1. p.ws = "none" /\ p.tcp = "none" /\ Empty(p) /\ closed["far"] = "no"
      BY <1>1, <1>2, <1>4 DEF Closing, Shape
    <2> QED  BY <1>6, <2>1, EmptyPipe
  <1>11. Met /\ Met'
    BY <1>2, <1>3, <1>4, <1>9 DEF Met
  <1>12. TailTyped' /\ Entries' /\ Stage'
    BY <1>1, <1>4, <1>5, <1>9, <1>11 DEF TailTyped, Entries, Stage
  <1>13. Closing("far")' /\ Closing("near")'
    BY <1>1, <1>3, <1>4, <1>9, <1>10 DEF Closing
  <1>14. Uplink("far")' /\ Uplink("near")'
    <2>1. ~("close" \in ToSet(up["far"])) /\ ~("eof" \in ToSet(up["far"]) \/ "far" \in eof)
      BY <1>1, <1>2, <1>4, <1>10 DEF Uplink, Empty, Ended
    <2>2. Uplink("far")'
      BY <1>1, <1>4, <1>5, <2>1 DEF Uplink
    <2>3. Uplink("near")'
      BY <1>1, <1>4, <1>5, <1>9 DEF Uplink
    <2> QED  BY <2>2, <2>3
  <1>15. Downlink("far")' /\ Downlink("near")'
    <2>1. "eof" \notin ToSet(v) /\ ("close" \in ToSet(v) => at[Watched] = "ended")
      BY <1>1, <1>2, <1>7 DEF Downlink
    <2>2. Downlink("far")'
      BY <1>3, <1>4, <1>7, <1>9, <2>1 DEF Downlink
    <2>3. Downlink("near")'
      BY <1>1, <1>4, <1>9 DEF Downlink
    <2> QED  BY <2>2, <2>3
  <1>16. ASSUME NEW d \in Device, Lives(d)' PROVE Passage(d)'
    <2>1. Lives(d)
      <3>1. \A e \in Device : pipe[e].tcp = "refused" => pipe'[e].tcp = "refused"
        BY <1>2, <1>9, <1>10, TwoDevices
      <3> QED  BY <1>4, <1>11, <1>16, <3>1, TwoDevices DEF Lives
    <2>2. Passage(d)
      BY <2>1 DEF TailInv
    <2>3. PICK e : e = Peer(d)
      OBVIOUS
    <2>4. e \in Device /\ ((d = "near" /\ e = "far") \/ (d = "far" /\ e = "near"))
      <3>1. d = "near" => e = "far"
        BY <2>3, TwoDevices
      <3>2. d = "far" => e = "near"
        BY <2>3, TwoDevices
      <3> QED  BY <2>3, <3>1, <3>2, TwoDevices
    <2>5. Sends(pipe'[d]) = Sends(pipe[d]) /\ Takes(pipe'[e]) = Takes(pipe[e]) /\ Data(down'[e]) = Data(down[e])
      BY <1>2, <1>3, <1>8, <1>9, <1>10, <2>4
    <2>6. wrote'[d] = Sends(pipe'[d]) + Data(up'[d]) + One(hold' = d) + Data(down'[e]) + Takes(pipe'[e]) + got'[e]
      BY <1>4, <1>5, <2>2, <2>3, <2>5 DEF Passage
    <2>7. at[Watched] = "ended" => pipe'[d].life = "gone" /\ Data(up'[d]) = 0 /\ hold' # d
      <3>1. at[Watched] = "ended" => pipe[d].life = "gone" /\ Data(up[d]) = 0 /\ hold # d
        BY <2>2 DEF Passage
      <3>2. pipe[d].life = "gone" => pipe'[d].life = "gone"
        BY <1>2, <1>4, <1>9, <2>4
      <3> QED  BY <1>4, <1>5, <3>1, <3>2
    <2>8. /\ pipe'[e].ws = "gone" => at[Watched] = "ended"
          /\ pipe'[e].life = "gone" => Unparsed(down'[e]) /\ (down'[e] # << >> => e \in late')
          /\ pipe'[e].dropTcp => Unparsed(down'[e]) /\ (down'[e] # << >> => pipe'[e].check)
      <3>1. CASE e = "far"
        BY <1>3, <1>9, <3>1
      <3>2. CASE e = "near"
        BY <1>4, <1>9, <2>2, <2>3, <3>2 DEF Passage
      <3> QED  BY <2>4, <3>1, <3>2
    <2> QED  BY <1>4, <2>3, <2>6, <2>7, <2>8 DEF Passage
  <1> QED  BY <1>12, <1>13, <1>14, <1>15, <1>16, TwoDevices DEF TailInv
-----------------------------------------------------------------------------
(* pump()                                                                  *)

\* While the pump runs, a frame reaches a socket unless its device has let it go.
LEMMA SentKeeps ==
  ASSUME TailInv, at[Watched] = "paired", NEW e \in Device, NEW f \in {"data", "close"}, NEW v, v = Sent(e, f)
  PROVE  /\ v \in Seq(Frame) /\ InOrder(v) /\ "eof" \notin ToSet(v) /\ ToSet(v) \subseteq ToSet(down[e]) \cup {f}
         /\ e = "far" /\ pipe[e].life = "none" => v # << >> /\ Head(v) = "paired"
         /\ pipe[e].ws # "gone" /\ f = "data" => Data(v) = Data(down[e]) + 1
         /\ pipe[e].ws # "gone" /\ f = "close" => Data(v) = Data(down[e])
         /\ pipe[e].ws # "gone" => v # << >>
         /\ down[e] # << >> => v # << >>
  <1>1. PICK s, t : s = down[e] /\ t = Append(s, f)
    OBVIOUS
  <1>2. s \in Seq(Frame) /\ Downlink(e) /\ Stage /\ f \in Frame
    BY <1>1 DEF TailInv, TailTyped, Frame
  <1>3. InOrder(s) /\ "eof" \notin ToSet(s) /\ "close" \notin ToSet(s)
    BY <1>1, <1>2 DEF Downlink
  <1>4. e = "far" /\ pipe[e].life = "none" => s # << >> /\ Head(s) = "paired"
    BY <1>1, <1>2 DEF Downlink, Stage, Met
  <1>5. s # << >> => Last(s) # "close"
    <2>1. ASSUME s # << >> PROVE Last(s) \in ToSet(s)
      <3>1. PICK n : n = Len(s)
        OBVIOUS
      <3>2. n \in Nat /\ n # 0 /\ Last(s) = s[n]
        BY <1>2, <2>1, <3>1, LenProperties, EmptySeq DEF Last
      <3>3. n \in 1 .. n
        BY <3>2
      <3> QED  BY <1>2, <3>1, <3>2, <3>3, FramesOf
    <2> QED  BY <1>3, <2>1
  <1>6. v = IF pipe[e].ws = "gone" THEN s ELSE t
    BY <1>1, <1>5 DEF Sent, GoneFor
  <1>7. t \in Seq(Frame) /\ ToSet(t) = ToSet(s) \cup {f} /\ t # << >>
    BY <1>1, <1>2, Appended
  <1>8. Head(t) = IF s = << >> THEN f ELSE Head(s)
    BY <1>1, <1>2, Appended
  <1>9. InOrder(t)
    BY <1>1, <1>2, <1>3, Appended
  <1>10. f = "data" => Data(t) = Data(s) + 1
    BY <1>1, <1>2, Appended
  <1>11. f = "close" => Data(t) = Data(s)
    <2>1. f = "close" => f # "data" /\ f \notin ToSet(s)
      BY <1>3
    <2> QED  BY <1>1, <1>2, <2>1, Appended
  <1>12. CASE pipe[e].ws = "gone"
    BY <1>1, <1>2, <1>3, <1>4, <1>6, <1>12
  <1>13. CASE pipe[e].ws # "gone"
    <2>1. v = t
      BY <1>6, <1>13
    <2>2. "eof" \notin ToSet(t)
      BY <1>3, <1>7
    <2> QED  BY <1>1, <1>4, <1>7, <1>8, <1>9, <1>10, <1>11, <1>13, <2>1, <2>2
  <1> QED  BY <1>12, <1>13

\* While the pump runs, what d writes finds the other Pipe with its WebSocket.
LEMMA OtherOpen ==
  ASSUME TailInv, at[Watched] = "paired", NEW d \in Device, Lives(d)
  PROVE  pipe[Peer(d)].ws # "gone" /\ pipe[Peer(d)].life # "gone" /\ ~pipe[Peer(d)].dropTcp
  <1>1. Passage(d) /\ Closing(Peer(d))
    BY TwoDevices DEF TailInv
  <1>2. pipe[Peer(d)].ws # "gone"
    BY <1>1 DEF Passage
  <1> QED  BY <1>1, <1>2 DEF Closing, Shape

LEMMA PicksUpKeeps ==
  ASSUME TailInv, NEW x \in Device, PicksUp(x)
  PROVE  TailInv'
  <1>1. PICK s, t, y : s = up[x] /\ t = Tail(s) /\ y = Peer(x)
    OBVIOUS
  <1>2. /\ at[Watched] = "paired" /\ hold = "none" /\ s # << >> /\ Head(s) = "data" /\ x \notin eof
        /\ up' = [up EXCEPT ![x] = t] /\ hold' = x
        /\ UNCHANGED <<at, waiting, pipe, down, eof, wrote, got, late, closed>>
    BY <1>1 DEF PicksUp, Polls, pairing
  <1>3. y \in Device /\ y # x /\ Peer(y) = x /\ (\A d \in Device : d = x \/ d = y) /\ x # "none" /\ y # "none"
    BY <1>1, TwoDevices
  <1>4. TailTyped /\ Stage /\ Entries /\ Uplink(x) /\ Uplink(y)
    BY <1>3 DEF TailInv
  <1>5. s \in Seq(Frame) /\ InOrder(s)
    BY <1>1, <1>4 DEF TailTyped, Uplink
  <1>6. t \in Seq(Frame) /\ InOrder(t) /\ ToSet(s) = ToSet(t) \cup {Head(s)}
    BY <1>1, <1>2, <1>5, Removed1
  <1>7. Data(t) = Data(s) - 1
    <2>1. Data(t) = Data(s) - One(Head(s) = "data")
      BY <1>1, <1>2, <1>5, Removed1
    <2> QED  BY <1>2, <2>1 DEF One
  <1>8. up'[x] = t /\ up'[y] = up[y] /\ up' \in [Device -> Seq(Frame)]
    BY <1>2, <1>3, <1>4, <1>6 DEF TailTyped
  <1>9. TailTyped' /\ Entries' /\ Stage'
    BY <1>2, <1>4, <1>8 DEF TailTyped, Entries, Stage, Met
  <1>10. \A d \in Device : Closing(d)' /\ Downlink(d)'
    BY <1>2 DEF TailInv, Closing, Downlink
  <1>11. Uplink(x)'
    BY <1>1, <1>2, <1>4, <1>6, <1>8 DEF Uplink
  <1>12. Uplink(y)'
    BY <1>2, <1>3, <1>4, <1>8 DEF Uplink
  <1>13. ASSUME NEW d \in Device, Lives(d)' PROVE Passage(d)'
    <2>1. Lives(d)
      BY <1>2, <1>13 DEF Lives, Met
    <2>2. Passage(d)
      BY <2>1 DEF TailInv
    <2>3. Data(up'[d]) + One(hold' = d) = Data(up[d]) + One(hold = d)
      <3>1. CASE d = x
        BY <1>1, <1>2, <1>3, <1>4, <1>7, <1>8, <3>1, NumbersOf DEF One
      <3>2. CASE d = y
        BY <1>2, <1>3, <1>8, <3>2 DEF One
      <3> QED  BY <1>3, <3>1, <3>2
    <2>4. wrote'[d] = Sends(pipe'[d]) + Data(up'[d]) + One(hold' = d) + Data(down'[Peer(d)]) + Takes(pipe'[Peer(d)]) + got'[Peer(d)]
      <3>1. PICK e : e = Peer(d)
        OBVIOUS
      <3>2. PICK a1, a2, a3, b2, b3, a4, a5, a6 :
              /\ a1 = Sends(pipe[d]) /\ a2 = Data(up[d]) /\ a3 = One(hold = d) /\ b2 = Data(up'[d]) /\ b3 = One(hold' = d)
              /\ a4 = Data(down[e]) /\ a5 = Takes(pipe[e]) /\ a6 = got[e]
        OBVIOUS
      <3>3. a1 \in Int /\ a2 \in Int /\ a3 \in Int /\ a4 \in Int /\ a5 \in Int /\ a6 \in Int
        BY <1>4, <3>1, <3>2, NumbersOf, TwoDevices
      <3>4. b2 \in Int /\ b3 \in Int
        BY <1>9, <3>2, FramesOf DEF TailTyped, One
      <3>5. wrote[d] = a1 + a2 + a3 + a4 + a5 + a6 /\ b2 + b3 = a2 + a3
        BY <2>2, <2>3, <3>1, <3>2 DEF Passage
      <3>6. wrote[d] = a1 + b2 + b3 + a4 + a5 + a6
        BY <3>3, <3>4, <3>5
      <3> QED  BY <1>2, <3>1, <3>2, <3>6
    <2> QED  BY <1>2, <2>2, <2>4 DEF Passage
  <1> QED  BY <1>3, <1>9, <1>10, <1>11, <1>12, <1>13 DEF TailInv

LEMMA SendsOnKeeps ==
  ASSUME TailInv, SendsOn
  PROVE  TailInv'
  <1>1. PICK x, to, v, s : x = hold /\ to = Peer(x) /\ s = down[to] /\ v = Sent(to, "data")
    OBVIOUS
  <1>2. TailTyped /\ Stage /\ Entries
    BY DEF TailInv
  <1>3. /\ at[Watched] = "paired" /\ hold = x /\ x # "none" /\ down' = [down EXCEPT ![to] = v] /\ hold' = "none"
        /\ UNCHANGED <<at, waiting, pipe, up, eof, wrote, got, late, closed>>
    BY <1>1 DEF SendsOn, pairing
  <1>4. x \in Device /\ to \in Device /\ to # x /\ Peer(to) = x /\ (\A d \in Device : d = x \/ d = to) /\ "none" \notin Device
    BY <1>1, <1>2, <1>3, TwoDevices DEF TailTyped, Device
  <1>5. PICK f : f = "data"
    OBVIOUS
  <1>6. /\ v \in Seq(Frame) /\ InOrder(v) /\ "eof" \notin ToSet(v) /\ ToSet(v) \subseteq ToSet(s) \cup {"data"}
        /\ to = "far" /\ pipe[to].life = "none" => v # << >> /\ Head(v) = "paired"
        /\ pipe[to].ws # "gone" => Data(v) = Data(s) + 1
        /\ s # << >> => v # << >>
    <2>1. f \in {"data", "close"} /\ v = Sent(to, f) /\ f = "data"
      BY <1>1, <1>5
    <2> QED  BY <1>1, <1>3, <1>4, <2>1, SentKeeps
  <1>7. down'[to] = v /\ down'[x] = down[x] /\ down' \in [Device -> Seq(Frame)]
    BY <1>2, <1>3, <1>4, <1>6 DEF TailTyped
  <1>8. Met /\ Met'
    <2>1. Met
      BY <1>2, <1>3 DEF Stage
    <2>2. down["far"] # << >> => down'["far"] # << >>
      BY <1>1, <1>4, <1>6, <1>7, TwoDevices
    <2> QED  BY <1>3, <2>1, <2>2 DEF Met
  <1>9. TailTyped' /\ Entries' /\ Stage'
    BY <1>2, <1>3, <1>7, <1>8 DEF TailTyped, Entries, Stage
  <1>10. \A d \in Device : Closing(d)' /\ Uplink(d)'
    <2> TAKE d \in Device
    <2>1. Closing(d) /\ Uplink(d)
      BY DEF TailInv
    <2> QED  BY <1>3, <1>4, <2>1 DEF Closing, Uplink
  <1>11. Downlink(to)'
    <2>1. Downlink(to)
      BY <1>4 DEF TailInv
    <2>2. ("close" \in ToSet(v) => "close" \in ToSet(s)) /\ ("paired" \in ToSet(v) => "paired" \in ToSet(s))
      BY <1>6
    <2> QED  BY <1>1, <1>3, <1>6, <1>7, <2>1, <2>2 DEF Downlink
  <1>12. Downlink(x)'
    <2>1. Downlink(x)
      BY <1>4 DEF TailInv
    <2> QED  BY <1>3, <1>7, <2>1 DEF Downlink
  <1>13. ASSUME NEW d \in Device, Lives(d)' PROVE Passage(d)'
    <2>1. Lives(d)
      BY <1>3, <1>8, <1>13 DEF Lives
    <2>2. Passage(d)
      BY <2>1 DEF TailInv
    <2>3. PICK e : e = Peer(d)
      OBVIOUS
    <2>4. e \in Device /\ pipe[e].ws # "gone" /\ pipe[e].life # "gone" /\ ~pipe[e].dropTcp
      BY <1>3, <2>1, <2>3, OtherOpen, TwoDevices
    <2>5. One(hold' = d) + Data(down'[e]) = One(hold = d) + Data(down[e])
      <3>1. CASE d = x
        <4>1. e = to
          BY <1>1, <2>3, <3>1
        <4>2. One(hold = d) = 1 /\ One(hold' = d) = 0
          BY <1>3, <1>4, <3>1 DEF One
        <4>3. Data(down'[e]) = Data(down[e]) + 1 /\ Data(down[e]) \in Int
          BY <1>1, <1>2, <1>6, <1>7, <2>4, <4>1, NumbersOf
        <4> QED  BY <4>2, <4>3
      <3>2. CASE d = to
        <4>1. e = x /\ down'[e] = down[e]
          BY <1>4, <1>7, <2>3, <3>2
        <4>2. One(hold = d) = 0 /\ One(hold' = d) = 0
          BY <1>3, <1>4, <3>2 DEF One
        <4> QED  BY <4>1, <4>2
      <3> QED  BY <1>4, <3>1, <3>2
    <2>6. wrote'[d] = Sends(pipe'[d]) + Data(up'[d]) + One(hold' = d) + Data(down'[e]) + Takes(pipe'[e]) + got'[e]
      <3>1. PICK a1, a2, a3, b3, b4, a4, a5, a6 :
              /\ a1 = Sends(pipe[d]) /\ a2 = Data(up[d]) /\ a3 = One(hold = d) /\ b3 = One(hold' = d) /\ b4 = Data(down'[e])
              /\ a4 = Data(down[e]) /\ a5 = Takes(pipe[e]) /\ a6 = got[e]
        OBVIOUS
      <3>2. a1 \in Int /\ a2 \in Int /\ a3 \in Int /\ a4 \in Int /\ a5 \in Int /\ a6 \in Int
        BY <1>2, <2>4, <3>1, NumbersOf
      <3>3. b3 \in Int /\ b4 \in Int
        BY <1>9, <2>4, <3>1, FramesOf DEF TailTyped, One
      <3>4. wrote[d] = a1 + a2 + a3 + a4 + a5 + a6 /\ b3 + b4 = a3 + a4
        BY <2>2, <2>3, <2>5, <3>1 DEF Passage
      <3>5. wrote[d] = a1 + a2 + b3 + b4 + a5 + a6
        BY <3>2, <3>3, <3>4
      <3> QED  BY <1>3, <3>1, <3>5
    <2> QED  BY <1>3, <2>3, <2>4, <2>6 DEF Passage
  <1> QED  BY <1>4, <1>9, <1>10, <1>11, <1>12, <1>13 DEF TailInv

\* The pump's task ends: nobody who is queued has moved.
LEMMA PumpEnded ==
  ASSUME TailTyped, Entries, PumpEnds(Watched)
  PROVE  /\ at' \in [Socket -> Places] /\ (\A x \in Channel : at'[x] \notin {"paired", "ended"})
         /\ waiting' = waiting /\ Entries' /\ at[Watched] = "paired" /\ at'[Watched] = "ended"
  <1>1. at[Watched] = "paired" /\ at' = [at EXCEPT ![Watched] = "ended"] /\ waiting' = waiting
    BY DEF PumpEnds
  <1>2. /\ \A y \in Socket : at'[y] = IF y = Watched THEN "ended" ELSE at[y]
        /\ at' \in [Socket -> Places]
    BY <1>1, Roles DEF TailTyped, Places
  <1>3. \A x \in Channel : at'[x] \notin {"paired", "ended"}
    BY <1>2, Roles DEF TailTyped
  <1>4. Entries'
    <2>1. \A r \in Role : \A i \in 1 .. Len(waiting[r]) : waiting[r][i].who \in Socket
      BY QueueOf
    <2>2. \A y \in Socket : at[y] = "parked" => at'[y] = "parked"
      BY <1>1, <1>2
    <2> QED  BY <1>1, <2>1, <2>2 DEF Entries
  <1> QED  BY <1>1, <1>2, <1>3, <1>4, Roles

\* pump() is over and both sockets are closed.
LEMMA PumpEndsMoves ==
  ASSUME TailInv, PumpEnds(Watched), down' = Shut
  PROVE  /\ at' \in [Socket -> Places] /\ (\A x \in Channel : at'[x] \notin {"paired", "ended"})
         /\ waiting' = waiting /\ Entries' /\ at[Watched] = "paired" /\ at'[Watched] = "ended"
         /\ down' \in [Device -> Seq(Frame)]
         /\ \A d \in Device : /\ InOrder(down'[d]) /\ "eof" \notin ToSet(down'[d])
                              /\ "paired" \in ToSet(down'[d]) => "paired" \in ToSet(down[d])
                              /\ d = "far" /\ pipe[d].life = "none" => Head(down'[d]) = "paired"
                              /\ pipe[d].ws # "gone" => Data(down'[d]) = Data(down[d])
  <1>1. /\ at' \in [Socket -> Places] /\ (\A x \in Channel : at'[x] \notin {"paired", "ended"})
        /\ waiting' = waiting /\ Entries' /\ at[Watched] = "paired" /\ at'[Watched] = "ended"
    BY PumpEnded DEF TailInv
  <1>2. PICK f : f = "close"
    OBVIOUS
  <1>3. \A d \in Device : down'[d] = Sent(d, f)
    BY <1>2 DEF Shut
  <1>4. ASSUME NEW d \in Device
        PROVE  /\ down'[d] \in Seq(Frame) /\ InOrder(down'[d]) /\ "eof" \notin ToSet(down'[d])
               /\ "paired" \in ToSet(down'[d]) => "paired" \in ToSet(down[d])
               /\ d = "far" /\ pipe[d].life = "none" => Head(down'[d]) = "paired"
               /\ pipe[d].ws # "gone" => Data(down'[d]) = Data(down[d])
    <2>1. PICK v : v = down'[d]
      OBVIOUS
    <2>2. f \in {"data", "close"} /\ v = Sent(d, f)
      BY <1>2, <1>3, <2>1
    <2>3. v \in Seq(Frame) /\ InOrder(v) /\ "eof" \notin ToSet(v) /\ ToSet(v) \subseteq ToSet(down[d]) \cup {f}
      BY <1>1, <2>2, SentKeeps
    <2>4. d = "far" /\ pipe[d].life = "none" => Head(v) = "paired"
      BY <1>1, <2>2, SentKeeps
    <2>5. pipe[d].ws # "gone" => Data(v) = Data(down[d])
      BY <1>1, <1>2, <2>2, SentKeeps
    <2> QED  BY <1>2, <2>1, <2>3, <2>4, <2>5
  <1>5. down' \in [Device -> Seq(Frame)]
    <2>1. down' = [d \in Device |-> Sent(d, "close")]
      BY DEF Shut
    <2>2. \A d \in Device : Sent(d, "close") \in Seq(Frame)
      BY <1>2, <1>3, <1>4
    <2> QED  BY <2>1, <2>2
  <1> QED  BY <1>1, <1>4, <1>5

\* The next message of x is a mark: no chunk is lost with it.
LEMMA MarkRead ==
  ASSUME TailInv, NEW x \in Device, up[x] # << >>, Head(up[x]) # "data",
         NEW t, t = Tail(up[x]), up' = [up EXCEPT ![x] = t]
  PROVE  /\ up' \in [Device -> Seq(Frame)] /\ \A d \in Device : Data(up'[d]) = Data(up[d])
         /\ \A d \in Device : InOrder(up'[d]) /\ ToSet(up'[d]) \subseteq ToSet(up[d])
         /\ Head(up[x]) \in ToSet(up[x])
         /\ Head(up[x]) = "close" => t = << >>
         /\ Head(up[x]) = "eof" => ToSet(up'[x]) \subseteq {"close"}
  <1>1. PICK s : s = up[x]
    OBVIOUS
  <1>2. up \in [Device -> Seq(Frame)] /\ \A d \in Device : Uplink(d)
    BY DEF TailInv, TailTyped
  <1>3. s \in Seq(Frame) /\ s # << >> /\ InOrder(s) /\ t = Tail(s) /\ Head(s) # "data"
    BY <1>1, <1>2 DEF Uplink
  <1>4. t \in Seq(Frame) /\ InOrder(t) /\ ToSet(s) = ToSet(t) \cup {Head(s)}
    BY <1>3, Removed1
  <1>5. (Head(s) = "close" => t = << >>) /\ (Head(s) = "eof" => ToSet(t) \subseteq {"close"})
    BY <1>3, Removed1
  <1>6. Data(t) = Data(s)
    <2>1. Data(t) = Data(s) - One(Head(s) = "data")
      BY <1>3, Removed1
    <2>2. One(Head(s) = "data") = 0 /\ Data(s) \in Int
      BY <1>3, FramesOf DEF One
    <2> QED  BY <2>1, <2>2
  <1>7. up' \in [Device -> Seq(Frame)] /\ \A d \in Device : up'[d] = IF d = x THEN t ELSE up[d]
    BY <1>2, <1>4
  <1>8. \A d \in Device : Data(up'[d]) = Data(up[d])
    BY <1>1, <1>6, <1>7
  <1>9. \A d \in Device : InOrder(up'[d]) /\ ToSet(up'[d]) \subseteq ToSet(up[d])
    <2> TAKE d \in Device
    <2>1. CASE d = x
      BY <1>1, <1>4, <1>7, <2>1
    <2>2. CASE d # x
      BY <1>2, <1>7, <2>2 DEF Uplink
    <2> QED  BY <2>1, <2>2
  <1> QED  BY <1>1, <1>4, <1>5, <1>7, <1>8, <1>9

LEMMA ReadsEofKeeps ==
  ASSUME TailInv, NEW x \in Device, ReadsEof(x)
  PROVE  TailInv'
  <1>1. PICK t : t = Tail(up[x])
    OBVIOUS
  <1>2. /\ at[Watched] = "paired" /\ hold = "none" /\ up[x] # << >> /\ Head(up[x]) = "eof"
        /\ up' = [up EXCEPT ![x] = t] /\ eof' = eof \cup {x}
        /\ UNCHANGED <<pipe, hold, wrote, got, late, closed>>
    BY <1>1 DEF ReadsEof, Polls
  <1>3. TailTyped /\ Entries /\ Stage /\ "none" \notin Device
    BY DEF TailInv, Device
  <1>4. PICK f : f = "eof"
    OBVIOUS
  <1>5. /\ up' \in [Device -> Seq(Frame)] /\ \A d \in Device : Data(up'[d]) = Data(up[d])
        /\ \A d \in Device : InOrder(up'[d]) /\ ToSet(up'[d]) \subseteq ToSet(up[d])
        /\ "eof" \in ToSet(up[x]) /\ ToSet(up'[x]) \subseteq {"close"}
    <2>1. Head(up[x]) = f /\ f # "data"
      BY <1>2, <1>4
    <2> QED  BY <1>1, <1>2, <1>4, <2>1, MarkRead
  <1>6. \A d \in Device : Closing(d)' /\ Uplink(d)'
    <2> TAKE d \in Device
    <2>1. Closing(d) /\ Uplink(d)
      BY DEF TailInv
    <2>2. d \in eof' => ToSet(up'[d]) \subseteq {"close"} /\ hold' # d
      <3>1. CASE d = x
        BY <1>2, <1>3, <1>5, <3>1
      <3>2. CASE d # x
        BY <1>2, <1>5, <2>1, <3>2 DEF Uplink
      <3> QED  BY <3>1, <3>2
    <2>3. "eof" \in ToSet(up'[d]) \/ d \in eof' => "eof" \in ToSet(up[d]) \/ d \in eof
      BY <1>2, <1>5
    <2>4. "paired" \notin ToSet(up'[d]) /\ ("close" \in ToSet(up'[d]) => "close" \in ToSet(up[d]))
      BY <1>5, <2>1 DEF Uplink
    <2>5. Uplink(d)'
      BY <1>2, <1>5, <2>1, <2>2, <2>3, <2>4 DEF Uplink
    <2> QED  BY <1>2, <2>1, <2>5 DEF Closing
  <1>7. eof' \subseteq Device
    BY <1>2, <1>3 DEF TailTyped
  <1>8. CASE eof' # Device
    <2>1. at' = at /\ waiting' = waiting /\ down' = down
      BY <1>8 DEF ReadsEof, pairing
    <2>2. TailTyped' /\ Entries' /\ Stage' /\ (Met' <=> Met)
      BY <1>2, <1>3, <1>5, <1>7, <2>1 DEF TailTyped, Entries, Stage, Met
    <2>3. \A d \in Device : Downlink(d)'
      BY <1>2, <2>1 DEF TailInv, Downlink
    <2>4. ASSUME NEW d \in Device, Lives(d)' PROVE Passage(d)'
      <3>1. Lives(d)
        BY <1>2, <2>1, <2>2, <2>4 DEF Lives
      <3>2. Passage(d)
        BY <3>1 DEF TailInv
      <3> QED  BY <1>2, <1>5, <2>1, <3>2 DEF Passage
    <2> QED  BY <1>6, <2>2, <2>3, <2>4 DEF TailInv
  \* Both directions are over, and nobody is left who could be short of a chunk.
  <1>9. CASE eof' = Device
    <2>1. PumpEnds(Watched) /\ down' = Shut
      BY <1>9 DEF ReadsEof
    <2>2. /\ at' \in [Socket -> Places] /\ (\A y \in Channel : at'[y] \notin {"paired", "ended"})
          /\ waiting' = waiting /\ Entries' /\ at[Watched] = "paired" /\ at'[Watched] = "ended"
          /\ down' \in [Device -> Seq(Frame)]
          /\ \A d \in Device : /\ InOrder(down'[d]) /\ "eof" \notin ToSet(down'[d])
                               /\ "paired" \in ToSet(down'[d]) => "paired" \in ToSet(down[d])
                               /\ d = "far" /\ pipe[d].life = "none" => Head(down'[d]) = "paired"
      BY <2>1, PumpEndsMoves
    <2>3. TailTyped' /\ Stage'
      BY <1>2, <1>3, <1>5, <1>7, <2>2 DEF TailTyped, Stage
    <2>4. \A d \in Device : Downlink(d)'
      <3> TAKE d \in Device
      <3>1. Downlink(d)
        BY DEF TailInv
      <3> QED  BY <1>2, <2>2, <3>1 DEF Downlink
    <2>5. ASSUME NEW d \in Device, Lives(d)' PROVE FALSE
      <3>1. PICK y : y = Peer(d)
        OBVIOUS
      <3>2. y \in Device /\ y \in eof' /\ Uplink(y)' /\ Closing(y)
        BY <1>6, <1>9, <3>1, TwoDevices DEF TailInv
      <3>3. Lives(d) /\ closed[y] = "no" /\ pipe[y].tcp # "refused"
        BY <1>2, <2>2, <2>5, <3>1 DEF Lives
      <3>4. pipe[y].ws # "gone" /\ pipe[y].life # "gone"
        BY <1>2, <3>1, <3>3, OtherOpen
      <3>5. Ended(pipe[y])
        BY <1>2, <3>2, <3>4 DEF Uplink
      <3>6. Left(pipe[y]) /\ pipe[y].life = "on"
        BY <3>2, <3>5 DEF Closing, Shape, Empty, Ended
      <3> QED  BY <3>2, <3>3, <3>6 DEF Closing, Left
    <2> QED  BY <1>6, <2>2, <2>3, <2>4, <2>5 DEF TailInv
  <1> QED  BY <1>8, <1>9

LEMMA ReadsEndKeeps ==
  ASSUME TailInv, NEW x \in Device, ReadsEnd(x)
  PROVE  TailInv'
  <1>1. PICK t : t = Tail(up[x])
    OBVIOUS
  <1>2. /\ at[Watched] = "paired" /\ hold = "none" /\ up[x] # << >>
        /\ Head(up[x]) = "close" \/ (Head(up[x]) = "data" /\ x \in eof)
        /\ up' = [up EXCEPT ![x] = t] /\ PumpEnds(Watched) /\ down' = Shut
        /\ UNCHANGED <<pipe, hold, eof, wrote, got, late, closed>>
    BY <1>1 DEF ReadsEnd, Polls
  <1>3. TailTyped /\ Entries /\ Stage /\ "none" \notin Device /\ Uplink(x) /\ Closing(x)
    BY DEF TailInv, Device
  \* The socket does not go on after its EOF.
  <1>4. Head(up[x]) = "close"
    <2>1. PICK s : s = up[x]
      OBVIOUS
    <2>2. s \in Seq(Frame) /\ s # << >> /\ InOrder(s)
      BY <1>2, <1>3, <2>1 DEF TailTyped, Uplink
    <2>3. PICK r : r = Tail(s)
      OBVIOUS
    <2>4. ToSet(s) = ToSet(r) \cup {Head(s)}
      BY <2>2, <2>3, Removed1
    <2>5. x \in eof => Head(s) # "data"
      BY <1>3, <2>1, <2>4 DEF Uplink
    <2> QED  BY <1>2, <2>1, <2>5
  <1>5. PICK f : f = "close"
    OBVIOUS
  <1>6. /\ up' \in [Device -> Seq(Frame)] /\ \A d \in Device : Data(up'[d]) = Data(up[d])
        /\ \A d \in Device : InOrder(up'[d]) /\ ToSet(up'[d]) \subseteq ToSet(up[d])
        /\ "close" \in ToSet(up[x]) /\ t = << >>
    <2>1. Head(up[x]) = f /\ f # "data"
      BY <1>4, <1>5
    <2> QED  BY <1>1, <1>2, <1>5, <2>1, MarkRead
  <1>7. pipe[x].life = "gone" /\ pipe[x].ws = "gone"
    BY <1>3, <1>6 DEF Uplink, Closing, Shape
  <1>8. /\ at' \in [Socket -> Places] /\ (\A y \in Channel : at'[y] \notin {"paired", "ended"})
        /\ waiting' = waiting /\ Entries' /\ at[Watched] = "paired" /\ at'[Watched] = "ended"
        /\ down' \in [Device -> Seq(Frame)]
        /\ \A d \in Device : /\ InOrder(down'[d]) /\ "eof" \notin ToSet(down'[d])
                             /\ "paired" \in ToSet(down'[d]) => "paired" \in ToSet(down[d])
                             /\ d = "far" /\ pipe[d].life = "none" => Head(down'[d]) = "paired"
                             /\ pipe[d].ws # "gone" => Data(down'[d]) = Data(down[d])
    BY <1>2, PumpEndsMoves
  <1>9. TailTyped' /\ Stage'
    BY <1>2, <1>3, <1>6, <1>8 DEF TailTyped, Stage
  <1>10. \A d \in Device : Closing(d)' /\ Uplink(d)' /\ Downlink(d)'
    <2> TAKE d \in Device
    <2>1. Closing(d) /\ Uplink(d) /\ Downlink(d)
      BY DEF TailInv
    <2>2. Uplink(d)'
      <3>1. ToSet(up'[d]) \subseteq ToSet(up[d]) /\ InOrder(up'[d])
        BY <1>6
      <3> QED  BY <1>2, <2>1, <3>1 DEF Uplink
    <2>3. Downlink(d)'
      BY <1>2, <1>8, <2>1 DEF Downlink
    <2> QED  BY <1>2, <2>1, <2>2, <2>3 DEF Closing
  <1>11. ASSUME NEW d \in Device, Lives(d)' PROVE Passage(d)'
    <2>1. PICK e : e = Peer(d)
      OBVIOUS
    <2>2. e \in Device /\ Lives(d)
      BY <1>2, <1>11, <2>1, TwoDevices DEF Lives
    <2>3. pipe[e].ws # "gone" /\ pipe[e].life # "gone" /\ ~pipe[e].dropTcp
      BY <1>2, <2>1, <2>2, OtherOpen
    <2>4. e # x /\ d = x
      BY <1>7, <2>1, <2>3, TwoDevices
    <2>5. Passage(d)
      BY <2>2 DEF TailInv
    <2>6. Data(down'[e]) = Data(down[e]) /\ Data(up'[d]) = Data(up[d])
      BY <1>6, <1>8, <2>2, <2>3
    <2>7. wrote'[d] = Sends(pipe'[d]) + Data(up'[d]) + One(hold' = d) + Data(down'[e]) + Takes(pipe'[e]) + got'[e]
      BY <1>2, <2>1, <2>5, <2>6 DEF Passage
    <2>8. Data(up'[d]) = 0
      <3>1. up'[d] = t
        BY <1>2, <1>3, <2>4 DEF TailTyped
      <3> QED  BY <1>6, <3>1, NoFrames
    <2> QED  BY <1>2, <1>3, <1>7, <1>8, <2>1, <2>3, <2>4, <2>7, <2>8 DEF Passage
  <1> QED  BY <1>8, <1>9, <1>10, <1>11 DEF TailInv
-----------------------------------------------------------------------------
(* The theorem                                                             *)

LEMMA TailInit ==
  ASSUME RelayInit
  PROVE  TailInv
  <1>1. /\ pipe = [d \in Device |-> NotBuilt] /\ up = [d \in Device |-> << >>] /\ down = [d \in Device |-> << >>]
        /\ hold = "none" /\ eof = {} /\ wrote = [d \in Device |-> 0] /\ got = [d \in Device |-> 0]
        /\ closed = [d \in Device |-> "no"]
        /\ at = [x \in Socket |-> "idle"] /\ waiting = [role \in Role |-> << >>]
    BY DEF RelayInit, PairingInit
  <1>2. PICK q, s : q = NotBuilt /\ s = << >>
    OBVIOUS
  <1>3. q = [life |-> "none", tcp |-> "none", ws |-> "none", in |-> 0, toWs |-> 0, wsq |-> s,
             pend |-> 0, tcpq |-> 0, done |-> FALSE, sendEnd |-> FALSE, waitEnd |-> FALSE,
             dropTcp |-> FALSE, check |-> FALSE, timer |-> FALSE]
    BY <1>2 DEF NotBuilt, Built
  <1>4. s \in Seq(Frame) /\ s \in Seq({"data", "eof"}) /\ Data(s) = 0 /\ InOrder(s) /\ \A f : f \notin ToSet(s)
    BY <1>2, NoFrames
  <1>5. q \in Pipes /\ Empty(q) /\ q.life = "none" /\ q.tcp = "none" /\ q.ws = "none"
    <2>1. 0 \in 0 .. HighWater
      BY DEF TunnelAssumption
    <2> QED  BY <1>2, <1>3, <1>4, <2>1 DEF Pipes, Empty
  <1>6. Shape(q) /\ Sends(q) = 0 /\ Takes(q) = 0 /\ ~Ended(q)
    <2>1. Len(q.wsq) <= HighWater /\ InOrder(q.wsq) /\ "eof" \notin ToSet(q.wsq) /\ ~Ended(q)
      BY <1>5, NoFrames, PipeFields DEF Empty, Ended
    <2> QED  BY <1>5, <2>1, EmptyPipe DEF Shape, Left, Empty
  <1>7. \A d \in Device : /\ pipe[d] = q /\ up[d] = s /\ down[d] = s /\ wrote[d] = 0 /\ got[d] = 0 /\ closed[d] = "no"
                          /\ hold # d /\ d \notin eof
    BY <1>1, <1>2 DEF Device
  <1>8. at[Watched] = "idle" /\ ~Met
    BY <1>1, <1>2, <1>5, <1>7, Roles, TwoDevices DEF Met
  <1>9. TailTyped
    <2>1. pipe \in [Device -> Pipes] /\ up \in [Device -> Seq(Frame)] /\ down \in [Device -> Seq(Frame)]
      BY <1>1, <1>2, <1>4, <1>5
    <2>2. at \in [Socket -> Places] /\ \A x \in Channel : at[x] \notin {"paired", "ended"}
      BY <1>1, Roles DEF Places
    <2>3. waiting \in [Role -> Seq([who : Socket, live : BOOLEAN])]
      BY <1>1
    <2> QED  BY <1>1, <2>1, <2>2, <2>3 DEF TailTyped
  <1>10. Entries
    BY <1>1 DEF Entries
  <1>11. Stage
    BY <1>1, <1>2, <1>5, <1>7, <1>8, TwoDevices DEF Stage
  <1>12. \A d \in Device : Closing(d) /\ Uplink(d) /\ Downlink(d)
    BY <1>2, <1>4, <1>5, <1>6, <1>7 DEF Closing, Uplink, Downlink
  <1>13. \A d \in Device : Passage(d)
    <2> TAKE d \in Device
    <2>1. PICK e : e = Peer(d)
      OBVIOUS
    <2>2. e \in Device
      BY <2>1, TwoDevices
    <2>3. One(hold = d) = 0
      BY <1>7 DEF One
    <2>4. wrote[d] = Sends(pipe[d]) + Data(up[d]) + One(hold = d) + Data(down[e]) + Takes(pipe[e]) + got[e]
      BY <1>4, <1>6, <1>7, <2>2, <2>3
    <2>5. ~pipe[e].dropTcp /\ pipe[e].ws # "gone" /\ pipe[e].life # "gone"
      BY <1>5, <1>7, <2>2 DEF Empty
    <2> QED  BY <1>8, <2>1, <2>4, <2>5 DEF Passage
  <1> QED  BY <1>9, <1>10, <1>11, <1>12, <1>13 DEF TailInv

\* A lost socket is not forgotten.
LEMMA BrokenStays ==
  ASSUME broken, [RelayNext]_relayVars
  PROVE  broken'
  <1>1. CASE UNCHANGED relayVars
    BY <1>1 DEF relayVars, carried
  <1>2. CASE \E x \in Socket : Dials(x) \/ Serves(x) \/ GivesUp(x)
    BY <1>2 DEF Dials, Serves, GivesUp, Told
  <1>3. CASE \E d \in Device : AppWrites(d) \/ AppCloses(d) \/ PipeEvent(d) \/ SocketLost(d)
    BY <1>3 DEF AppWrites, AppCloses, PipeEvent, SocketLost, TcpConnects, TcpWritten, WsWritten, WsReceives, WsEnds,
                TailChecked, FallbackFires, Rest
  <1>4. CASE WsConnects \/ WsPaired \/ Pumps \/ PumpIdles \/ SessionLost
    BY <1>4 DEF WsConnects, WsPaired, Pumps, SendsOn, PicksUp, ReadsEof, ReadsEnd, PumpIdles, SessionLost, Told, Rest
  <1> QED  BY <1>1, <1>2, <1>3, <1>4 DEF RelayNext

LEMMA TailNext ==
  ASSUME TailInv, [RelayNext]_relayVars
  PROVE  broken' \/ TailInv'
  <1>1. CASE UNCHANGED relayVars
    <2>1. UNCHANGED <<at, waiting, pipe, up, down, hold, eof, wrote, got, late, closed>>
      BY <1>1 DEF relayVars, carried
    <2>2. TailTyped' /\ Entries' /\ Stage'
      BY <2>1 DEF TailInv, TailTyped, Entries, Stage, Met
    <2>3. \A d \in Device : Closing(d)' /\ Uplink(d)' /\ Downlink(d)'
      BY <2>1 DEF TailInv, Closing, Uplink, Downlink
    <2>4. \A d \in Device : Lives(d)' => Passage(d)'
      BY <2>1 DEF TailInv, Lives, Passage, Met
    <2> QED  BY <2>2, <2>3, <2>4 DEF TailInv
  <1>2. ASSUME NEW x \in Socket, Dials(x) PROVE TailInv'
    BY <1>2, DialsKeeps
  <1>3. ASSUME NEW x \in Socket, Serves(x) \/ GivesUp(x) PROVE TailInv'
    <2>1. TailTyped /\ Entries
      BY DEF TailInv
    <2>2. Told /\ PairingMoves
      BY <1>3, <2>1, AdmitMoves, JoinMoves, ParkMoves, GiveUpMoves DEF Serves, Served, GivesUp
    <2> QED  BY <2>2, ToldKeeps
  <1>4. CASE SessionLost
    <2>1. TailTyped /\ Entries /\ SessionEnds /\ Told
      BY <1>4 DEF TailInv, SessionLost
    <2> QED  BY <2>1, SessionMoves, ToldKeeps
  <1>5. ASSUME NEW x \in Device, AppWrites(x) \/ AppCloses(x) PROVE TailInv'
    BY <1>5, AppWritesKeeps, AppClosesKeeps
  <1>6. ASSUME NEW x \in Device, PipeEvent(x) PROVE TailInv'
    <2>1. CASE TcpConnects(x) \/ TcpWritten(x)
      BY <2>1, TcpConnectsKeeps, TcpWrittenKeeps
    <2>2. CASE WsWritten(x) \/ WsReceives(x) \/ WsEnds(x)
      BY <2>2, WsWrittenKeeps, WsReceivesKeeps, WsEndsKeeps
    <2>3. CASE TailChecked(x) \/ FallbackFires(x)
      BY <2>3, TailCheckedKeeps, FallbackFiresKeeps
    <2> QED  BY <1>6, <2>1, <2>2, <2>3 DEF PipeEvent
  <1>7. CASE WsConnects \/ WsPaired
    BY <1>7, WsConnectsKeeps, WsPairedKeeps
  <1>8. CASE Pumps
    BY <1>8, SendsOnKeeps, PicksUpKeeps, ReadsEofKeeps, ReadsEndKeeps DEF Pumps
  <1>9. CASE PumpIdles \/ \E d \in Device : SocketLost(d)
    BY <1>9 DEF PumpIdles, SocketLost
  <1> QED  BY <1>1, <1>2, <1>3, <1>4, <1>5, <1>6, <1>7, <1>8, <1>9 DEF RelayNext

LEMMA TailArrived ==
  ASSUME TailInv
  PROVE  TailArrives
  <1> SUFFICES ASSUME NEW d \in Device, NEW e, e = Peer(d),
                      closed[d] = "clean", closed[e] = "no", pipe[e].tcp = "gone"
               PROVE  got[e] + Len(down[e]) = wrote[d] /\ (down[e] # << >> => e \in late)
    BY DEF TailArrives
  <1>1. e \in Device /\ Peer(e) = d /\ ((d = "far" /\ e = "near") \/ e = "far")
    <2>1. d = "near" => e = "far"
      BY TwoDevices
    <2>2. d = "far" => e = "near"
      BY TwoDevices
    <2> QED  BY <2>1, <2>2, TwoDevices
  <1>2. TailTyped /\ Closing(d) /\ Closing(e)
    BY <1>1 DEF TailInv
  <1>3. pipe[d].tcp = "gone" /\ pipe[d].life # "none" /\ pipe[e].life # "none"
    BY <1>2 DEF Closing, Shape
  <1>4. Met
    BY <1>1, <1>3 DEF Met
  <1>5. Passage(d)
    <2>1. Lives(d)
      BY <1>3, <1>4 DEF Lives
    <2> QED  BY <2>1 DEF TailInv
  <1>6. pipe[e] \in Pipes /\ pipe[d] \in Pipes
    BY <1>1, <1>2 DEF TailTyped
  \* The application has not closed, so its Pipe has gone, and with it the connection.
  <1>7. pipe[e].life = "gone"
    BY <1>2, <1>3, <1>6, PipeFields DEF Closing
  <1>8. pipe[e].ws = "gone" /\ at[Watched] = "ended"
    BY <1>2, <1>5, <1>7 DEF Closing, Shape, Passage
  <1>9. pipe[d].life = "gone" /\ Data(up[d]) = 0 /\ hold # d /\ Unparsed(down[e])
        /\ (down[e] # << >> => e \in late)
    BY <1>5, <1>7, <1>8 DEF Passage
  <1>10. Sends(pipe[d]) = 0 /\ Takes(pipe[e]) = 0
    <2>1. Empty(pipe[d]) /\ Empty(pipe[e])
      BY <1>2, <1>7, <1>9 DEF Closing, Shape
    <2> QED  BY <1>6, <2>1, EmptyPipe
  <1>11. One(hold = d) = 0 /\ Data(down[e]) = Len(down[e])
    <2>1. Len(down[e]) \in Nat
      BY <1>1, <1>2, FramesOf DEF TailTyped
    <2>2. One("eof" \in ToSet(down[e])) = 0 /\ One("close" \in ToSet(down[e])) = 0 /\ One("paired" \in ToSet(down[e])) = 0
      BY <1>9 DEF One, Unparsed
    <2>3. Data(down[e]) = Len(down[e])
      BY <2>1, <2>2 DEF Data
    <2> QED  BY <1>9, <2>3 DEF One
  <1>12. got[e] \in Int /\ Data(down[e]) \in Int
    BY <1>1, <1>2, NumbersOf
  <1> QED  BY <1>5, <1>9, <1>10, <1>11, <1>12 DEF Passage

\* When one application closes, the other is given all of what it wrote before it sees
\* the end (finish(), sendEndIfDrained(), disconnectTcpIfDrained()), and all but what
\* was unparsed when bytesWritten() closed its socket, whatever the sizes of the queues,
\* the frames still unparsed and the order of the events, as long as no socket is lost.
THEOREM TunnelTailArrives == RelaySpec => []TailArrives
  <1>1. RelayInit => broken \/ TailInv
    BY TailInit
  <1>2. (broken \/ TailInv) /\ [RelayNext]_relayVars => (broken \/ TailInv)'
    BY BrokenStays, TailNext
  <1>3. broken \/ TailInv => TailArrives
    <2>1. broken => TailArrives
      BY DEF TailArrives
    <2> QED  BY <2>1, TailArrived
  <1> QED  BY <1>1, <1>2, <1>3, PTL DEF RelaySpec
-----------------------------------------------------------------------------
(* Types and slots                                                         *)

\* Whose task in the server holds a slot; of a pair, the connection stands for both.
Held == {x \in Socket : at[x] \in {"joining", "parking", "parked", "paired"}}

\* relay_conns is the number of them.
Counted == slots = Cardinality(Held) /\ slots <= Limit

\* A Pipe's fields, and its WebSocket's queue within its bound.
Fit(q) == q \in Pipes /\ Len(q.wsq) <= HighWater

Carried ==
  /\ pipe \in [Device -> Pipes] /\ \A d \in Device : Fit(pipe[d])
  /\ up \in [Device -> Seq(Frame)] /\ down \in [Device -> Seq(Frame)]
  /\ hold \in Device \cup {"none"} /\ eof \subseteq Device
  /\ wrote \in [Device -> Nat] /\ got \in [Device -> Nat] /\ late \subseteq Device
  /\ closed \in [Device -> {"no", "early", "clean"}] /\ broken \in BOOLEAN

TunnelInv == PairingTypeOK /\ Entries /\ Counted /\ Carried

LEMMA SocketsOf ==
  ASSUME NEW S \in SUBSET Socket
  PROVE  IsFiniteSet(S) /\ Cardinality(S) \in Nat
  <1>1. IsFiniteSet(Socket)
    BY PairingAssumption DEF PairingAssumption, Socket
  <1>2. IsFiniteSet(S)
    BY <1>1, FS_Subset
  <1> QED  BY <1>2, FS_CardinalityType

\* A socket that moves takes a slot, gives its own back, or neither.
LEMMA SlotMoves ==
  ASSUME Counted, Limit \in Nat, at \in [Socket -> Places],
         NEW x \in Socket, NEW place, at' = [at EXCEPT ![x] = place],
         slots' = slots + One(place \in {"joining", "parking", "parked", "paired"}) - One(x \in Held),
         slots' > slots => slots < Limit
  PROVE  Counted'
  <1>1. Held \in SUBSET Socket
    BY DEF Held
  <1>2. IsFiniteSet(Held) /\ Cardinality(Held) \in Nat /\ slots = Cardinality(Held) /\ slots <= Limit
    BY <1>1, SocketsOf DEF Counted
  <1>3. \A y \in Socket : at'[y] = IF y = x THEN place ELSE at[y]
    OBVIOUS
  <1>4. CASE place \in {"joining", "parking", "parked", "paired"}
    <2>1. Held' = Held \cup {x}
      BY <1>3, <1>4 DEF Held
    <2>2. Cardinality(Held \cup {x}) = IF x \in Held THEN slots ELSE slots + 1
      BY <1>2, FS_AddElement
    <2>3. slots' = IF x \in Held THEN slots ELSE slots + 1
      BY <1>2, <1>4 DEF One
    <2>4. slots' <= Limit
      BY <1>2, <2>3
    <2> QED  BY <2>1, <2>2, <2>3, <2>4 DEF Counted
  <1>5. CASE place \notin {"joining", "parking", "parked", "paired"}
    <2>1. Held' = Held \ {x}
      BY <1>3, <1>5 DEF Held
    <2>2. Cardinality(Held \ {x}) = IF x \in Held THEN slots - 1 ELSE slots
      BY <1>2, FS_RemoveElement
    <2>3. slots' = IF x \in Held THEN slots - 1 ELSE slots
      BY <1>2, <1>5 DEF One
    <2>4. slots' <= Limit
      BY <1>2, <2>3
    <2> QED  BY <2>1, <2>2, <2>3, <2>4 DEF Counted
  <1> QED  BY <1>4, <1>5

\* Sockets that leave together give back one slot each.
LEMMA SlotFreed ==
  ASSUME Counted, Limit \in Nat, NEW S \in SUBSET Held, Held' = Held \ S, slots' = slots - Cardinality(S)
  PROVE  Counted'
  <1>1. Held \in SUBSET Socket /\ S \in SUBSET Socket
    BY DEF Held
  <1>2. IsFiniteSet(Held) /\ Cardinality(Held) \in Nat /\ Cardinality(S) \in Nat /\ slots = Cardinality(Held) /\ slots <= Limit
    BY <1>1, SocketsOf DEF Counted
  <1>3. Held \cap S = S
    OBVIOUS
  <1>4. Cardinality(Held \ S) = Cardinality(Held) - Cardinality(Held \cap S)
    BY <1>2, FS_Difference
  <1>5. slots' = Cardinality(Held \ S) /\ slots' <= Limit
    <2>1. PICK a, b : a = Cardinality(Held) /\ b = Cardinality(S)
      OBVIOUS
    <2>2. a \in Nat /\ b \in Nat /\ a <= Limit /\ slots' = a - b
      BY <1>2, <2>1
    <2>3. Cardinality(Held \ S) = a - b
      BY <1>3, <1>4, <2>1
    <2> QED  BY <2>2, <2>3
  <1> QED  BY <1>5 DEF Counted

\* What the pairing keeps beside the queues.
BooksKept ==
  /\ session' \in BOOLEAN /\ giveUps' \in 0 .. MaxGiveUps
  /\ mate' \in [Conn -> Channel \cup {NoMate}] /\ crossed' \subseteq Conn /\ Counted'

LEMMA TunnelFacts ==
  ASSUME TunnelInv
  PROVE  /\ TailTyped /\ Entries /\ Counted /\ Carried /\ Limit \in Nat /\ MaxGiveUps \in Nat /\ slots \in Nat
         /\ session \in BOOLEAN /\ giveUps \in 0 .. MaxGiveUps /\ at \in [Socket -> Places]
         /\ mate \in [Conn -> Channel \cup {NoMate}] /\ crossed \subseteq Conn
  BY PairingAssumption DEF TunnelInv, PairingTypeOK, Carried, TailTyped, PairingAssumption

LEMMA DialBooks ==
  ASSUME TunnelInv, NEW x \in Socket, Dial(x)
  PROVE  BooksKept
  <1>1. /\ at[x] = "idle" /\ at' = [at EXCEPT ![x] = "dialing"]
        /\ UNCHANGED <<session, mate, slots, giveUps, crossed>>
    BY DEF Dial
  <1>2. x \notin Held
    BY <1>1 DEF Held
  <1>3. Counted'
    <2>1. slots' = slots + One("dialing" \in {"joining", "parking", "parked", "paired"}) - One(x \in Held)
      BY <1>1, <1>2, TunnelFacts DEF One
    <2>2. ~(slots' > slots)
      BY <1>1, TunnelFacts
    <2> QED  BY <1>1, <2>1, <2>2, TunnelFacts, SlotMoves
  <1> QED  BY <1>1, <1>3, TunnelFacts DEF BooksKept

LEMMA AdmitBooks ==
  ASSUME TunnelInv, NEW x \in Socket, Admit(x)
  PROVE  BooksKept
  <1>1. at[x] = "dialing" /\ UNCHANGED <<session, mate, giveUps, crossed>>
    BY DEF Admit
  <1>2. x \notin Held /\ After(x) \notin {"joining", "parking", "parked", "paired"}
    BY <1>1, Roles DEF Held
  <1>3. Counted'
    <2>1. CASE session /\ slots < Limit
      <3>1. at' = [at EXCEPT ![x] = "joining"] /\ slots' = slots + 1
        BY <2>1 DEF Admit
      <3>2. slots' = slots + One("joining" \in {"joining", "parking", "parked", "paired"}) - One(x \in Held)
        BY <1>2, <3>1, TunnelFacts DEF One
      <3> QED  BY <2>1, <3>1, <3>2, TunnelFacts, SlotMoves
    <2>2. CASE ~(session /\ slots < Limit)
      <3>1. at' = [at EXCEPT ![x] = After(x)] /\ slots' = slots
        BY <2>2 DEF Admit
      <3>2. slots' = slots + One(After(x) \in {"joining", "parking", "parked", "paired"}) - One(x \in Held)
        BY <1>2, <3>1, TunnelFacts DEF One
      <3>3. ~(slots' > slots)
        BY <3>1, TunnelFacts
      <3> QED  BY <3>1, <3>2, <3>3, TunnelFacts, SlotMoves
    <2> QED  BY <2>1, <2>2
  <1> QED  BY <1>1, <1>3, TunnelFacts DEF BooksKept

\* A socket that held a slot goes.
LEMMA SlotGivenBack ==
  ASSUME TunnelInv, NEW x \in Held, NEW place \in {"idle", "ended"},
         at' = [at EXCEPT ![x] = place], slots' = slots - 1
  PROVE  Counted'
  <1>1. x \in Socket
    BY DEF Held
  <1>2. slots' = slots + One(place \in {"joining", "parking", "parked", "paired"}) - One(x \in Held)
    BY TunnelFacts DEF One
  <1>3. ~(slots' > slots)
    BY TunnelFacts
  <1> QED  BY <1>1, <1>2, <1>3, TunnelFacts, SlotMoves

\* One that held a slot keeps it.
LEMMA SlotKept ==
  ASSUME TunnelInv, NEW x \in Held, NEW place \in {"joining", "parking", "parked", "paired"},
         at' = [at EXCEPT ![x] = place], slots' = slots
  PROVE  Counted'
  <1>1. x \in Socket
    BY DEF Held
  <1>2. slots' = slots + One(place \in {"joining", "parking", "parked", "paired"}) - One(x \in Held)
    BY TunnelFacts DEF One
  <1>3. ~(slots' > slots)
    BY TunnelFacts
  <1> QED  BY <1>1, <1>2, <1>3, TunnelFacts, SlotMoves

LEMMA JoinBooks ==
  ASSUME TunnelInv, NEW x \in Socket, Join(x)
  PROVE  BooksKept
  <1>1. at[x] = "joining" /\ UNCHANGED <<session, giveUps, crossed>> /\ x \in Held
    BY DEF Join, Held
  <1>2. PICK other : other = Other(RoleOf(x))
    OBVIOUS
  <1>3. CASE at' = [at EXCEPT ![x] = After(x)] /\ slots' = slots - 1 /\ mate' = mate
    <2>1. Counted'
      BY <1>1, <1>3, Roles, SlotGivenBack
    <2> QED  BY <1>1, <1>3, <2>1, TunnelFacts DEF BooksKept
  <1>4. CASE at' = [at EXCEPT ![x] = "parking"] /\ slots' = slots /\ mate' = mate
    <2>1. Counted'
      BY <1>1, <1>4, SlotKept
    <2> QED  BY <1>1, <1>4, <2>1, TunnelFacts DEF BooksKept
  <1>5. CASE at' = at /\ slots' = slots /\ mate' = mate
    <2>1. Counted'
      BY <1>5, TunnelFacts DEF Counted, Held
    <2> QED  BY <1>1, <1>5, <2>1, TunnelFacts DEF BooksKept
  <1>6. CASE waiting[other] # << >> /\ Head(waiting[other]).live /\ Paired(x, Head(waiting[other]).who) /\ slots' = slots - 1
    <2>1. PICK y : y = Head(waiting[other]).who
      OBVIOUS
    <2>2. PICK c, a : c = (IF x \in Conn THEN x ELSE y) /\ a = IF x \in Conn THEN y ELSE x
      OBVIOUS
    <2>3. at[y] = "parked" /\ c \in Conn /\ a \in Channel /\ c # a /\ {c, a} = {x, y} /\ c \in Socket /\ a \in Socket
      BY <1>1, <1>2, <1>6, <2>1, <2>2, TunnelFacts, Halves
    <2>4. at' = [at EXCEPT ![c] = "paired", ![a] = "idle"] /\ mate' = [mate EXCEPT ![c] = a]
      BY <1>6, <2>1, <2>2 DEF Paired
    <2>5. \A z \in Socket : at'[z] = IF z = a THEN "idle" ELSE IF z = c THEN "paired" ELSE at[z]
      BY <2>3, <2>4, TunnelFacts
    <2>6. at[c] \in {"joining", "parked"} /\ at[a] \in {"joining", "parked"}
      BY <1>1, <2>3
    <2>7. c \in Held /\ {a} \in SUBSET Held
      BY <2>3, <2>6 DEF Held
    <2>8. Held' = Held \ {a}
      BY <2>3, <2>5, <2>7 DEF Held
    <2>9. slots' = slots - Cardinality({a})
      BY <1>6, FS_Singleton
    <2>10. Counted'
      BY <2>7, <2>8, <2>9, TunnelFacts, SlotFreed
    <2>11. mate' \in [Conn -> Channel \cup {NoMate}]
      BY <2>3, <2>4, TunnelFacts
    <2> QED  BY <1>1, <2>10, <2>11, TunnelFacts DEF BooksKept
  <1> QED  BY <1>2, <1>3, <1>4, <1>5, <1>6 DEF Join

LEMMA ParkBooks ==
  ASSUME TunnelInv, NEW x \in Socket, Park(x)
  PROVE  BooksKept
  <1>1. at[x] = "parking" /\ UNCHANGED <<session, mate, giveUps>> /\ x \in Held
    BY DEF Park, Held
  <1>2. CASE session
    <2>1. at' = [at EXCEPT ![x] = "parked"] /\ slots' = slots
      BY <1>2 DEF Park
    <2>2. crossed' \subseteq Conn
      <3>1. PICK meets : crossed' = IF meets = {x} THEN crossed ELSE crossed \cup (meets \cap Conn)
        BY <1>2 DEF Park
      <3> QED  BY <3>1, TunnelFacts
    <2>3. Counted'
      BY <1>1, <2>1, SlotKept
    <2> QED  BY <1>1, <2>2, <2>3, TunnelFacts DEF BooksKept
  <1>3. CASE ~session
    <2>1. at' = [at EXCEPT ![x] = After(x)] /\ slots' = slots - 1 /\ crossed' = crossed
      BY <1>3 DEF Park
    <2>2. Counted'
      BY <1>1, <2>1, Roles, SlotGivenBack
    <2> QED  BY <1>1, <2>1, <2>2, TunnelFacts DEF BooksKept
  <1> QED  BY <1>2, <1>3

LEMMA GiveUpBooks ==
  ASSUME TunnelInv, NEW x \in Socket, GiveUp(x)
  PROVE  BooksKept
  <1>1. /\ giveUps < MaxGiveUps /\ giveUps' = giveUps + 1 /\ at[x] = "parked"
        /\ at' = [at EXCEPT ![x] = After(x)] /\ slots' = slots - 1 /\ UNCHANGED <<session, mate, crossed>>
    BY DEF GiveUp
  <1>2. Counted'
    <2>1. x \in Held
      BY <1>1 DEF Held
    <2> QED  BY <1>1, <2>1, Roles, SlotGivenBack
  <1>3. giveUps' \in 0 .. MaxGiveUps
    BY <1>1, TunnelFacts
  <1> QED  BY <1>1, <1>2, <1>3, TunnelFacts DEF BooksKept

LEMMA SessionBooks ==
  ASSUME TunnelInv, SessionEnds
  PROVE  BooksKept
  <1>1. PICK S : S = {x \in Socket : at[x] = "parked"}
    OBVIOUS
  <1>2. /\ session' = FALSE /\ at' = [x \in Socket |-> IF x \in S THEN After(x) ELSE at[x]]
        /\ slots' = slots - Cardinality(S) /\ UNCHANGED <<mate, giveUps, crossed>>
    BY <1>1 DEF SessionEnds
  <1>3. S \in SUBSET Held
    BY <1>1 DEF Held
  <1>4. \A x \in Socket : at'[x] = IF x \in S THEN After(x) ELSE at[x]
    BY <1>2
  <1>5. Held' = Held \ S
    <2>1. \A x \in Socket : x \in Held' <=> x \in Held \ S
      BY <1>4, Roles DEF Held
    <2>2. Held' \subseteq Socket /\ Held \subseteq Socket
      BY DEF Held
    <2> QED  BY <2>1, <2>2
  <1>6. Counted'
    BY <1>2, <1>3, <1>5, TunnelFacts, SlotFreed
  <1> QED  BY <1>2, <1>6, TunnelFacts DEF BooksKept

LEMMA PairingKept ==
  ASSUME PairingMoves, BooksKept
  PROVE  (PairingTypeOK /\ Entries /\ Counted)'
  <1>1. Held' \in SUBSET Socket /\ slots' = Cardinality(Held')
    BY DEF Held, BooksKept, Counted
  <1>2. slots' \in Nat
    BY <1>1, SocketsOf
  <1> QED  BY <1>2 DEF PairingMoves, BooksKept, PairingTypeOK

LEMMA PumpEndsTyped ==
  ASSUME TunnelInv, PumpEnds(Watched)
  PROVE  (PairingTypeOK /\ Entries /\ Counted)'
  <1>1. /\ at' \in [Socket -> Places] /\ (\A x \in Channel : at'[x] \notin {"paired", "ended"})
        /\ waiting' = waiting /\ Entries' /\ at[Watched] = "paired"
    BY TunnelFacts, PumpEnded
  <1>2. at' = [at EXCEPT ![Watched] = "ended"] /\ slots' = slots - 1 /\ UNCHANGED <<session, mate, giveUps, crossed>>
    BY DEF PumpEnds
  <1>3. Counted'
    <2>1. Watched \in Held
      BY <1>1, Roles DEF Held
    <2> QED  BY <1>2, <2>1, SlotGivenBack
  <1>4. Held' \in SUBSET Socket /\ slots' = Cardinality(Held')
    BY <1>3 DEF Held, Counted
  <1>5. slots' \in Nat
    BY <1>4, SocketsOf
  <1> QED  BY <1>1, <1>2, <1>3, <1>5, TunnelFacts DEF PairingTypeOK, TailTyped

\* The parts of a Pipe's slots keep it within its bounds.
LEMMA Bound ==
  ASSUME NEW q, Fit(q)
  PROVE  /\ q \in Pipes /\ q.in \in Nat /\ q.toWs \in 0 .. HighWater /\ q.pend \in Nat /\ q.tcpq \in 0 .. HighWater
         /\ q.wsq \in Seq({"data", "eof"}) /\ Len(q.wsq) \in 0 .. HighWater /\ HighWater \in Nat \ {0}
  BY PipeFields DEF Fit

LEMMA Least ==
  ASSUME NEW a \in Nat, NEW b \in Nat, NEW n, n = Min({a, b})
  PROVE  n \in Nat /\ n <= a /\ n <= b /\ a - n \in Nat /\ b - n \in Nat
  <1>1. n = IF a <= b THEN a ELSE b
    BY Least2
  <1> QED  BY <1>1

LEMMA ToWsFits ==
  ASSUME NEW p, Fit(p)
  PROVE  Fit(ToWs(p))
  <1>1. PICK q, h : q = ToWs(p) /\ h = Len(p.wsq)
    OBVIOUS
  <1>2. /\ p \in Pipes /\ p.in \in Nat /\ p.toWs \in 0 .. HighWater /\ p.wsq \in Seq({"data", "eof"})
        /\ h \in 0 .. HighWater /\ HighWater \in Nat /\ p.toWs \in Nat /\ h \in Nat
    BY <1>1, Bound
  <1>3. CASE p.ws # "on"
    <2>1. PICK r : r = HighWater - p.toWs
      OBVIOUS
    <2>2. r \in Nat
      BY <1>2, <2>1
    <2>3. PICK n : n = Min({p.in, r})
      OBVIOUS
    <2>4. n \in Nat /\ n <= r /\ p.in - n \in Nat
      BY <1>2, <2>2, <2>3, Least
    <2>5. p.toWs + n \in 0 .. HighWater
      BY <1>2, <2>1, <2>2, <2>4
    <2>6. q = [p EXCEPT !.in = p.in - n, !.toWs = p.toWs + n]
      BY <1>1, <1>3, <2>1, <2>3 DEF ToWs
    <2>7. q \in Pipes /\ q.wsq = p.wsq
      BY <1>2, <2>4, <2>5, <2>6 DEF Pipes
    <2> QED  BY <1>1, <2>7 DEF Fit
  <1>4. CASE p.ws = "on"
    <2>1. PICK r : r = HighWater - h
      OBVIOUS
    <2>2. r \in Nat
      BY <1>2, <2>1
    <2>3. PICK n : n = Min({p.toWs, r})
      OBVIOUS
    <2>4. n \in Nat /\ n <= r /\ p.toWs - n \in Nat
      BY <1>2, <2>2, <2>3, Least
    <2>5. PICK e : e = HighWater - h - n
      OBVIOUS
    <2>6. e \in Nat /\ p.toWs - n \in 0 .. HighWater
      BY <1>2, <2>1, <2>2, <2>4, <2>5
    <2>7. PICK m : m = Min({p.in, e})
      OBVIOUS
    <2>8. m \in Nat /\ m <= e /\ p.in - m \in Nat
      BY <1>2, <2>6, <2>7, Least
    <2>9. PICK j, more : j = n + m /\ more = [k \in 1 .. n + m |-> "data"]
      OBVIOUS
    <2>10. j \in Nat /\ h + j <= HighWater
      BY <1>2, <2>4, <2>5, <2>6, <2>8, <2>9
    <2>11. more \in Seq({"data", "eof"}) /\ Len(more) = j
      <3>1. more \in [1 .. j -> {"data", "eof"}]
        BY <2>9
      <3> QED  BY <2>10, <3>1, SeqDef, LenProperties
    <2>12. PICK s, t : s = p.wsq /\ t = s \o more
      OBVIOUS
    <2>13. t \in Seq({"data", "eof"}) /\ Len(t) <= HighWater
      <3>1. s \in Seq({"data", "eof"}) /\ Len(s) = h
        BY <1>1, <1>2, <2>12
      <3>2. t \in Seq({"data", "eof"}) /\ Len(t) = Len(s) + Len(more)
        BY <2>11, <2>12, <3>1, ConcatProperties
      <3> QED  BY <2>10, <2>11, <3>1, <3>2
    <2>14. q = [p EXCEPT !.toWs = p.toWs - n, !.in = p.in - m, !.wsq = t]
      BY <1>1, <1>4, <2>1, <2>3, <2>5, <2>7, <2>9, <2>12 DEF ToWs
    <2>15. q \in Pipes /\ q.wsq = t
      BY <1>2, <2>6, <2>8, <2>13, <2>14 DEF Pipes
    <2> QED  BY <1>1, <2>13, <2>15 DEF Fit
  <1> QED  BY <1>3, <1>4

LEMMA EndIfDrainedFits ==
  ASSUME NEW p, Fit(p)
  PROVE  Fit(EndIfDrained(p))
  <1>1. PICK q, t : q = EndIfDrained(p) /\ t = Append(p.wsq, "eof")
    OBVIOUS
  <1>2. CASE p.sendEnd /\ p.toWs = 0 /\ p.in = 0 /\ p.wsq = << >>
    <2>1. t \in Seq({"data", "eof"}) /\ Len(t) = 1
      BY <1>1, <1>2
    <2>2. q = [p EXCEPT !.sendEnd = FALSE, !.waitEnd = TRUE, !.wsq = t]
      BY <1>1, <1>2 DEF EndIfDrained
    <2>3. p \in Pipes /\ 1 <= HighWater
      BY Bound
    <2>4. q \in Pipes /\ q.wsq = t
      BY <2>1, <2>2, <2>3 DEF Pipes
    <2> QED  BY <1>1, <2>1, <2>3, <2>4 DEF Fit
  <1>3. CASE ~(p.sendEnd /\ p.toWs = 0 /\ p.in = 0 /\ p.wsq = << >>)
    BY <1>3 DEF EndIfDrained
  <1> QED  BY <1>2, <1>3

LEMMA FallbackFits ==
  ASSUME NEW p, Fit(p)
  PROVE  Fit(Fallback(p))
  <1>1. PICK q : q = [p EXCEPT !.waitEnd = FALSE, !.timer = TRUE]
    OBVIOUS
  <1>2. q \in Pipes /\ q.wsq = p.wsq
    BY <1>1 DEF Fit, Pipes
  <1> QED  BY <1>1, <1>2 DEF Fallback, Fit

LEMMA ProgressFits ==
  ASSUME NEW p, Fit(p)
  PROVE  Fit(Progress(p))
  BY ToWsFits, EndIfDrainedFits, FallbackFits DEF Progress

LEMMA ToTcpFits ==
  ASSUME NEW p, Fit(p)
  PROVE  Fit(ToTcp(p))
  <1>1. CASE p.tcp = "on"
    <2>1. PICK r : r = HighWater - p.tcpq
      OBVIOUS
    <2>2. p \in Pipes /\ p.pend \in Nat /\ p.tcpq \in 0 .. HighWater /\ HighWater \in Nat /\ r \in Nat
      BY <2>1, Bound
    <2>3. PICK n : n = Min({p.pend, r})
      OBVIOUS
    <2>4. n \in Nat /\ n <= r /\ p.pend - n \in Nat
      BY <2>2, <2>3, Least
    <2>5. p.tcpq + n \in 0 .. HighWater
      BY <2>1, <2>2, <2>4
    <2>6. PICK q : q = [p EXCEPT !.pend = p.pend - n, !.tcpq = p.tcpq + n]
      OBVIOUS
    <2>7. q \in Pipes /\ q.wsq = p.wsq
      BY <2>2, <2>4, <2>5, <2>6 DEF Pipes
    <2>8. ToTcp(p) = q
      BY <1>1, <2>1, <2>3, <2>6 DEF ToTcp
    <2> QED  BY <2>7, <2>8 DEF Fit
  <1>2. CASE p.tcp # "on"
    BY <1>2 DEF ToTcp
  <1> QED  BY <1>1, <1>2

LEMMA BuiltFits ==
  ASSUME NEW tcp \in {"none", "opening", "on", "refused", "gone"}, NEW ws \in {"none", "opening", "on", "gone"}
  PROVE  Fit(Built(tcp, ws)) /\ Fit(Deleted(tcp)) /\ Fit(NotBuilt)
  <1>1. PICK s : s = << >>
    OBVIOUS
  <1>2. 0 \in 0 .. HighWater /\ s \in Seq({"data", "eof"}) /\ Len(s) <= HighWater
    <2>1. Len(s) = 0 /\ HighWater \in Nat
      BY <1>1, TunnelAssumption, NoFrames DEF TunnelAssumption
    <2> QED  BY <1>1, <2>1
  <1>3. ASSUME NEW t \in {"none", "opening", "on", "refused", "gone"}, NEW w \in {"none", "opening", "on", "gone"}
        PROVE  Fit(Built(t, w))
    <2>1. PICK q : q = Built(t, w)
      OBVIOUS
    <2>2. q = [life |-> "on", tcp |-> t, ws |-> w, in |-> 0, toWs |-> 0, wsq |-> s,
               pend |-> 0, tcpq |-> 0, done |-> FALSE, sendEnd |-> FALSE, waitEnd |-> FALSE,
               dropTcp |-> FALSE, check |-> FALSE, timer |-> FALSE]
      BY <1>1, <2>1 DEF Built
    <2>3. q \in Pipes /\ q.wsq = s
      BY <1>2, <2>2 DEF Pipes
    <2> QED  BY <1>2, <2>1, <2>3 DEF Fit
  <1>4. ASSUME NEW b, Fit(b)
        PROVE  Fit([b EXCEPT !.life = "gone", !.done = TRUE]) /\ Fit([b EXCEPT !.life = "none"])
    BY <1>4 DEF Fit, Pipes
  <1>5. Fit(Deleted(tcp))
    <2>1. Fit(Built(tcp, "gone"))
      BY <1>3
    <2> QED  BY <1>4, <2>1 DEF Deleted
  <1>6. Fit(NotBuilt)
    <2>1. Fit(Built("none", "none"))
      BY <1>3
    <2> QED  BY <1>4, <2>1 DEF NotBuilt
  <1> QED  BY <1>3, <1>5, <1>6

LEMMA DropIfDrainedFits ==
  ASSUME NEW p, Fit(p)
  PROVE  Fit(DropIfDrained(p))
  BY BuiltFits DEF DropIfDrained

LEMMA TcpFinishedFits ==
  ASSUME NEW p, Fit(p), NEW tcp \in {"gone", "refused"}
  PROVE  Fit(TcpFinished(p, tcp))
  <1>1. PICK a, q, b : a = [p EXCEPT !.done = TRUE, !.tcp = tcp] /\ q = ToWs(a) /\ b = [q EXCEPT !.sendEnd = TRUE]
    OBVIOUS
  <1>2. a \in Pipes /\ a.wsq = p.wsq
    BY <1>1 DEF Fit, Pipes
  <1>3. Fit(q)
    BY <1>1, <1>2, ToWsFits DEF Fit
  <1>4. b \in Pipes /\ b.wsq = q.wsq
    BY <1>1, <1>3 DEF Fit, Pipes
  <1>5. Fit(EndIfDrained(b))
    BY <1>3, <1>4, EndIfDrainedFits DEF Fit
  <1> QED  BY <1>1, <1>5, BuiltFits DEF TcpFinished

LEMMA WsFinishedFits ==
  ASSUME NEW p, Fit(p)
  PROVE  Fit(WsFinished(p))
  <1>1. PICK q : q = [p EXCEPT !.done = TRUE, !.ws = "gone", !.dropTcp = TRUE, !.check = TRUE]
    OBVIOUS
  <1>2. q \in Pipes /\ q.wsq = p.wsq /\ p.tcp \in {"none", "opening", "on", "refused", "gone"}
    BY <1>1 DEF Fit, Pipes
  <1>3. Fit(ToTcp(q))
    BY <1>2, ToTcpFits DEF Fit
  <1> QED  BY <1>1, <1>2, <1>3, BuiltFits DEF WsFinished

LEMMA PipeAt ==
  ASSUME TunnelInv, NEW x \in Device
  PROVE  /\ Fit(pipe[x]) /\ up[x] \in Seq(Frame) /\ down[x] \in Seq(Frame) /\ wrote[x] \in Nat /\ got[x] \in Nat
         /\ up \in [Device -> Seq(Frame)] /\ down \in [Device -> Seq(Frame)] /\ pipe \in [Device -> Pipes]
         /\ wrote \in [Device -> Nat] /\ got \in [Device -> Nat] /\ late \subseteq Device
         /\ closed \in [Device -> {"no", "early", "clean"}]
  BY DEF TunnelInv, Carried

\* An event of a Pipe leaves the pairing and the pump alone.
LEMMA PipeTyped ==
  ASSUME TunnelInv, Rest, NEW x \in Device, NEW q, Fit(q), pipe' = [pipe EXCEPT ![x] = q],
         up' \in [Device -> Seq(Frame)], down' \in [Device -> Seq(Frame)],
         wrote' \in [Device -> Nat], got' \in [Device -> Nat], late' \subseteq Device,
         closed' \in [Device -> {"no", "early", "clean"}]
  PROVE  TunnelInv'
  <1>1. UNCHANGED <<session, at, waiting, mate, slots, giveUps, crossed, hold, eof, broken>>
    BY DEF Rest, pairing
  <1>2. (PairingTypeOK /\ Entries /\ Counted)'
    BY <1>1 DEF TunnelInv, PairingTypeOK, Entries, Counted, Held
  <1>3. pipe \in [Device -> Pipes] /\ \A d \in Device : Fit(pipe[d])
    BY DEF TunnelInv, Carried
  <1>4. pipe' \in [Device -> Pipes] /\ \A d \in Device : Fit(pipe'[d])
    <2>1. q \in Pipes /\ \A d \in Device : pipe'[d] = IF d = x THEN q ELSE pipe[d]
      BY <1>3 DEF Fit
    <2>2. pipe' \in [Device -> Pipes]
      BY <1>3, <2>1
    <2>3. \A d \in Device : Fit(pipe'[d])
      <3> TAKE d \in Device
      <3> QED  BY <1>3, <2>1
    <2> QED  BY <2>2, <2>3
  <1>5. Carried'
    BY <1>1, <1>4 DEF TunnelInv, Carried, Fit
  <1> QED  BY <1>2, <1>5 DEF TunnelInv

LEMMA BecomeTyped ==
  ASSUME TunnelInv, Rest, NEW x \in Device, NEW q, Fit(q), Become(x, q), down' \in [Device -> Seq(Frame)],
         wrote' \in [Device -> Nat], got' \in [Device -> Nat], late' \subseteq Device,
         closed' \in [Device -> {"no", "early", "clean"}]
  PROVE  TunnelInv'
  <1>1. up' \in [Device -> Seq(Frame)]
    <2>1. up \in [Device -> Seq(Frame)] /\ up[x] \in Seq(Frame) /\ "close" \in Frame
      BY PipeAt DEF Frame
    <2>2. Append(up[x], "close") \in Seq(Frame)
      BY <2>1, AppendProperties
    <2>3. up' = up \/ up' = [up EXCEPT ![x] = Append(up[x], "close")]
      BY DEF Become
    <2> QED  BY <2>1, <2>2, <2>3
  <1> QED  BY <1>1, PipeTyped DEF Become

LEMMA FieldsFit ==
  ASSUME NEW p, Fit(p)
  PROVE  /\ Fit([p EXCEPT !.in = p.in + 1]) /\ Fit([p EXCEPT !.pend = p.pend + 1])
         /\ Fit([p EXCEPT !.tcp = "on"]) /\ Fit([p EXCEPT !.ws = "on"]) /\ Fit([p EXCEPT !.check = FALSE])
         /\ p.tcpq > 0 => Fit([p EXCEPT !.tcpq = p.tcpq - 1])
  <1>1. /\ p \in Pipes /\ p.in + 1 \in Nat /\ p.pend + 1 \in Nat /\ Len(p.wsq) <= HighWater
        /\ p.tcpq > 0 => p.tcpq - 1 \in 0 .. HighWater
    BY Bound DEF Fit
  <1>2. \A n \in Nat : [p EXCEPT !.in = n] \in Pipes /\ [p EXCEPT !.in = n].wsq = p.wsq
    BY <1>1 DEF Pipes
  <1>3. \A n \in Nat : [p EXCEPT !.pend = n] \in Pipes /\ [p EXCEPT !.pend = n].wsq = p.wsq
    BY <1>1 DEF Pipes
  <1>4. \A n \in 0 .. HighWater : [p EXCEPT !.tcpq = n] \in Pipes /\ [p EXCEPT !.tcpq = n].wsq = p.wsq
    BY <1>1 DEF Pipes
  <1>5. /\ [p EXCEPT !.tcp = "on"] \in Pipes /\ [p EXCEPT !.tcp = "on"].wsq = p.wsq
        /\ [p EXCEPT !.ws = "on"] \in Pipes /\ [p EXCEPT !.ws = "on"].wsq = p.wsq
        /\ [p EXCEPT !.check = FALSE] \in Pipes /\ [p EXCEPT !.check = FALSE].wsq = p.wsq
    BY <1>1 DEF Pipes
  <1> QED  BY <1>1, <1>2, <1>3, <1>4, <1>5 DEF Fit

LEMMA AppTyped ==
  ASSUME TunnelInv, NEW x \in Device, AppWrites(x) \/ AppCloses(x)
  PROVE  TunnelInv'
  <1>1. PICK p : p = pipe[x]
    OBVIOUS
  <1>2. Fit(p)
    BY <1>1, PipeAt
  <1>3. CASE AppWrites(x)
    <2>1. PICK a : a = [p EXCEPT !.in = p.in + 1]
      OBVIOUS
    <2>2. Become(x, ToWs(a)) /\ Rest /\ wrote' = [wrote EXCEPT ![x] = wrote[x] + 1] /\ UNCHANGED <<down, got, late, closed>>
      BY <1>1, <1>3, <2>1 DEF AppWrites
    <2>3. Fit(ToWs(a))
      BY <1>2, <2>1, FieldsFit, ToWsFits
    <2>4. wrote' \in [Device -> Nat]
      BY <2>2, PipeAt
    <2> QED  BY <2>2, <2>3, <2>4, PipeAt, BecomeTyped
  <1>4. CASE AppCloses(x)
    <2>1. /\ Become(x, TcpFinished(p, "gone")) /\ Rest /\ UNCHANGED <<down, wrote, got, late>>
          /\ closed' = [closed EXCEPT ![x] = IF p.ws = "opening" THEN "early" ELSE "clean"]
      BY <1>1, <1>4 DEF AppCloses
    <2>2. Fit(TcpFinished(p, "gone"))
      BY <1>2, TcpFinishedFits
    <2>3. closed' \in [Device -> {"no", "early", "clean"}]
      BY <2>1, PipeAt
    <2> QED  BY <2>1, <2>2, <2>3, PipeAt, BecomeTyped
  <1> QED  BY <1>3, <1>4

LEMMA TcpTyped ==
  ASSUME TunnelInv, NEW x \in Device, TcpConnects(x) \/ TcpWritten(x)
  PROVE  TunnelInv'
  <1>1. PICK p : p = pipe[x]
    OBVIOUS
  <1>2. Fit(p)
    BY <1>1, PipeAt
  <1>3. CASE TcpConnects(x)
    <2>1. PICK a : a = [p EXCEPT !.tcp = "on"]
      OBVIOUS
    <2>2. /\ Become(x, ToTcp(a)) \/ Become(x, TcpFinished(p, "refused"))
          /\ Rest /\ UNCHANGED <<down, wrote, got, late, closed>>
      BY <1>1, <1>3, <2>1 DEF TcpConnects
    <2>3. Fit(ToTcp(a)) /\ Fit(TcpFinished(p, "refused"))
      BY <1>2, <2>1, FieldsFit, ToTcpFits, TcpFinishedFits
    <2> QED  BY <2>2, <2>3, PipeAt, BecomeTyped
  <1>4. CASE TcpWritten(x)
    <2>1. PICK a : a = [p EXCEPT !.tcpq = p.tcpq - 1]
      OBVIOUS
    <2>2. /\ p.tcpq > 0 /\ Become(x, DropIfDrained(ToTcp(a))) /\ Rest /\ late' \subseteq late \cup {x}
          /\ got' = [got EXCEPT ![x] = got[x] + 1] /\ UNCHANGED <<down, wrote, closed>>
      BY <1>1, <1>4, <2>1 DEF TcpWritten
    <2>3. Fit(DropIfDrained(ToTcp(a)))
      BY <1>2, <2>1, <2>2, FieldsFit, ToTcpFits, DropIfDrainedFits
    <2>4. got' \in [Device -> Nat]
      BY <2>2, PipeAt
    <2> QED  BY <2>2, <2>3, <2>4, PipeAt, BecomeTyped
  <1> QED  BY <1>3, <1>4

LEMMA WsTyped ==
  ASSUME TunnelInv, NEW x \in Device, WsWritten(x) \/ WsReceives(x) \/ WsEnds(x)
  PROVE  TunnelInv'
  <1>1. PICK p, s : p = pipe[x] /\ s = down[x]
    OBVIOUS
  <1>2. Fit(p) /\ s \in Seq(Frame)
    BY <1>1, PipeAt
  <1>3. CASE WsWritten(x)
    <2>1. PICK t, a, u : t = Tail(p.wsq) /\ a = [p EXCEPT !.wsq = t] /\ u = Append(up[x], Head(p.wsq))
      OBVIOUS
    <2>2. /\ p.wsq # << >> /\ pipe' = [pipe EXCEPT ![x] = Progress(a)] /\ up' = [up EXCEPT ![x] = u]
          /\ Rest /\ UNCHANGED <<down, wrote, got, late, closed>>
      BY <1>1, <1>3, <2>1 DEF WsWritten
    <2>3. p \in Pipes /\ p.wsq \in Seq({"data", "eof"}) /\ Len(p.wsq) \in 0 .. HighWater /\ HighWater \in Nat
      BY <1>2, Bound
    <2>4. t \in Seq({"data", "eof"}) /\ Len(t) = Len(p.wsq) - 1 /\ Head(p.wsq) \in {"data", "eof"}
      BY <2>1, <2>2, <2>3, HeadTailProperties
    <2>5. a \in Pipes /\ a.wsq = t
      BY <2>1, <2>3, <2>4 DEF Pipes
    <2>6. Fit(Progress(a))
      <3>1. Len(t) <= HighWater
        BY <2>3, <2>4
      <3> QED  BY <2>5, <3>1, ProgressFits DEF Fit
    <2>7. up' \in [Device -> Seq(Frame)]
      <3>1. up[x] \in Seq(Frame) /\ Head(p.wsq) \in Frame
        BY <2>4, PipeAt DEF Frame
      <3>2. u \in Seq(Frame)
        BY <2>1, <3>1, AppendProperties
      <3> QED  BY <2>2, <3>2, PipeAt
    <2> QED  BY <2>2, <2>6, <2>7, PipeAt, PipeTyped
  <1>4. CASE WsReceives(x)
    <2>1. PICK a : a = [p EXCEPT !.pend = p.pend + 1]
      OBVIOUS
    <2>2. /\ s # << >> /\ down' = [down EXCEPT ![x] = Tail(s)] /\ Become(x, ToTcp(a)) /\ Rest
          /\ UNCHANGED <<wrote, got, late, closed>>
      BY <1>1, <1>4, <2>1 DEF WsReceives
    <2>3. Fit(ToTcp(a))
      BY <1>2, <2>1, FieldsFit, ToTcpFits
    <2>4. Tail(s) \in Seq(Frame)
      BY <1>2, <2>2, HeadTailProperties
    <2>5. down' \in [Device -> Seq(Frame)]
      BY <2>2, <2>4, PipeAt
    <2> QED  BY <2>2, <2>3, <2>5, PipeAt, BecomeTyped
  <1>5. CASE WsEnds(x)
    <2>1. /\ pipe' = [pipe EXCEPT ![x] = WsFinished(p)] /\ down' = [down EXCEPT ![x] = Front(s)]
          /\ s # << >> /\ Rest /\ UNCHANGED <<up, wrote, got, late, closed>>
      BY <1>1, <1>5 DEF WsEnds
    <2>2. Front(s) \in Seq(Frame)
      <3>1. s \in Seq(Frame) /\ Len(s) \in Nat /\ Len(s) # 0
        BY <1>1, <2>1, PipeAt, FramesOf, EmptySeq
      <3>2. 1 \in 1 .. Len(s) + 1 /\ Len(s) - 1 \in 0 .. Len(s)
        BY <3>1
      <3> QED  BY <3>1, <3>2, SubSeqProperties DEF Front
    <2>3. down' \in [Device -> Seq(Frame)]
      BY <2>1, <2>2, PipeAt
    <2> QED  BY <1>2, <2>1, <2>3, PipeAt, WsFinishedFits, PipeTyped
  <1> QED  BY <1>3, <1>4, <1>5

LEMMA TimedTyped ==
  ASSUME TunnelInv, NEW x \in Device, TailChecked(x) \/ FallbackFires(x)
  PROVE  TunnelInv'
  <1>1. PICK p, a : p = pipe[x] /\ a = [p EXCEPT !.check = FALSE]
    OBVIOUS
  <1>2. Fit(p) /\ p.tcp \in {"none", "opening", "on", "refused", "gone"}
    BY <1>1, PipeAt, PipeFields DEF Fit
  <1>3. Fit(DropIfDrained(ToTcp(a))) /\ Fit(Deleted(p.tcp))
    BY <1>1, <1>2, FieldsFit, ToTcpFits, DropIfDrainedFits, BuiltFits
  <1>4. /\ Become(x, DropIfDrained(ToTcp(a))) \/ Become(x, Deleted(p.tcp))
        /\ Rest /\ UNCHANGED <<down, wrote, got, late, closed>>
    BY <1>1 DEF TailChecked, FallbackFires
  <1> QED  BY <1>3, <1>4, PipeAt, BecomeTyped

LEMMA OpensTyped ==
  ASSUME TunnelInv, WsConnects \/ WsPaired
  PROVE  TunnelInv'
  <1>1. "near" \in Device /\ "far" \in Device
    BY TwoDevices
  <1>2. CASE WsConnects
    <2>1. PICK a : a = [pipe["near"] EXCEPT !.ws = "on"]
      OBVIOUS
    <2>2. Become("near", Progress(a)) /\ Rest /\ UNCHANGED <<down, wrote, got, late, closed>>
      BY <1>2, <2>1 DEF WsConnects
    <2>3. Fit(pipe["near"])
      BY <1>1, PipeAt
    <2>4. Fit(Progress(a))
      BY <2>1, <2>3, FieldsFit, ProgressFits
    <2> QED  BY <1>1, <2>2, <2>4, PipeAt, BecomeTyped
  <1>3. CASE WsPaired
    <2>1. /\ down["far"] # << >> /\ down' = [down EXCEPT !["far"] = Tail(down["far"])]
          /\ Become("far", Built("opening", "on")) /\ Rest /\ UNCHANGED <<wrote, got, late, closed>>
      BY <1>3 DEF WsPaired
    <2>2. Tail(down["far"]) \in Seq(Frame)
      BY <1>1, <2>1, PipeAt, HeadTailProperties
    <2>3. down' \in [Device -> Seq(Frame)]
      BY <1>1, <2>1, <2>2, PipeAt
    <2> QED  BY <1>1, <2>1, <2>3, BuiltFits, PipeAt, BecomeTyped
  <1> QED  BY <1>2, <1>3

LEMMA SentTyped ==
  ASSUME TunnelInv
  PROVE  /\ \A d \in Device : Sent(d, "data") \in Seq(Frame) /\ Sent(d, "close") \in Seq(Frame)
         /\ Shut \in [Device -> Seq(Frame)]
  <1>1. ASSUME NEW d \in Device, NEW f \in Frame
        PROVE  Sent(d, f) \in Seq(Frame)
    <2>1. down[d] \in Seq(Frame)
      BY PipeAt
    <2>2. Append(down[d], f) \in Seq(Frame)
      BY <2>1, AppendProperties
    <2> QED  BY <2>1, <2>2 DEF Sent
  <1>2. \A d \in Device : Sent(d, "data") \in Seq(Frame) /\ Sent(d, "close") \in Seq(Frame)
    BY <1>1 DEF Frame
  <1> QED  BY <1>2 DEF Shut

\* The server's steps leave the Pipes alone.
LEMMA ServerTyped ==
  ASSUME TunnelInv, (PairingTypeOK /\ Entries /\ Counted)', UNCHANGED <<pipe, wrote, got, late, closed>>,
         up' \in [Device -> Seq(Frame)], down' \in [Device -> Seq(Frame)],
         hold' \in Device \cup {"none"}, eof' \subseteq Device, broken' \in BOOLEAN
  PROVE  TunnelInv'
  BY DEF TunnelInv, Carried, Fit

LEMMA PairingStays ==
  ASSUME TunnelInv, UNCHANGED pairing
  PROVE  (PairingTypeOK /\ Entries /\ Counted)'
  BY DEF TunnelInv, PairingTypeOK, Entries, Counted, Held, pairing

LEMMA Flags ==
  ASSUME TunnelInv
  PROVE  /\ hold \in Device \cup {"none"} /\ eof \subseteq Device /\ broken \in BOOLEAN
         /\ up \in [Device -> Seq(Frame)] /\ down \in [Device -> Seq(Frame)]
         /\ pipe \in [Device -> Pipes] /\ \A d \in Device : Fit(pipe[d])
  BY DEF TunnelInv, Carried

LEMMA DialsTyped ==
  ASSUME TunnelInv, NEW x \in Socket, Dials(x)
  PROVE  TunnelInv'
  <1>1. Dial(x) /\ UNCHANGED <<up, down, hold, eof, wrote, got, late, closed, broken>>
    BY DEF Dials
  <1>2. (PairingTypeOK /\ Entries /\ Counted)'
    <2>1. Entries' /\ waiting' = waiting
      <3>1. at[x] = "idle" /\ at' = [at EXCEPT ![x] = "dialing"] /\ waiting' = waiting
        BY <1>1 DEF Dial
      <3>2. \A y \in Socket : at[y] = "parked" => at'[y] = "parked"
        BY <3>1, TunnelFacts
      <3>3. \A r \in Role : \A i \in 1 .. Len(waiting[r]) : waiting[r][i].who \in Socket
        BY TunnelFacts, QueueOf
      <3> QED  BY <3>1, <3>2, <3>3, TunnelFacts DEF Entries
    <2>2. at' \in [Socket -> Places] /\ \A y \in Channel : at'[y] \notin {"paired", "ended"}
      BY <1>1, TunnelFacts, Roles DEF Dial, Places, TailTyped
    <2>3. BooksKept
      BY <1>1, DialBooks
    <2>4. Held' \in SUBSET Socket /\ slots' = Cardinality(Held')
      BY <2>3 DEF Held, BooksKept, Counted
    <2>5. slots' \in Nat
      BY <2>4, SocketsOf
    <2> QED  BY <2>1, <2>2, <2>3, <2>5, TunnelFacts DEF BooksKept, PairingTypeOK, TailTyped
  <1>3. pipe' \in [Device -> Pipes] /\ \A d \in Device : Fit(pipe'[d])
    <2>1. CASE x # Watched
      BY <1>1, <2>1, Flags DEF Dials
    <2>2. CASE x = Watched
      <3>1. PICK q : q = Built("on", "opening")
        OBVIOUS
      <3>2. Fit(q) /\ q \in Pipes
        BY <3>1, BuiltFits DEF Fit
      <3>3. pipe' = [pipe EXCEPT !["near"] = q]
        BY <2>2, <3>1 DEF Dials
      <3>4. pipe' \in [Device -> Pipes] /\ \A d \in Device : pipe'[d] = IF d = "near" THEN q ELSE pipe[d]
        BY <3>2, <3>3, PipeAt, TwoDevices
      <3> QED  BY <3>2, <3>4, PipeAt
    <2> QED  BY <2>1, <2>2
  <1> QED  BY <1>1, <1>2, <1>3 DEF TunnelInv, Carried, Fit

\* A step of the pairing, and what the sockets are told of it.
LEMMA ToldTyped ==
  ASSUME TunnelInv, PairingMoves, BooksKept, Told
  PROVE  TunnelInv'
  <1>1. UNCHANGED <<pipe, up, hold, eof, wrote, got, late, closed, broken>>
    BY DEF Told
  <1>2. \/ down' = down \/ down' = Shut
        \/ down' = [down EXCEPT !["near"] = Sent("near", "close")]
        \/ down' = [down EXCEPT !["far"] = <<"paired">>]
    BY DEF Told
  <1>3. down' \in [Device -> Seq(Frame)]
    <2>1. <<"paired">> \in Seq(Frame) /\ Sent("near", "close") \in Seq(Frame)
      BY SentTyped, TwoDevices DEF Frame
    <2>2. down \in [Device -> Seq(Frame)] /\ Shut \in [Device -> Seq(Frame)]
      BY SentTyped, Flags
    <2>3. \A v \in Seq(Frame) : [down EXCEPT !["near"] = v] \in [Device -> Seq(Frame)]
      BY <2>2
    <2>4. \A v \in Seq(Frame) : [down EXCEPT !["far"] = v] \in [Device -> Seq(Frame)]
      BY <2>2
    <2> QED  BY <1>2, <2>1, <2>2, <2>3, <2>4
  <1> QED  BY <1>1, <1>3, PairingKept, Flags, ServerTyped

LEMMA PumpsTyped ==
  ASSUME TunnelInv, Pumps \/ PumpIdles
  PROVE  TunnelInv'
  <1>1. CASE SendsOn
    <2>1. PICK to : to = Peer(hold)
      OBVIOUS
    <2>2. hold # "none" /\ hold' = "none" /\ down' = [down EXCEPT ![to] = Sent(to, "data")]
          /\ UNCHANGED <<pairing, pipe, up, eof, wrote, got, late, closed, broken>>
      BY <1>1, <2>1 DEF SendsOn
    <2>3. to \in Device
      BY <2>1, <2>2, Flags, TwoDevices
    <2>4. down' \in [Device -> Seq(Frame)]
      BY <2>2, <2>3, SentTyped, PipeAt
    <2> QED  BY <2>2, <2>4, PairingStays, Flags, TwoDevices, ServerTyped
  <1>2. ASSUME NEW d \in Device, Polls(d)
        PROVE  up' \in [Device -> Seq(Frame)]
    <2>1. up[d] # << >> /\ up' = [up EXCEPT ![d] = Tail(up[d])]
      BY <1>2 DEF Polls
    <2>2. Tail(up[d]) \in Seq(Frame)
      BY <2>1, PipeAt, HeadTailProperties
    <2> QED  BY <2>1, <2>2, PipeAt
  <1>3. ASSUME NEW d \in Device, PicksUp(d) PROVE TunnelInv'
    <2>1. Polls(d) /\ hold' = d /\ UNCHANGED <<pairing, pipe, down, eof, wrote, got, late, closed, broken>>
      BY <1>3 DEF PicksUp
    <2> QED  BY <1>2, <2>1, PairingStays, Flags, ServerTyped
  <1>4. ASSUME NEW d \in Device, ReadsEof(d) PROVE TunnelInv'
    <2>1. /\ Polls(d) /\ eof' = eof \cup {d} /\ UNCHANGED <<pipe, hold, wrote, got, late, closed, broken>>
          /\ (PumpEnds(Watched) /\ down' = Shut) \/ UNCHANGED <<pairing, down>>
      BY <1>4 DEF ReadsEof
    <2>2. (PairingTypeOK /\ Entries /\ Counted)' /\ down' \in [Device -> Seq(Frame)]
      <3>1. CASE PumpEnds(Watched) /\ down' = Shut
        BY <3>1, PumpEndsTyped, SentTyped
      <3>2. CASE UNCHANGED <<pairing, down>>
        BY <3>2, PairingStays, PipeAt
      <3> QED  BY <2>1, <3>1, <3>2
    <2>3. eof' \subseteq Device
      BY <2>1, Flags
    <2> QED  BY <1>2, <2>1, <2>2, <2>3, Flags, ServerTyped
  <1>5. ASSUME NEW d \in Device, ReadsEnd(d) PROVE TunnelInv'
    <2>1. Polls(d) /\ PumpEnds(Watched) /\ down' = Shut /\ UNCHANGED <<pipe, hold, eof, wrote, got, late, closed, broken>>
      BY <1>5 DEF ReadsEnd
    <2> QED  BY <1>2, <2>1, PumpEndsTyped, SentTyped, Flags, ServerTyped
  <1>6. CASE PumpIdles
    <2>1. /\ PumpEnds(Watched) /\ down' = Shut /\ broken' = TRUE /\ hold' = "none"
          /\ UNCHANGED <<pipe, up, eof, wrote, got, late, closed>>
      BY <1>6 DEF PumpIdles
    <2> QED  BY <2>1, PumpEndsTyped, SentTyped, Flags, ServerTyped
  <1> QED  BY <1>1, <1>3, <1>4, <1>5, <1>6 DEF Pumps

LEMMA LostTyped ==
  ASSUME TunnelInv, NEW x \in Device, SocketLost(x)
  PROVE  TunnelInv'
  <1>1. /\ up' = [up EXCEPT ![x] = <<"close">>] /\ down' = [down EXCEPT ![x] = <<"close">>] /\ broken' = TRUE
        /\ UNCHANGED <<pairing, pipe, hold, eof, wrote, got, late, closed>>
    BY DEF SocketLost
  <1>2. <<"close">> \in Seq(Frame)
    BY DEF Frame
  <1>3. up' \in [Device -> Seq(Frame)] /\ down' \in [Device -> Seq(Frame)]
    BY <1>1, <1>2, PipeAt
  <1> QED  BY <1>1, <1>3, PairingStays, Flags, ServerTyped

LEMMA TunnelInit ==
  ASSUME RelayInit
  PROVE  TunnelInv
  <1>1. /\ pipe = [d \in Device |-> NotBuilt] /\ up = [d \in Device |-> << >>] /\ down = [d \in Device |-> << >>]
        /\ hold = "none" /\ eof = {} /\ wrote = [d \in Device |-> 0] /\ got = [d \in Device |-> 0]
        /\ late = {} /\ closed = [d \in Device |-> "no"] /\ broken = FALSE
        /\ session = TRUE /\ slots = 0 /\ giveUps = 0 /\ crossed = {} /\ mate = [c \in Conn |-> NoMate]
        /\ at = [x \in Socket |-> "idle"] /\ waiting = [role \in Role |-> << >>]
    BY DEF RelayInit, PairingInit
  <1>2. Fit(NotBuilt)
    BY BuiltFits
  <1>3. Carried
    <2>1. NotBuilt \in Pipes /\ \A d \in Device : Fit(pipe[d])
      BY <1>1, <1>2 DEF Fit
    <2>2. << >> \in Seq(Frame) /\ 0 \in Nat
      OBVIOUS
    <2>3. /\ pipe \in [Device -> Pipes] /\ up \in [Device -> Seq(Frame)] /\ down \in [Device -> Seq(Frame)]
          /\ wrote \in [Device -> Nat] /\ got \in [Device -> Nat] /\ closed \in [Device -> {"no", "early", "clean"}]
      BY <1>1, <2>1, <2>2
    <2> QED  BY <1>1, <2>1, <2>3 DEF Carried
  <1>4. Counted
    <2>1. Held = {}
      BY <1>1 DEF Held
    <2> QED  BY <1>1, <2>1, FS_EmptySet, PairingAssumption DEF Counted, PairingAssumption
  <1>5. Entries
    BY <1>1 DEF Entries
  <1>6. PairingTypeOK
    <2>1. at \in [Socket -> Places] /\ \A x \in Channel : at[x] \notin {"paired", "ended"}
      BY <1>1, Roles DEF Places
    <2>2. waiting \in [Role -> Seq([who : Socket, live : BOOLEAN])]
      BY <1>1
    <2>3. giveUps \in 0 .. MaxGiveUps
      BY <1>1, PairingAssumption DEF PairingAssumption
    <2> QED  BY <1>1, <2>1, <2>2, <2>3 DEF PairingTypeOK
  <1> QED  BY <1>3, <1>4, <1>5, <1>6 DEF TunnelInv

LEMMA TunnelStep ==
  ASSUME TunnelInv, [RelayNext]_relayVars
  PROVE  TunnelInv'
  <1>1. CASE UNCHANGED relayVars
    <2>1. UNCHANGED pairing /\ UNCHANGED <<pipe, up, down, hold, eof, wrote, got, late, closed, broken>>
      BY <1>1 DEF relayVars, carried, pairing
    <2> QED  BY <2>1, PairingStays, Flags, ServerTyped
  <1>2. ASSUME NEW x \in Socket, Dials(x) PROVE TunnelInv'
    BY <1>2, DialsTyped
  <1>3. ASSUME NEW x \in Socket, Serves(x) \/ GivesUp(x) PROVE TunnelInv'
    <2>1. Told /\ PairingMoves
      BY <1>3, TunnelFacts, AdmitMoves, JoinMoves, ParkMoves, GiveUpMoves DEF Serves, Served, GivesUp
    <2>2. BooksKept
      BY <1>3, AdmitBooks, JoinBooks, ParkBooks, GiveUpBooks DEF Serves, Served, GivesUp
    <2> QED  BY <2>1, <2>2, ToldTyped
  <1>4. CASE SessionLost
    BY <1>4, TunnelFacts, SessionMoves, SessionBooks, ToldTyped DEF SessionLost
  <1>5. ASSUME NEW x \in Device, AppWrites(x) \/ AppCloses(x) \/ SocketLost(x) PROVE TunnelInv'
    BY <1>5, AppTyped, LostTyped
  <1>6. ASSUME NEW x \in Device, PipeEvent(x) PROVE TunnelInv'
    BY <1>6, TcpTyped, WsTyped, TimedTyped DEF PipeEvent
  <1>7. CASE WsConnects \/ WsPaired \/ Pumps \/ PumpIdles
    BY <1>7, OpensTyped, PumpsTyped
  <1> QED  BY <1>1, <1>2, <1>3, <1>4, <1>5, <1>6, <1>7 DEF RelayNext

\* Every variable of the relay and of the two Pipes stays within its type; no queue of a
\* Pipe passes the high-water mark (pumpToWebSocket(), pumpToTcp()).
THEOREM TunnelTypeCorrect == RelaySpec => []RelayTypeOK
  <1>1. TunnelInv => RelayTypeOK
    BY DEF TunnelInv, Carried, RelayTypeOK
  <1> QED  BY <1>1, TunnelInit, TunnelStep, PTL DEF RelaySpec

\* relay_conns counts one slot for every socket that looks for its half or waits for it and
\* one for every pair, in whatever order they are admitted, look, park, give up, pump and
\* end, and when their session is revoked: none is lost or given back twice, and there are
\* never more than relay_max_conns (relay_ws(), join(), pump()).
THEOREM SlotsAddUp == RelaySpec => [](slots = Cardinality(Held) /\ slots <= Limit)
  <1>1. TunnelInv => slots = Cardinality(Held) /\ slots <= Limit
    BY DEF TunnelInv, Counted
  <1> QED  BY <1>1, TunnelInit, TunnelStep, PTL DEF RelaySpec
-----------------------------------------------------------------------------
(* The account session                                                     *)

USE BoundsAssumption DEF BoundsAssumption

-----------------------------------------------------------------------------
(* Types                                                                   *)

LEMMA NewTyped ==
  ASSUME NEW is \in Kinds, NEW owner \in Req \cup {Auth}, NEW token \in Pair, NEW retry \in BOOLEAN
  PROVE  New(is, owner, token, retry) \in Call
  BY DEF New, Call, Pair

\* What an invalidation makes of a call: everything but "at" is as it was, and nobody
\* waits for it.
LEMMA InvalidatedOf ==
  ASSUME calls \subseteq Call, NEW d \in Invalidated(calls)
  PROVE  /\ d \in Call /\ d.at \in {"orphan", "stale"}
         /\ \E c \in calls : d.is = c.is /\ d.token = c.token /\ d.brings = c.brings
  <1>1. PICK c \in calls :
          d = CASE c.at = "sent" -> [c EXCEPT !.at = "orphan"]
                [] c.at = "answered" -> [c EXCEPT !.at = "stale"]
                [] OTHER -> c
    BY DEF Invalidated
  <1>2. c \in Call /\ c.at \in {"sent", "answered", "orphan", "stale"}
    BY DEF Call
  <1>3. CASE c.at = "sent"
    BY <1>1, <1>2, <1>3 DEF Call
  <1>4. CASE c.at = "answered"
    BY <1>1, <1>2, <1>4 DEF Call
  <1>5. CASE c.at \in {"orphan", "stale"}
    BY <1>1, <1>2, <1>5 DEF Call
  <1> QED  BY <1>2, <1>3, <1>4, <1>5

LEMMA AnswerOf ==
  ASSUME calls \subseteq Call, NEW c \in calls, NEW status \in {"due", "ok", "refused", "none"},
         NEW brings \in Pair, Answer(c, status, brings)
  PROVE  /\ calls' \subseteq Call
         /\ \A d \in calls' :
              \/ d \in calls
              \/ /\ c.at = "sent" /\ d.at = "answered" /\ d.status = status /\ d.brings = brings
                 /\ d.is = c.is /\ d.token = c.token
         /\ \A d \in calls : d # c => d \in calls'
  <1>1. CASE c.at # "sent"
    BY <1>1 DEF Answer
  <1>2. CASE c.at = "sent"
    <2>1. PICK n : n = [c EXCEPT !.at = "answered", !.status = status, !.brings = brings]
      OBVIOUS
    <2>2. calls' = (calls \ {c}) \cup {n}
      BY <1>2, <2>1 DEF Answer
    <2>3. /\ n \in Call /\ n.at = "answered" /\ n.status = status /\ n.brings = brings
          /\ n.is = c.is /\ n.token = c.token
      BY <2>1 DEF Call
    <2> QED  BY <1>2, <2>2, <2>3
  <1> QED  BY <1>1, <1>2

LEMMA SupersededTyped ==
  ASSUME TypeOK PROVE Superseded \in [Req -> {"new", "open", "done", "failed", "superseded"}]
  BY DEF TypeOK, Superseded

LEMMA TypeInit == Init => TypeOK
  <1> SUFFICES ASSUME Init PROVE TypeOK
    OBVIOUS
  <1>1. pair \in Pair /\ issued \in Pair /\ access \in Pair /\ refresh \in Pair /\ ring \in Pair
    BY DEF Init, Pair
  <1>2. signs \in 0..MaxSigns /\ losses \in 0..MaxLosses /\ refusals \in 0..MaxRefusals
    BY DEF Init
  <1>3. req \in [Req -> {"new", "open", "done", "failed", "superseded"}]
    BY DEF Init
  <1> QED  BY <1>1, <1>2, <1>3 DEF Init, TypeOK

LEMMA BlamesTyped ==
  ASSUME TypeOK, NEW why \in {"lost", "stray", "raced", "removed", "overtaken"},
         NEW blamed, Blames(why, blamed)
  PROVE  cause' \in {"none", "lost", "stray", "raced", "removed", "overtaken"}
  BY DEF TypeOK, Blames

\* invalidateAuthentication() and what follows it keep the types.
LEMMA StartOverTyped ==
  ASSUME TypeOK, NEW newCalls, newCalls \subseteq Call, NEW newRefresh \in Pair, NEW names \in BOOLEAN,
         StartOver(newCalls, newRefresh, names)
  PROVE  /\ calls' \subseteq Call /\ access' \in Pair /\ refresh' \in Pair /\ named' \in BOOLEAN
         /\ ring' \in Pair /\ behind' \in BOOLEAN /\ refusals' \in 0..MaxRefusals /\ losses' \in 0..MaxLosses
         /\ req' \in [Req -> {"new", "open", "done", "failed", "superseded"}]
         /\ pair' \in Pair /\ fresh' \in BOOLEAN /\ issued' \in Pair
         /\ cause' \in {"none", "lost", "stray", "raced", "removed", "overtaken"}
  <1>1. calls' \subseteq Call
    BY InvalidatedOf DEF TypeOK, StartOver
  <1>2. cause' \in {"none", "lost", "stray", "raced", "removed", "overtaken"}
    BY BlamesTyped DEF StartOver, Strays
  <1>3. 0 \in Pair
    BY DEF Pair
  <1> QED  BY <1>1, <1>2, <1>3, SupersededTyped DEF TypeOK, StartOver, server, keyring

LEMMA ServeTyped == ASSUME TypeOK, NEW c \in calls, Serve(c) PROVE TypeOK'
  <1> USE DEF TypeOK
  <1>1. c \in Call /\ 0 \in Pair
    BY DEF Pair
  <1>2. UNCHANGED <<tokens, named, req, bounds, signedOut>>
    BY DEF Serve
  <1>3. ASSUME Issue(c) PROVE calls' \subseteq Call /\ pair' \in Pair /\ fresh' \in BOOLEAN /\ issued' \in Pair
    <2>1. issued + 1 \in Pair
      BY <1>3 DEF Issue, Pair
    <2> QED  BY <2>1, <1>3, AnswerOf DEF Issue
  <1>4. ASSUME NEW status \in {"ok", "refused"}, Answer(c, status, 0), UNCHANGED server
        PROVE  calls' \subseteq Call /\ pair' \in Pair /\ fresh' \in BOOLEAN /\ issued' \in Pair
    BY <1>1, <1>4, AnswerOf DEF server
  <1>5. CASE ServeRevoke(c)
    BY <1>1, <1>2, <1>5, BlamesTyped DEF ServeRevoke, tokens, keyring, bounds
  <1>6. CASE ServeUse(c) /\ UNCHANGED cause
    BY <1>2, <1>4, <1>6 DEF ServeUse, tokens, keyring, bounds
  <1>7. CASE ServeRefresh(c) /\ UNCHANGED cause
    BY <1>2, <1>3, <1>4, <1>7 DEF ServeRefresh, tokens, keyring, bounds
  <1>8. CASE ServeLogin(c) /\ UNCHANGED cause
    BY <1>2, <1>3, <1>4, <1>8 DEF ServeLogin, tokens, keyring, bounds
  <1>9. CASE ServeLogout(c) /\ UNCHANGED cause
    <2>1. [c EXCEPT !.is = "revoke"] \in Call
      BY <1>1 DEF Call, Kinds
    <2> QED  BY <2>1, <1>2, <1>9 DEF ServeLogout, server, tokens, keyring, bounds
  <1> QED  BY <1>5, <1>6, <1>7, <1>8, <1>9 DEF Serve

LEMMA SignTyped == ASSUME TypeOK, MaySign PROVE signs' \in 0..MaxSigns
  BY DEF TypeOK, MaySign

\* The keyring takes a token, or refuses it.
LEMMA StoreTyped ==
  ASSUME TypeOK, NEW token \in Pair, Store(token)
  PROVE  ring' \in Pair /\ behind' \in BOOLEAN /\ refusals' \in 0..MaxRefusals
  <1>1. CASE ring' = token /\ behind' = FALSE /\ UNCHANGED refusals
    BY <1>1 DEF TypeOK
  <1>2. CASE refusals < MaxRefusals /\ refusals' = refusals + 1 /\ behind' = TRUE /\ UNCHANGED ring
    BY <1>2 DEF TypeOK
  <1> QED  BY <1>1, <1>2 DEF Store

LEMMA TypeStep == ASSUME TypeOK, [Next]_vars PROVE TypeOK'
  <1> USE DEF TypeOK
  <1>0. 0 \in Pair /\ \A c \in calls : c \in Call /\ c.owner \in Req \cup {Auth}
    BY DEF Pair, Call
  <1>1. CASE UNCHANGED vars
    BY <1>1 DEF vars, server, tokens, keyring, bounds
  <1>2. ASSUME NEW r \in Req, Use(r) PROVE TypeOK'
    <2>1. New("use", r, access, TRUE) \in Call
      BY NewTyped DEF Kinds
    <2> QED  BY <1>2, <2>1 DEF Use, server, tokens, keyring, bounds
  <1>3. CASE Login
    <2>1. {New("login", Auth, 0, FALSE)} \subseteq Call
      BY <1>0, NewTyped DEF Kinds
    <2> QED  BY <1>0, <1>3, <2>1, StartOverTyped, SignTyped DEF Login
  <1>4. CASE RegisterAccount
    BY <1>0, <1>4, StartOverTyped, SignTyped DEF RegisterAccount
  <1>5. CASE Logout
    <2>1. [New("logout", Auth, access, FALSE) EXCEPT !.at = "orphan"] \in Call
      <3>1. New("logout", Auth, access, FALSE) \in Call
        BY NewTyped DEF Kinds
      <3> QED  BY <3>1 DEF Call
    <2>2. calls' \subseteq Call
      BY <1>5, <2>1, InvalidatedOf DEF Logout
    <2>3. cause' \in {"none", "lost", "stray", "raced", "removed", "overtaken"}
      BY <1>5, BlamesTyped DEF Logout, Strays
    <2> QED  BY <1>0, <1>5, <2>2, <2>3, SupersededTyped, SignTyped, StoreTyped DEF Logout, server, keyring
  <1>6. CASE Restart
    <2>1. New("restore", Auth, ring, FALSE) \in Call
      BY NewTyped DEF Kinds
    <2>2. calls' \subseteq Call
      BY <1>6, <2>1, InvalidatedOf DEF Restart
    <2>3. cause' \in {"none", "lost", "stray", "raced", "removed", "overtaken"}
      BY <1>6, BlamesTyped DEF Restart, Strays
    <2> QED  BY <1>0, <1>6, <2>2, <2>3, SupersededTyped, SignTyped DEF Restart, server, keyring
  <1>7. CASE Expire
    BY <1>7 DEF Expire, tokens, keyring, bounds
  <1>8. CASE ForgetDevice
    BY <1>0, <1>8, BlamesTyped DEF ForgetDevice, tokens, keyring, bounds
  <1>9. ASSUME NEW c \in calls, TakeStale(c) PROVE TypeOK'
    BY <1>9 DEF TakeStale, server, tokens, keyring, bounds
  <1>10. ASSUME NEW c \in calls, TakeUse(c) PROVE TypeOK'
    <2>1. New("refresh", c.owner, refresh, FALSE) \in Call
      BY <1>0, NewTyped DEF Kinds
    <2>2. calls' \subseteq Call
      BY <1>10, <2>1 DEF TakeUse
    <2>3. req' \in [Req -> {"new", "open", "done", "failed", "superseded"}]
      BY <1>10 DEF TakeUse
    <2>4. cause' \in {"none", "lost", "stray", "raced", "removed", "overtaken"}
      BY <1>10, BlamesTyped DEF TakeUse
    <2> QED  BY <1>10, <2>2, <2>3, <2>4 DEF TakeUse, server, tokens, keyring, bounds
  <1>11. ASSUME NEW c \in calls, TakeRefresh(c) PROVE TypeOK'
    <2>1. New("use", c.owner, c.brings, FALSE) \in Call /\ c.brings \in Pair
      BY <1>0, NewTyped DEF Kinds, Call
    <2>2. calls' \subseteq Call
      BY <1>11, <2>1 DEF TakeRefresh
    <2>3. req' \in [Req -> {"new", "open", "done", "failed", "superseded"}]
      BY <1>11 DEF TakeRefresh
    <2> QED  BY <1>0, <1>11, <2>1, <2>2, <2>3, StoreTyped DEF TakeRefresh, server, bounds, keyring, Accepted
  <1>12. ASSUME NEW c \in calls, TakeSignIn(c) PROVE TypeOK'
    <2>1. c.brings \in Pair
      BY <1>0 DEF Call
    <2> QED  BY <1>0, <1>12, <2>1, StoreTyped DEF TakeSignIn, Accepted, server, bounds, tokens, keyring
  <1>13. ASSUME NEW c \in calls, Serve(c) PROVE TypeOK'
    BY <1>13, ServeTyped
  <1>14. ASSUME NEW c \in calls, TimesOut(c) PROVE TypeOK'
    <2>1. /\ [c EXCEPT !.at = "answered", !.status = "none", !.brings = 0] \in Call
          /\ [c EXCEPT !.at = "orphan"] \in Call
      BY <1>0 DEF Call
    <2>2. calls' \subseteq Call
      BY <1>14, <2>1 DEF TimesOut
    <2>3. losses' \in 0..MaxLosses
      BY <1>14 DEF TimesOut
    <2>4. cause' \in {"none", "lost", "stray", "raced", "removed", "overtaken"}
      BY <1>14, BlamesTyped DEF TimesOut
    <2> QED  BY <1>14, <2>2, <2>3, <2>4 DEF TimesOut, server, tokens, keyring
  <1> QED
    BY <1>1, <1>2, <1>3, <1>4, <1>5, <1>6, <1>7, <1>8, <1>9, <1>10, <1>11, <1>12, <1>13, <1>14
    DEF Next, UserStep, TimeStep, Take

\* Every variable has its type (AccountClient.h's fields, and the rows of "tokens").
THEOREM TypeCorrect == Spec => []TypeOK
  BY TypeInit, TypeStep, PTL DEF Spec

-----------------------------------------------------------------------------
(* A pair is new when it is issued                                         *)

\* No token that is anywhere is of a pair that is still to be issued.
Bounded ==
  /\ pair <= issued /\ access <= issued /\ refresh <= issued /\ ring <= issued
  /\ \A c \in calls : c.token <= issued /\ c.brings <= issued

LEMMA BoundedInit == Init => Bounded
  BY DEF Init, Bounded

LEMMA BoundedStep == ASSUME TypeOK, Bounded, [Next]_vars PROVE Bounded'
  <1> USE DEF Bounded
  <1>0. /\ \A c \in calls : c \in Call /\ c.token \in Nat /\ c.brings \in Nat
        /\ issued \in Nat /\ pair \in Nat /\ access \in Nat /\ refresh \in Nat /\ ring \in Nat
    BY DEF TypeOK, Pair, Call
  <1>a. \A d \in Invalidated(calls) : d.token <= issued /\ d.brings <= issued
    BY InvalidatedOf DEF TypeOK
  <1>1. CASE UNCHANGED vars
    BY <1>1 DEF vars, server, tokens, keyring
  <1>2. ASSUME NEW r \in Req, Use(r) PROVE Bounded'
    BY <1>0, <1>2 DEF Use, server, tokens, keyring, New
  <1>3. CASE Login
    BY <1>0, <1>a, <1>3 DEF Login, StartOver, server, New, keyring
  <1>4. CASE RegisterAccount
    BY <1>0, <1>a, <1>4 DEF RegisterAccount, StartOver, server, keyring
  <1>5. CASE Logout
    BY <1>0, <1>a, <1>5 DEF Logout, server, New, keyring, Store
  <1>6. CASE Restart
    BY <1>0, <1>a, <1>6 DEF Restart, server, New, keyring
  <1>7. CASE Expire
    BY <1>7 DEF Expire, tokens, keyring
  <1>8. CASE ForgetDevice
    BY <1>0, <1>8 DEF ForgetDevice, tokens, keyring
  <1>9. ASSUME NEW c \in calls, TakeStale(c) PROVE Bounded'
    BY <1>9 DEF TakeStale, server, tokens, keyring
  <1>10. ASSUME NEW c \in calls, TakeUse(c) PROVE Bounded'
    BY <1>0, <1>10 DEF TakeUse, server, tokens, keyring, New
  <1>11. ASSUME NEW c \in calls, TakeRefresh(c) PROVE Bounded'
    BY <1>0, <1>11 DEF TakeRefresh, Accepted, server, New, keyring, Store
  <1>12. ASSUME NEW c \in calls, TakeSignIn(c) PROVE Bounded'
    BY <1>0, <1>12 DEF TakeSignIn, Accepted, server, tokens, keyring, Store
  <1>13. ASSUME NEW c \in calls, Serve(c) PROVE Bounded'
    <2>1. UNCHANGED tokens
      BY <1>13 DEF Serve
    <2>2. ASSUME Issue(c) PROVE Bounded'
      <3>1. issued' = issued + 1 /\ pair' = issued + 1
        BY <2>2 DEF Issue
      <3>2. \A d \in calls' : \/ d \in calls
                              \/ d.brings = issued + 1 /\ d.token = c.token
        BY <2>2, <1>0 DEF Issue, Answer, Call
      <3> QED  BY <1>0, <2>1, <3>1, <3>2 DEF tokens, keyring
    <2>3. ASSUME NEW status, Answer(c, status, 0), UNCHANGED server PROVE Bounded'
      <3>1. \A d \in calls' : \/ d \in calls
                              \/ d.brings = 0 /\ d.token = c.token
        BY <2>3, <1>0 DEF Answer, Call
      <3> QED  BY <1>0, <2>1, <2>3, <3>1 DEF server, tokens, keyring
    <2>4. CASE ServeUse(c)
      BY <2>3, <2>4 DEF ServeUse
    <2>5. CASE ServeRefresh(c)
      BY <2>2, <2>3, <2>5 DEF ServeRefresh
    <2>6. CASE ServeLogin(c)
      BY <2>2, <2>3, <2>6 DEF ServeLogin
    <2>7. CASE ServeLogout(c)
      BY <1>0, <2>1, <2>7 DEF ServeLogout, Call, server, tokens, keyring
    <2>8. CASE ServeRevoke(c)
      BY <1>0, <2>1, <2>8 DEF ServeRevoke, tokens, keyring
    <2> QED  BY <1>13, <2>4, <2>5, <2>6, <2>7, <2>8 DEF Serve
  <1>14. ASSUME NEW c \in calls, TimesOut(c) PROVE Bounded'
    <2>1. \A d \in calls' : \/ d \in calls
                            \/ d.brings \in {0, c.brings} /\ d.token = c.token
      BY <1>0, <1>14 DEF TimesOut, Call
    <2> QED  BY <1>0, <1>14, <2>1 DEF TimesOut, server, tokens, keyring
  <1> QED
    BY <1>1, <1>2, <1>3, <1>4, <1>5, <1>6, <1>7, <1>8, <1>9, <1>10, <1>11, <1>12, <1>13, <1>14
    DEF Next, UserStep, TimeStep, Take

-----------------------------------------------------------------------------
(* A logout is final                                                       *)

\* Somebody waits for the answer of this call.
Awaited(c) == c.at \in {"sent", "answered"}

\* Once the user has signed out nobody waits for an answer any more.
SignedOff ==
  /\ signedOut \in {"yes", "refused"} =>
       access = 0 /\ refresh = 0 /\ \A c \in calls : ~Awaited(c)
  /\ signedOut = "yes" => ring = 0

LEMMA SignedOffInit == Init => SignedOff
  BY DEF Init, SignedOff

LEMMA SignedOffStep == ASSUME TypeOK, SignedOff, [Next]_vars PROVE SignedOff'
  <1> SUFFICES ASSUME signedOut' \in {"yes", "refused"}
               PROVE  /\ access' = 0 /\ refresh' = 0 /\ \A c \in calls' : ~Awaited(c)
                      /\ signedOut' = "yes" => ring' = 0
    BY DEF SignedOff
  <1> USE DEF SignedOff, Awaited
  <1>0. \A c \in calls : c \in Call
    BY DEF TypeOK
  <1>a. \A d \in Invalidated(calls) : ~Awaited(d)
    BY InvalidatedOf DEF TypeOK
  <1>1. CASE UNCHANGED vars
    BY <1>1 DEF vars, tokens, keyring
  <1>2. ASSUME NEW r \in Req, Use(r) PROVE FALSE
    BY <1>2 DEF Use
  <1>3. CASE Login
    BY <1>3 DEF Login
  <1>4. CASE RegisterAccount
    BY <1>a, <1>4 DEF RegisterAccount, StartOver, keyring
  <1>5. CASE Logout
    <2>1. [New("logout", Auth, access, FALSE) EXCEPT !.at = "orphan"].at = "orphan"
      BY DEF New
    <2> QED  BY <1>a, <1>5, <2>1 DEF Logout, Store
  <1>6. CASE Restart
    BY <1>a, <1>6 DEF Restart, keyring
  <1>7. CASE Expire \/ ForgetDevice
    BY <1>7 DEF Expire, ForgetDevice, tokens, keyring
  <1>9. ASSUME NEW c \in calls, TakeStale(c) PROVE SignedOff'
    BY <1>9 DEF TakeStale, tokens, keyring
  <1>10. ASSUME NEW c \in calls, TakeUse(c) \/ TakeRefresh(c) \/ TakeSignIn(c) \/ TimesOut(c) PROVE FALSE
    BY <1>10 DEF TakeUse, TakeRefresh, TakeSignIn, TimesOut
  <1>13. ASSUME NEW c \in calls, Serve(c) PROVE SignedOff'
    <2>1. UNCHANGED <<tokens, signedOut>>
      BY <1>13 DEF Serve
    <2>2. c.at = "orphan"
      BY <1>0, <1>13, <2>1
      DEF Serve, ServeRevoke, ServeUse, ServeRefresh, ServeLogin, ServeLogout, Reached
    <2>3. \A d \in calls' : d \in calls \/ d.at = "orphan"
      BY <1>0, <1>13, <2>2
      DEF Serve, ServeRevoke, ServeUse, ServeRefresh, ServeLogin, ServeLogout, Issue, Answer, Call
    <2> QED  BY <2>1, <2>3 DEF tokens, keyring
  <1> QED
    BY <1>1, <1>2, <1>3, <1>4, <1>5, <1>6, <1>7, <1>9, <1>10, <1>13
    DEF Next, UserStep, TimeStep, Take

\* After a logout no reply that is late signs the device in again, whatever calls
\* were under way and whenever they are served (AccountClient::logout()).
THEOREM LogoutSafe == Spec => []LogoutIsFinal
  <1>1. Init => TypeOK /\ SignedOff
    BY TypeInit, SignedOffInit
  <1>2. TypeOK /\ SignedOff /\ [Next]_vars => TypeOK' /\ SignedOff'
    BY TypeStep, SignedOffStep
  <1>3. SignedOff => LogoutIsFinal
    BY DEF SignedOff, LogoutIsFinal
  <1> QED  BY <1>1, <1>2, <1>3, PTL DEF Spec

-----------------------------------------------------------------------------
(* Without a known cause: one call brings tokens at a time                 *)

\* A call that brings tokens, and whose answer will be taken; what it was sent with
\* is still what the client holds, and what it brings what the server holds.
CarrierOf(c) ==
  /\ Awaited(c) /\ c.status # "none"
  /\ c.at = "answered" => c.status # "due"
  /\ c.is \in {"refresh", "restore"} => c.token = refresh /\ refresh # 0
  /\ c.is \in {"login", "restore"} => access = 0
  /\ c.at = "answered" /\ c.status = "ok" => c.brings = pair /\ pair # 0
  /\ c.at = "answered" /\ c.status = "refused" => c.is = "login" \/ (c.is = "restore" /\ behind)

Carriers == \A c \in calls : Carries(c) => CarrierOf(c)
OneCarrier == \A c, d \in calls : Carries(c) /\ Carries(d) => c = d

\* The call has been served and brings a pair.
Brings(c) == Carries(c) /\ c.at = "answered" /\ c.status = "ok"

\* The memory of a session holds the server's pair, and so does the keyring unless it
\* refused its last change, or the pair is on its way.
Current == (access # 0 => refresh = pair) /\ (~behind /\ ring # 0 => ring = pair)
InStep == Current \/ \E c \in calls : Brings(c)

\* Without a session no request waits.
Idle == access = 0 => \A c \in calls : c.is \in {"use", "refresh"} => ~Awaited(c)

\* The logout of a session is not about the one that followed.
Endings ==
  \A c \in calls : c.is \in {"logout", "revoke"} =>
    /\ access # 0 => c.token # refresh
    /\ ~behind /\ ring # 0 => c.token # ring
    /\ \A d \in calls : Brings(d) => c.token # d.brings

Holds ==
  /\ access = 0 /\ refresh # 0 => refresh = ring
  /\ titled => access # 0 /\ named

Order == Carriers /\ OneCarrier /\ InStep /\ Idle /\ Endings /\ Holds
Orderly == cause = "none" => Order

LEMMA OrderInit == Init => Orderly
  BY DEF Init, Orderly, Order, Carriers, OneCarrier, InStep, Current, Idle, Endings, Holds

\* A step that leaves the pairs and the calls that bring them alone.
LEMMA SameCarriers ==
  ASSUME Order, UNCHANGED <<pair, access, refresh, ring, behind>>,
         \A d : Carries(d) => (d \in calls' <=> d \in calls),
         \A d \in calls' : d.is \in {"logout", "revoke"} =>
           \E c \in calls : c.is \in {"logout", "revoke"} /\ c.token = d.token,
         access = 0 => \A d \in calls' : d.is = "use" => ~Awaited(d)
  PROVE  Carriers' /\ OneCarrier' /\ InStep' /\ Idle' /\ Endings'
  <1> USE DEF Order
  <1>1. Carriers'
    <2> SUFFICES ASSUME NEW c \in calls', Carries(c) PROVE CarrierOf(c)'
      BY DEF Carriers
    <2>1. c \in calls /\ CarrierOf(c)
      BY DEF Carriers
    <2> QED  BY <2>1 DEF CarrierOf, Awaited
  <1>2. OneCarrier'
    BY DEF OneCarrier
  <1>3. InStep'
    BY DEF InStep, Current, Brings
  <1>4. Idle'
    BY DEF Idle, Carries, Awaited
  <1>5. Endings'
    BY DEF Endings, Brings
  <1> QED  BY <1>1, <1>2, <1>3, <1>4, <1>5

\* When nobody is waiting for tokens, nobody brings them, and the keyring is right.
LEMMA Quiet ==
  ASSUME Order, \A c \in calls : Carries(c) => ~Awaited(c)
  PROVE  (\A c \in calls : ~Carries(c)) /\ Current
  BY DEF Order, Carriers, CarrierOf, InStep, Brings

\* invalidateAuthentication(), when no call that brings tokens is under way.
LEMMA StartsQuietly ==
  ASSUME TypeOK, Order, cause = "none", cause' = "none", Strays(calls)
  PROVE  /\ Current
         /\ \A d \in Invalidated(calls) :
              /\ ~Carries(d) /\ ~Awaited(d)
              /\ d.is \in {"logout", "revoke"} =>
                   \E c \in calls : c.is \in {"logout", "revoke"} /\ c.token = d.token
  <1>1. \A c \in calls : Carries(c) => ~Awaited(c)
    BY DEF Strays, Blames, Awaited
  <1>2. (\A c \in calls : ~Carries(c)) /\ Current
    BY <1>1, Quiet
  <1> QED  BY <1>2, InvalidatedOf DEF TypeOK, Awaited, Carries

LEMMA OrderAlone ==
  ASSUME \A c \in calls' : ~Carries(c), Current',
         \A c \in calls' : c.is \in {"logout", "revoke"} =>
           (access' # 0 => c.token # refresh') /\ (~behind' /\ ring' # 0 => c.token # ring')
  PROVE  Carriers' /\ OneCarrier' /\ InStep' /\ Endings'
  BY DEF Carriers, OneCarrier, InStep, Endings, Brings

\* The only call that brings tokens is served and brings a new pair.
LEMMA OrderServed ==
  ASSUME TypeOK, Bounded, Order, NEW c \in calls, Carries(c), Reached(c), Issue(c),
         UNCHANGED <<tokens, named>>
  PROVE  Order'
  <1>1. c.at = "sent" /\ CarrierOf(c) /\ \A d \in calls : Carries(d) => d = c
    BY DEF Order, Carriers, CarrierOf, OneCarrier, Awaited, Reached
  <1>2. PICK e : /\ calls' = (calls \ {c}) \cup {e}
                 /\ e.at = "answered" /\ e.status = "ok" /\ e.brings = issued + 1
                 /\ e.is = c.is /\ e.token = c.token
    <2> DEFINE new == [c EXCEPT !.at = "answered", !.status = "ok", !.brings = issued + 1]
    <2>1. /\ new.at = "answered" /\ new.status = "ok" /\ new.brings = issued + 1
          /\ new.is = c.is /\ new.token = c.token
      BY DEF TypeOK, Call
    <2>2. calls' = (calls \ {c}) \cup {new}
      BY <1>1 DEF Issue, Answer
    <2> HIDE DEF new
    <2> QED  BY <2>1, <2>2
  <1>3. calls' = (calls \ {c}) \cup {e} /\ pair' = issued + 1
    BY <1>2 DEF Issue
  <1>4. issued \in Nat /\ \A d \in calls : d.token \in Nat /\ d.token <= issued
    BY DEF TypeOK, Bounded, Pair, Call
  <1>5. \A d \in calls' : Carries(d) => d = e
    BY <1>1, <1>3
  <1>6. Carriers'
    <2> SUFFICES CarrierOf(e)'
      BY <1>5 DEF Carriers
    <2>1. e.is \in {"refresh", "restore"} => e.token = refresh' /\ refresh' # 0
      BY <1>1, <1>2 DEF CarrierOf, tokens
    <2>2. e.is \in {"login", "restore"} => access' = 0
      BY <1>1, <1>2 DEF CarrierOf, tokens
    <2> QED  BY <1>2, <1>3, <1>4, <2>1, <2>2 DEF CarrierOf, Awaited
  <1>7. OneCarrier' /\ InStep'
    BY <1>2, <1>3, <1>5 DEF OneCarrier, InStep, Brings, Carries
  <1>8. Endings'
    <2> SUFFICES ASSUME NEW k \in calls', k.is \in {"logout", "revoke"}
                 PROVE  /\ access' # 0 => k.token # refresh'
                        /\ ~behind' /\ ring' # 0 => k.token # ring'
                        /\ k.token # e.brings
      BY <1>5 DEF Endings, Brings
    <2>1. k \in calls /\ k # e
      BY <1>2, <1>3 DEF Carries
    <2> QED  BY <2>1, <1>2, <1>4 DEF Order, Endings, tokens, keyring
  <1>9. Idle'
    BY <1>1, <1>2, <1>3 DEF Order, Idle, Awaited, Carries, tokens
  <1> QED  BY <1>6, <1>7, <1>8, <1>9 DEF Order, Holds, tokens, keyring

\* The only call that would bring tokens is refused: the sign-in, or the session that
\* a keyring which had refused a token restored.
LEMMA OrderRefused ==
  ASSUME TypeOK, Order, NEW c \in calls, Carries(c), c.at = "sent", Answer(c, "refused", 0),
         c.is = "login" \/ (c.is = "restore" /\ behind), UNCHANGED <<server, tokens, named>>
  PROVE  Order'
  <1>1. c \in Call /\ CarrierOf(c) /\ \A d \in calls : Carries(d) => d = c
    BY DEF TypeOK, Order, Carriers, OneCarrier
  <1>2. PICK e : /\ calls' = (calls \ {c}) \cup {e}
                 /\ e.at = "answered" /\ e.status = "refused" /\ e.is = c.is /\ e.token = c.token
    <2> DEFINE new == [c EXCEPT !.at = "answered", !.status = "refused", !.brings = 0]
    <2>1. /\ new.at = "answered" /\ new.status = "refused" /\ new.is = c.is /\ new.token = c.token
      BY <1>1 DEF Call
    <2>2. calls' = (calls \ {c}) \cup {new}
      BY DEF Answer
    <2> HIDE DEF new
    <2> QED  BY <2>1, <2>2
  <1>3. \A d \in calls' : Carries(d) => d = e
    BY <1>1, <1>2
  <1>4. CarrierOf(e)'
    BY <1>1, <1>2 DEF CarrierOf, Awaited, tokens, keyring
  <1>5. Carriers' /\ OneCarrier'
    BY <1>3, <1>4 DEF Carriers, OneCarrier
  <1>6. Current
    BY <1>1 DEF Order, InStep, Brings
  <1>7. InStep' /\ Endings'
    BY <1>2, <1>3, <1>6 DEF InStep, Current, Endings, Brings, Order, tokens, keyring, server
  <1>8. Idle' /\ Holds'
    BY <1>2 DEF Order, Idle, Holds, Awaited, tokens, keyring
  <1> QED  BY <1>5, <1>7, <1>8 DEF Order

LEMMA ServeOrder ==
  ASSUME TypeOK, Bounded, Order, cause = "none", cause' = "none", NEW c \in calls, Serve(c)
  PROVE  Order'
  <1>0. UNCHANGED <<tokens, named>> /\ Holds' /\ c \in Call
    BY DEF Serve, Order, Holds, tokens, keyring, TypeOK
  <1>1. CASE ServeUse(c)
    <2>1. \A d \in calls' : \/ d \in calls
                            \/ /\ d.is = "use" /\ c.is = "use"
                               /\ c.at = "sent"
      BY <1>0, <1>1 DEF ServeUse, Answer, Call
    <2>2. \A d \in calls : d # c => d \in calls'
      BY <1>1 DEF ServeUse, Answer
    <2>3. \A d : Carries(d) => (d \in calls' <=> d \in calls)
      BY <1>1, <2>1, <2>2 DEF Carries, ServeUse
    <2>4. access = 0 => \A d \in calls' : d.is = "use" => ~Awaited(d)
      BY <2>1 DEF Order, Idle, Awaited
    <2> QED  BY <1>0, <1>1, <2>1, <2>3, <2>4, SameCarriers DEF ServeUse, server, tokens, keyring, Order
  <1>2. CASE ServeRefresh(c)
    <2>1. Carries(c) /\ CarrierOf(c) /\ c.at = "sent" /\ c.token = refresh /\ refresh # 0
      BY <1>2 DEF ServeRefresh, Carries, Order, Carriers, CarrierOf, Awaited, Reached
    <2>2. Current
      BY <2>1 DEF Order, InStep, OneCarrier, Brings
    <2>3. CASE c.is = "refresh"
      <3>1. access # 0
        BY <2>1, <2>3 DEF Order, Idle, Awaited
      <3>2. c.token = pair /\ pair # 0
        BY <2>1, <2>2, <3>1 DEF Current
      <3> QED  BY <1>0, <1>2, <2>1, <3>2, OrderServed DEF ServeRefresh
    <2>4. CASE c.is = "restore"
      <3>1. access = 0 /\ refresh = ring
        BY <2>1, <2>4 DEF CarrierOf, Order, Holds
      <3>2. CASE c.token = pair /\ pair # 0
        BY <1>0, <1>2, <2>1, <3>2, OrderServed DEF ServeRefresh
      <3>3. CASE ~(c.token = pair /\ pair # 0)
        <4>1. behind
          BY <2>1, <2>2, <3>1, <3>3 DEF Current
        <4> QED  BY <1>0, <1>2, <2>1, <2>4, <3>3, <4>1, OrderRefused DEF ServeRefresh
      <3> QED  BY <3>2, <3>3
    <2> QED  BY <1>2, <2>3, <2>4 DEF ServeRefresh
  <1>3. CASE ServeLogin(c)
    <2>1. Carries(c) /\ c.at = "sent" /\ c.is = "login"
      BY <1>3 DEF ServeLogin, Carries, Order, Carriers, CarrierOf, Awaited, Reached
    <2>2. CASE Issue(c)
      BY <1>0, <1>3, <2>1, <2>2, OrderServed DEF ServeLogin
    <2>3. CASE Answer(c, "refused", 0) /\ UNCHANGED server
      BY <1>0, <2>1, <2>3, OrderRefused
    <2> QED  BY <1>3, <2>2, <2>3 DEF ServeLogin
  <1>4. CASE ServeLogout(c)
    <2>1. \A d \in calls' : \/ d \in calls
                            \/ d.is = "revoke" /\ c.is = "logout" /\ d.token = c.token
      BY <1>0, <1>4 DEF ServeLogout, Call
    <2>2. \A d \in calls : d # c => d \in calls'
      BY <1>4 DEF ServeLogout
    <2>3. \A d : Carries(d) => (d \in calls' <=> d \in calls)
      BY <1>4, <2>1, <2>2 DEF Carries, ServeLogout
    <2>4. \A d \in calls' : d.is \in {"logout", "revoke"} =>
            \E k \in calls : k.is \in {"logout", "revoke"} /\ k.token = d.token
      BY <2>1
    <2>5. access = 0 => \A d \in calls' : d.is = "use" => ~Awaited(d)
      BY <2>1 DEF Order, Idle, Awaited
    <2> QED  BY <1>0, <1>4, <2>3, <2>4, <2>5, SameCarriers DEF ServeLogout, server, tokens, keyring, Order
  <1>5. CASE ServeRevoke(c)
    <2>1. c.token = pair
      BY <1>5 DEF ServeRevoke, Blames
    <2>2. \A d \in calls : Brings(d) => d.brings = pair
      BY DEF Order, Carriers, CarrierOf, Brings
    <2>3. \A d \in calls : ~Brings(d)
      BY <1>5, <2>1, <2>2 DEF ServeRevoke, Order, Endings
    <2>7. access = 0 /\ (behind \/ ring = 0)
      BY <1>5, <2>1, <2>3 DEF ServeRevoke, Order, InStep, Current, Endings
    <2>4. calls' \subseteq calls /\ \A d \in calls : Carries(d) => d \in calls'
      BY <1>5 DEF ServeRevoke, Carries
    <2>5. Carriers'
      <3> SUFFICES ASSUME NEW d \in calls', Carries(d) PROVE CarrierOf(d)'
        BY DEF Carriers
      <3>1. CarrierOf(d) /\ ~Brings(d)
        BY <2>3, <2>4 DEF Order, Carriers
      <3> QED  BY <1>0, <2>4, <3>1 DEF CarrierOf, Awaited, Brings, tokens, keyring
    <2>6. OneCarrier' /\ InStep' /\ Idle' /\ Endings'
      BY <1>0, <2>3, <2>4, <2>7 DEF Order, OneCarrier, InStep, Current, Idle, Awaited, Endings, Brings, tokens, keyring
    <2> QED  BY <1>0, <2>5, <2>6 DEF Order
  <1> QED  BY <1>1, <1>2, <1>3, <1>4, <1>5 DEF Serve

LEMMA TakeOrder ==
  ASSUME TypeOK, Order, cause = "none", cause' = "none", NEW c \in calls,
         TakeStale(c) \/ TakeUse(c) \/ TakeRefresh(c) \/ TakeSignIn(c)
  PROVE  Order'
  <1>0. c \in Call
    BY DEF TypeOK
  <1>1. ASSUME calls' = calls \ {c}, ~Carries(c), UNCHANGED <<pair, tokens, named>> PROVE Order'
    <2>1. \A d : Carries(d) => (d \in calls' <=> d \in calls)
      BY <1>1
    <2>2. access = 0 => \A d \in calls' : d.is = "use" => ~Awaited(d)
      BY <1>1 DEF Order, Idle
    <2>3. UNCHANGED <<access, refresh, ring, behind, titled>> /\ Holds'
      BY <1>1 DEF Order, Holds, tokens, keyring
    <2> QED  BY <1>1, <2>1, <2>2, <2>3, SameCarriers DEF Order
  <1>2. CASE TakeStale(c)
    <2>1. ~Carries(c)
      BY <1>2 DEF TakeStale, Order, Carriers, CarrierOf, Awaited
    <2> QED  BY <1>1, <1>2, <2>1 DEF TakeStale, server
  <1>3. CASE TakeUse(c)
    <2>0. UNCHANGED <<pair, access, refresh, ring, behind, titled, named>> /\ Holds'
      BY <1>3 DEF TakeUse, Order, Holds, server, tokens, keyring
    <2>1. CASE ~Replayable(c)
      BY <1>1, <1>3, <2>1 DEF TakeUse, Carries, server
    <2>2. CASE Replayable(c)
      <3> DEFINE e == New("refresh", c.owner, refresh, FALSE)
      <3>1. calls' = (calls \ {c}) \cup {e} /\ ~SameTokenSpent
        BY <1>3, <2>2 DEF TakeUse, Blames
      <3>2. e.is = "refresh" /\ e.at = "sent" /\ e.status = "due" /\ e.token = refresh
        BY DEF New
      <3>3. \A d \in calls : ~Carries(d)
        <4> SUFFICES ASSUME NEW d \in calls, Carries(d) PROVE FALSE
          OBVIOUS
        <4>1. CarrierOf(d) /\ access # 0
          BY <1>3 DEF Order, Carriers, Idle, TakeUse, Awaited
        <4>2. CASE d.is = "refresh"
          BY <3>1, <4>1, <4>2 DEF CarrierOf, SameTokenSpent, Awaited
        <4>3. CASE d.is \in {"login", "restore"}
          BY <4>1, <4>3 DEF CarrierOf
        <4> QED  BY <4>2, <4>3 DEF Carries
      <3>4. refresh # 0
        BY <2>2 DEF Replayable
      <3> HIDE DEF e
      <3>5. PICK f : f = e
        OBVIOUS
      <3>6. \A d \in calls' : Carries(d) => d = f
        BY <3>1, <3>3, <3>5
      <3>7. CarrierOf(f)'
        BY <2>0, <3>2, <3>4, <3>5 DEF CarrierOf, Awaited
      <3>8. Carriers' /\ OneCarrier'
        BY <3>6, <3>7 DEF Carriers, OneCarrier
      <3>9. InStep' /\ Idle' /\ Endings'
        <4>1. access # 0
          BY <1>3 DEF Order, Idle, TakeUse, Awaited
        <4> QED
          BY <2>0, <3>1, <3>2, <3>3, <3>5, <3>6, <4>1 DEF Order, InStep, Current, Idle, Endings, Brings
      <3> QED  BY <2>0, <3>8, <3>9 DEF Order
    <2> QED  BY <2>1, <2>2
  <1>4. ASSUME Carries(c), c.at = "answered", c.status = "ok", Accepted(c), UNCHANGED pair,
               \A d \in calls' : (d \in calls /\ d # c) \/ d.is = "use"
        PROVE  Order'
    <2>1. c.brings = pair /\ pair # 0 /\ \A d \in calls : Carries(d) => d = c
      BY <1>4 DEF Order, Carriers, CarrierOf, OneCarrier
    <2>2. /\ access' = pair' /\ refresh' = pair' /\ named' = TRUE /\ pair' # 0
          /\ behind' \/ ring' = pair'
      BY <1>4, <2>1 DEF Accepted, Store
    <2>3. \A d \in calls' : ~Carries(d)
      BY <1>4, <2>1 DEF Carries
    <2>4. \A d \in calls' : d.is \in {"logout", "revoke"} => d.token # pair'
      BY <1>4, <2>1, <2>2 DEF Order, Endings, Brings
    <2> QED  BY <2>2, <2>3, <2>4, OrderAlone DEF Order, Holds, Idle, Current
  <1>5. CASE TakeRefresh(c)
    <2>1. Carries(c) /\ CarrierOf(c) /\ c.status = "ok"
      BY <1>0, <1>5 DEF TakeRefresh, Carries, Order, Carriers, CarrierOf, Call
    <2>2. \A d \in calls' : (d \in calls /\ d # c) \/ d.is = "use"
      BY <1>5, <2>1 DEF TakeRefresh, New
    <2> QED  BY <1>4, <1>5, <2>1, <2>2 DEF TakeRefresh, server
  <1>6. CASE TakeSignIn(c)
    <2>1. Carries(c) /\ CarrierOf(c)
      BY <1>6 DEF TakeSignIn, Carries, Order, Carriers
    <2>2. CASE c.status = "ok"
      BY <1>4, <1>6, <2>1, <2>2 DEF TakeSignIn, server, Accepted
    <2>3. CASE c.status # "ok"
      <3>1. \A d \in calls : Carries(d) => d = c
        BY <2>1 DEF Order, OneCarrier
      <3>2. calls' = calls \ {c} /\ UNCHANGED <<pair, access, refresh, ring, behind, titled, named>>
        BY <1>6, <2>3 DEF TakeSignIn, tokens, keyring, server
      <3>3. Current'
        BY <2>3, <3>1, <3>2 DEF Order, InStep, Current, Brings
      <3>4. \A d \in calls' : ~Carries(d)
        BY <3>1, <3>2
      <3>5. \A d \in calls' : d.is \in {"logout", "revoke"} =>
              (access' # 0 => d.token # refresh') /\ (~behind' /\ ring' # 0 => d.token # ring')
        BY <3>2 DEF Order, Endings
      <3>6. Idle' /\ Holds'
        BY <3>2 DEF Order, Idle, Holds
      <3> QED  BY <3>3, <3>4, <3>5, <3>6, OrderAlone DEF Order
    <2> QED  BY <2>2, <2>3
  <1> QED  BY <1>2, <1>3, <1>5, <1>6

LEMMA OrderStep == ASSUME TypeOK, Bounded, Orderly, [Next]_vars PROVE Orderly'
  <1>a. cause' = "none" => cause = "none"
    <2>1. ASSUME NEW why, NEW blamed, Blames(why, blamed) PROVE cause' = "none" => cause = "none"
      BY <2>1 DEF Blames
    <2>2. CASE UNCHANGED cause
      BY <2>2
    <2>3. ASSUME NEW c \in calls, Serve(c) PROVE cause' = "none" => cause = "none"
      BY <2>1, <2>3 DEF Serve, ServeRevoke
    <2>4. ASSUME NEW c \in calls, TimesOut(c) PROVE cause' = "none" => cause = "none"
      BY <2>1, <2>4 DEF TimesOut
    <2>5. ASSUME NEW c \in calls, TakeUse(c) PROVE cause' = "none" => cause = "none"
      BY <2>1, <2>5 DEF TakeUse
    <2>6. CASE Login \/ RegisterAccount \/ Logout \/ Restart \/ ForgetDevice
      BY <2>1, <2>6 DEF Login, RegisterAccount, StartOver, Logout, Restart, ForgetDevice, Strays
    <2> QED
      BY <2>2, <2>3, <2>4, <2>5, <2>6
      DEF Next, UserStep, TimeStep, Take, Use, Expire, TakeStale, TakeRefresh, TakeSignIn, vars
  <1> SUFFICES ASSUME cause' = "none", cause = "none", Order PROVE Order'
    BY <1>a DEF Orderly
  <1>1. CASE UNCHANGED vars
    <2>1. UNCHANGED <<pair, calls, access, refresh, ring, behind, titled, named>>
      BY <1>1 DEF vars, server, tokens, keyring
    <2> QED
      BY <2>1 DEF Order, Carriers, CarrierOf, OneCarrier, InStep, Current, Idle, Endings, Holds, Brings
  <1>2. ASSUME NEW r \in Req, Use(r) PROVE Order'
    <2> DEFINE e == New("use", r, access, TRUE)
    <2>1. calls' = calls \cup {e} /\ e.is = "use" /\ access # 0
      BY <1>2 DEF Use, New
    <2> HIDE DEF e
    <2>2. UNCHANGED <<pair, access, refresh, ring, behind, titled, named>> /\ Holds'
      BY <1>2 DEF Use, Order, Holds, server, tokens, keyring
    <2>3. \A d : Carries(d) => (d \in calls' <=> d \in calls)
      BY <2>1 DEF Carries
    <2>4. access # 0
      BY <2>1
    <2> QED  BY <2>1, <2>2, <2>3, <2>4, SameCarriers DEF Order
  <1>3. CASE Login
    <2>1. PICK e : /\ e.is = "login" /\ e.at = "sent" /\ e.status = "due"
                   /\ calls' = Invalidated(calls) \cup {e}
      BY <1>3 DEF Login, StartOver, New
    <2>2. /\ Strays(calls) /\ access = 0 /\ access' = 0 /\ refresh' = 0
          /\ UNCHANGED <<pair, ring, behind, titled>>
      BY <1>3 DEF Login, StartOver, server, keyring
    <2>3. /\ Current
          /\ \A d \in Invalidated(calls) : ~Carries(d) /\ ~Awaited(d)
          /\ \A d \in Invalidated(calls) : d.is \in {"logout", "revoke"} =>
               \E c \in calls : c.is \in {"logout", "revoke"} /\ c.token = d.token
      BY <2>2, StartsQuietly
    <2>4. \A d \in calls' : Carries(d) => d = e
      BY <2>1, <2>3
    <2>5. CarrierOf(e)'
      BY <2>1, <2>2, <2>3 DEF CarrierOf, Awaited
    <2>6. Carriers' /\ OneCarrier'
      BY <2>4, <2>5 DEF Carriers, OneCarrier
    <2>7. InStep' /\ Endings'
      BY <2>1, <2>2, <2>3, <2>4 DEF InStep, Current, Endings, Brings, Order
    <2>8. Idle'
      BY <2>1, <2>3 DEF Idle, Awaited
    <2> QED  BY <2>2, <2>6, <2>7, <2>8 DEF Order, Holds
  <1>4. CASE RegisterAccount
    <2>1. /\ Strays(calls) /\ access = 0 /\ access' = 0 /\ refresh' = 0
          /\ UNCHANGED <<pair, ring, behind, titled>> /\ calls' = Invalidated(calls)
      BY <1>4 DEF RegisterAccount, StartOver, server, keyring, keyring
    <2>2. /\ Current
          /\ \A d \in Invalidated(calls) : ~Carries(d) /\ ~Awaited(d)
          /\ \A d \in Invalidated(calls) : d.is \in {"logout", "revoke"} =>
               \E c \in calls : c.is \in {"logout", "revoke"} /\ c.token = d.token
      BY <2>1, StartsQuietly
    <2>3. \A d \in calls' : d.is \in {"logout", "revoke"} /\ ~behind' /\ ring' # 0 => d.token # ring'
      BY <2>1, <2>2 DEF Order, Endings
    <2> QED  BY <2>1, <2>2, <2>3, OrderAlone DEF Order, Holds, Idle, Current
  <1>5. CASE Logout
    <2>1. /\ Strays(calls) /\ named /\ access' = 0 /\ refresh' = 0 /\ ~titled'
          /\ behind' \/ ring' = 0
      BY <1>5 DEF Logout, Store, Order, Holds
    <2>2. \A d \in Invalidated(calls) : ~Carries(d) /\ ~Awaited(d)
      BY <2>1, StartsQuietly
    <2>3. \A d \in calls' : d \in Invalidated(calls) \/ d.is = "logout"
      BY <1>5 DEF Logout, New
    <2>4. \A d \in calls' : ~Carries(d)
      BY <2>2, <2>3 DEF Carries
    <2>5. Idle'
      BY <2>2, <2>3 DEF Idle
    <2> QED  BY <2>1, <2>4, <2>5, OrderAlone DEF Order, Holds, Current
  <1>6. CASE Restart
    <2>1. /\ Strays(calls) /\ access' = 0 /\ refresh' = ring /\ ~titled'
          /\ UNCHANGED <<pair, ring, behind>>
      BY <1>6 DEF Restart, server, keyring
    <2>2. /\ Current
          /\ \A d \in Invalidated(calls) : ~Carries(d) /\ ~Awaited(d)
          /\ \A d \in Invalidated(calls) : d.is \in {"logout", "revoke"} =>
               \E c \in calls : c.is \in {"logout", "revoke"} /\ c.token = d.token
      BY <2>1, StartsQuietly
    <2>3. CASE ring = 0
      <3>1. calls' \subseteq Invalidated(calls)
        BY <1>6, <2>3 DEF Restart
      <3> QED  BY <2>1, <2>2, <2>3, <3>1, OrderAlone DEF Order, Holds, Idle, Current
    <2>4. CASE ring # 0
      <3>1. PICK e : /\ e.is = "restore" /\ e.at = "sent" /\ e.status = "due" /\ e.token = ring
                     /\ e \in calls' /\ \A d \in calls' : d \in Invalidated(calls) \/ d = e
        <4> DEFINE new == New("restore", Auth, ring, FALSE)
        <4>1. new.is = "restore" /\ new.at = "sent" /\ new.status = "due" /\ new.token = ring
          BY DEF New
        <4>2. new \in calls' /\ \A d \in calls' : d \in Invalidated(calls) \/ d = new
          BY <1>6, <2>4 DEF Restart
        <4> HIDE DEF new
        <4> QED  BY <4>1, <4>2
      <3>2. \A d \in calls' : Carries(d) => d = e
        BY <2>2, <3>1
      <3>3. CarrierOf(e)'
        BY <2>1, <2>2, <2>4, <3>1 DEF CarrierOf, Awaited
      <3>4. Carriers' /\ OneCarrier'
        BY <3>2, <3>3 DEF Carriers, OneCarrier
      <3>5. InStep' /\ Endings'
        BY <2>1, <2>2, <3>1, <3>2 DEF InStep, Current, Endings, Brings, Order
      <3>6. Idle'
        BY <2>2, <3>1 DEF Idle, Awaited
      <3> QED  BY <2>1, <3>4, <3>5, <3>6 DEF Order, Holds
    <2> QED  BY <2>3, <2>4
  <1>7. CASE Expire
    <2>1. UNCHANGED <<pair, calls, access, refresh, ring, behind, titled, named>>
      BY <1>7 DEF Expire, tokens, keyring
    <2> QED
      BY <2>1 DEF Order, Carriers, CarrierOf, OneCarrier, InStep, Current, Idle, Endings, Holds, Brings
  <1>8. CASE ForgetDevice
    BY <1>8 DEF ForgetDevice, Blames
  <1>9. ASSUME NEW c \in calls, TimesOut(c) PROVE Order'
    <2>1. ~Carries(c) /\ Awaited(c)
      BY <1>9 DEF TimesOut, Blames, Awaited
    <2>2. UNCHANGED <<pair, access, refresh, ring, behind, titled, named>> /\ Holds'
      BY <1>9 DEF TimesOut, Order, Holds, server, tokens, keyring
    <2>3. \A d \in calls' : d \in calls \/ (d.is = c.is /\ d.token = c.token)
      BY <1>9 DEF TimesOut, TypeOK, Call
    <2>4. \A d \in calls : d # c => d \in calls'
      BY <1>9 DEF TimesOut
    <2>5. \A d : Carries(d) => (d \in calls' <=> d \in calls)
      BY <2>1, <2>3, <2>4 DEF Carries
    <2>6. access = 0 => \A d \in calls' : d.is = "use" => ~Awaited(d)
      BY <2>1, <2>3 DEF Order, Idle, Carries
    <2> QED  BY <2>2, <2>3, <2>5, <2>6, SameCarriers DEF Order
  <1> QED
    BY <1>1, <1>2, <1>3, <1>4, <1>5, <1>6, <1>7, <1>8, <1>9, TakeOrder, ServeOrder
    DEF Next, UserStep, TimeStep, Take

SessionInv == TypeOK /\ Bounded /\ Orderly

LEMMA SessionAlways == Spec => []SessionInv
  <1>1. Init => SessionInv
    BY TypeInit, BoundedInit, OrderInit DEF SessionInv
  <1>2. SessionInv /\ [Next]_vars => SessionInv'
    BY TypeStep, BoundedStep, OrderStep DEF SessionInv
  <1> QED  BY <1>1, <1>2, PTL DEF Spec

\* While no known cause has come up the keyring holds the token the server will take
\* at the next start, as soon as no call is under way that brings another, unless it
\* refused the last change it was given (acceptTokens(), issue_tokens()).
THEOREM KeyringSafe == Spec => []KeyringFollows
  <1>1. SessionInv => KeyringFollows
    BY DEF SessionInv, Orderly, Order, InStep, Current, Brings, Carries, KeyringFollows
  <1> QED  BY <1>1, SessionAlways, PTL

\* The session never ends by itself: a step that is not the user's takes the access
\* token away only if one of the known causes came up before (refreshAccessToken()).
\* A keyring that refuses what it is given is not among them.
THEOREM SessionsLast == Spec => SessionKept
  <1>1. ASSUME SessionInv, [Next]_vars, access # 0, access' = 0, signs' = signs, cause = "none" PROVE FALSE
    <2> USE <1>1
    <2>1. Order /\ signs \in Nat /\ signs' # signs + 1
      BY DEF SessionInv, Orderly, TypeOK
    <2>2. CASE Login \/ RegisterAccount \/ Logout \/ Restart
      <3>1. MaySign
        BY <2>2 DEF Login, RegisterAccount, Logout, Restart
      <3> QED  BY <2>1, <3>1 DEF MaySign
    <2>3. ASSUME NEW c \in calls, TakeRefresh(c) PROVE FALSE
      <3>1. c \in Call
        BY DEF SessionInv, TypeOK
      <3>2. c.status = "ok" /\ c.brings # 0
        BY <2>1, <2>3, <3>1 DEF TakeRefresh, Carries, Order, Carriers, CarrierOf, Call
      <3> QED  BY <2>3, <3>2 DEF TakeRefresh, Accepted
    <2>4. ASSUME NEW c \in calls, TakeSignIn(c) PROVE FALSE
      BY <2>1, <2>4 DEF TakeSignIn, Order, Carriers, CarrierOf, Carries, tokens
    <2>5. CASE UNCHANGED access
      BY <2>5
    <2> QED
      BY <2>2, <2>3, <2>4, <2>5
      DEF Next, UserStep, TimeStep, Take, Use, Expire, ForgetDevice, TakeStale, TakeUse, Serve, TimesOut,
          vars, tokens
  <1>2. SessionInv /\ [Next]_vars =>
          [access # 0 /\ access' = 0 /\ signs' = signs => cause # "none"]_vars
    BY <1>1
  <1> QED  BY <1>2, SessionAlways, PTL DEF Spec, SessionKept

=============================================================================

----------------------- MODULE PoolAndRemoval_proofs ------------------------
(***************************************************************************)
(* Proofs about ConnectionPool, for any finite set of workers and of       *)
(* connections and any sizes, timeouts and bounds; and about Removal, for  *)
(* any forest of files, directories and links, any provider and any number *)
(* of failures. Both need what a sequence is without its last element.     *)
(***************************************************************************)
EXTENDS ConnectionPool, Removal, FiniteSetTheorems, SequenceTheorems, TLAPS

-----------------------------------------------------------------------------
(* Facts about sequences and about waking waiters                          *)

LEMMA FrontLast ==
  ASSUME NEW S, NEW s \in Seq(S), s # << >>
  PROVE  /\ Front(s) \in Seq(S) /\ Len(Front(s)) = Len(s) - 1
         /\ \A i \in 1..(Len(s) - 1) : Front(s)[i] = s[i]
         /\ Last(s) \in S /\ Last(s) = s[Len(s)] /\ Len(s) \in Nat \ {0}
  <1>1. Len(s) \in Nat \ {0} /\ \A i \in 1..Len(s) : s[i] \in S
    BY EmptySeq, ElementOfSeq
  <1>2. \A i \in 1..(Len(s) - 1) : s[i] \in S
    BY <1>1
  <1>3. 1 \in Int /\ Len(s) - 1 \in Int
    BY <1>1
  <1>4. /\ SubSeq(s, 1, Len(s) - 1) \in Seq(S)
        /\ Len(SubSeq(s, 1, Len(s) - 1))
             = IF 1 <= Len(s) - 1 THEN Len(s) - 1 - 1 + 1 ELSE 0
        /\ \A i \in 1..(Len(s) - 1 - 1 + 1) : SubSeq(s, 1, Len(s) - 1)[i] = s[1 + i - 1]
    BY <1>2, <1>3, SubSeqProperties
  <1>5. \A i \in 1..(Len(s) - 1) : SubSeq(s, 1, Len(s) - 1)[i] = s[i]
    <2> TAKE i \in 1..(Len(s) - 1)
    <2>1. i \in 1..(Len(s) - 1 - 1 + 1) /\ 1 + i - 1 = i
      BY <1>1
    <2> QED  BY <1>4, <2>1
  <1>6. Len(SubSeq(s, 1, Len(s) - 1)) = Len(s) - 1
    <2> DEFINE n == Len(s)
    <2>1. Len(SubSeq(s, 1, n - 1)) = IF 1 <= n - 1 THEN n - 1 - 1 + 1 ELSE 0
      BY <1>4
    <2>2. n \in Nat \ {0}
      BY <1>1
    <2> HIDE DEF n
    <2>3. (IF 1 <= n - 1 THEN n - 1 - 1 + 1 ELSE 0) = n - 1
      BY <2>2
    <2> QED  BY <2>1, <2>3 DEF n
  <1>7. s[Len(s)] \in S
    BY <1>1
  <1> QED  BY <1>1, <1>4, <1>5, <1>6, <1>7 DEF Front, Last

LEMMA DropFirst ==
  ASSUME NEW S, NEW s \in Seq(S), NEW n \in 1..Len(s)
  PROVE  /\ SubSeq(s, n + 1, Len(s)) \in Seq(S)
         /\ Len(SubSeq(s, n + 1, Len(s))) = Len(s) - n
         /\ \A i \in 1..(Len(s) - n) : SubSeq(s, n + 1, Len(s))[i] = s[i + n]
  <1>1. Len(s) \in Nat /\ \A i \in 1..Len(s) : s[i] \in S
    BY LenProperties, ElementOfSeq
  <1>2. n + 1 \in Int /\ Len(s) \in Int /\ \A i \in (n + 1)..Len(s) : s[i] \in S
    BY <1>1
  <1>3. /\ SubSeq(s, n + 1, Len(s)) \in Seq(S)
        /\ Len(SubSeq(s, n + 1, Len(s)))
             = IF n + 1 <= Len(s) THEN Len(s) - (n + 1) + 1 ELSE 0
        /\ \A i \in 1..(Len(s) - (n + 1) + 1) :
              SubSeq(s, n + 1, Len(s))[i] = s[n + 1 + i - 1]
    BY <1>2, SubSeqProperties
  <1> QED  BY <1>1, <1>3

LEMMA IdleSetInConn == TypeOK => IdleSet \subseteq Conn
  BY SMT DEF TypeOK, IdleSet

PcType == [Worker -> {"out", "woken", "waiting", "building"}]

\* Notifying one waiter, or all, changes no other worker's pc.
LEMMA WakeOneEffect ==
  ASSUME NEW from \in PcType, WakeOneAfter(from)
  PROVE  /\ pc' \in PcType
         /\ \A w \in Worker : pc'[w] = from[w] \/ (from[w] = "waiting" /\ pc'[w] = "woken")
  <1>1. CASE {w \in Worker : from[w] = "waiting"} = {}
    BY <1>1 DEF WakeOneAfter
  <1>2. CASE {w \in Worker : from[w] = "waiting"} # {}
    <2>1. PICK w \in Worker : from[w] = "waiting" /\ pc' = [from EXCEPT ![w] = "woken"]
      BY <1>2 DEF WakeOneAfter
    <2> QED  BY <2>1 DEF PcType
  <1> QED  BY <1>1, <1>2

LEMMA WakeAllEffect ==
  ASSUME pc \in PcType, WakeAll
  PROVE  /\ pc' \in PcType
         /\ \A w \in Worker : pc'[w] = IF pc[w] = "waiting" THEN "woken" ELSE pc[w]
  BY DEF WakeAll, PcType

-----------------------------------------------------------------------------
(* Type correctness                                                        *)

LEMMA TypeInit == Init => TypeOK
  <1> SUFFICES ASSUME Init PROVE TypeOK
    OBVIOUS
  <1>1. idle \in Seq(Conn)
    BY EmptySeq DEF Init
  <1>2. /\ pc \in [Worker -> {"out", "woken", "waiting", "building"}]
        /\ left \in [Worker -> 0..BorrowTimeout]
        /\ waited \in [Worker -> 0..(BorrowTimeout + 1)]
        /\ held \in [Worker -> SUBSET Conn]
        /\ borrows \in [Worker -> 0..MaxBorrows]
    BY TimeoutAssumption, BoundsAssumption DEF Init
  <1>3. live \in Int /\ max \in Nat \ {0} /\ active \in Int /\ ownerOps \in 0..MaxOwnerOps
    BY BoundsAssumption DEF Init
  <1> QED  BY <1>1, <1>2, <1>3 DEF Init, TypeOK

LEMMA TypeBorrow ==
  ASSUME TypeOK, NEW w \in Worker, BeginBorrow(w) \/ BorrowStep(w) \/ Tick(w)
  PROVE  TypeOK'
  <1> USE TimeoutAssumption, BoundsAssumption
  <1> USE DEF TypeOK, poolVars, workerVars, reaperVars
  <1>1. CASE BeginBorrow(w)
    BY <1>1, SMT DEF BeginBorrow
  <1>2. CASE BorrowRefused(w)
    BY <1>2, SMT DEF BorrowRefused
  <1>3. CASE BorrowIdle(w)
    <2>1. Front(idle) \in Seq(Conn) /\ Last(idle) \in Conn
      BY <1>3, FrontLast DEF BorrowIdle
    <2>2. held' \in [Worker -> SUBSET Conn]
      BY <1>3, <2>1 DEF BorrowIdle
    <2> QED  BY <1>3, <2>1, <2>2 DEF BorrowIdle
  <1>4. CASE BorrowReserve(w)
    BY <1>4, SMT DEF BorrowReserve
  <1>5. CASE BorrowWait(w)
    BY <1>5, SMT DEF BorrowWait
  <1>6. CASE BorrowTimedOut(w)
    BY <1>6, SMT DEF BorrowTimedOut
  <1>7. CASE BuildSucceeds(w)
    BY <1>7, SMT DEF BuildSucceeds
  <1>8. CASE BuildFails(w)
    <2>1. pc' \in PcType
      BY <1>8, WakeOneEffect DEF BuildFails, PcType
    <2> QED  BY <1>8, <2>1, SMT DEF BuildFails, PcType
  <1>9. CASE Tick(w)
    BY <1>9, SMT DEF Tick
  <1> QED
    BY <1>1, <1>2, <1>3, <1>4, <1>5, <1>6, <1>7, <1>8, <1>9 DEF BorrowStep

LEMMA TypeReturn ==
  ASSUME TypeOK, NEW w \in Worker, NEW c \in held[w], Release(w, c) \/ Discard(w, c)
  PROVE  TypeOK'
  <1> USE DEF TypeOK, poolVars, workerVars, reaperVars
  <1>0. pc' \in PcType
    BY WakeOneEffect DEF Release, Discard, WakeOne, PcType
  <1>1. CASE Release(w, c)
    <2>1. held' \in [Worker -> SUBSET Conn] /\ c \in Conn
      BY <1>1 DEF Release, GiveUp
    <2>2. Append(idle, c) \in Seq(Conn)
      BY <2>1, AppendProperties
    <2>3. idle' \in Seq(Conn) /\ live' \in Int /\ doomed' \subseteq Conn
      <3>1. CASE /\ live' = live - 1 /\ doomed' = doomed \cup {c} /\ UNCHANGED idle
        BY <2>1, <3>1
      <3>2. CASE /\ idle' = Append(idle, c) /\ UNCHANGED <<live, doomed>>
        BY <2>2, <3>2
      <3> QED  BY <1>1, <3>1, <3>2 DEF Release
    <2> QED  BY <1>0, <1>1, <2>1, <2>3 DEF Release, PcType
  <1>2. CASE Discard(w, c)
    BY <1>0, <1>2, SMT DEF Discard, GiveUp, PcType
  <1> QED  BY <1>1, <1>2

LEMMA TypeOwner == TypeOK /\ OwnerStep => TypeOK'
  <1> USE DEF TypeOK, poolVars, workerVars, reaperVars, OwnerCall
  <1> SUFFICES ASSUME TypeOK, OwnerStep PROVE TypeOK'
    OBVIOUS
  <1>1. ASSUME NEW size \in Sizes, Configure(size) \/ SetMaxSize(size) PROVE TypeOK'
    <2>1. pc' \in PcType
      BY <1>1, WakeAllEffect DEF Configure, SetMaxSize, PcType
    <2>2. Clamped(size) \in Nat \ {0}
      BY SizesAssumption, SMT DEF Clamped
    <2>3. ownerOps' \in 0..MaxOwnerOps
      BY <1>1, BoundsAssumption DEF Configure, SetMaxSize
    <2>4. CASE Configure(size)
      BY <2>1, <2>2, <2>3, <2>4 DEF Configure, PcType
    <2>5. CASE SetMaxSize(size)
      BY <2>1, <2>2, <2>3, <2>5 DEF SetMaxSize, PcType
    <2> QED  BY <1>1, <2>4, <2>5
  <1>2. ASSUME NEW n \in 1..Len(idle), ReapIdle(n) PROVE TypeOK'
    BY <1>2, DropFirst, BoundsAssumption, SMT DEF ReapIdle
  <1>3. CASE ShutdownAsync
    <2>1. pc' \in PcType
      BY <1>3, WakeAllEffect DEF ShutdownAsync, PcType
    <2>2. reapers' \subseteq SUBSET Conn /\ leaked' \subseteq Conn /\ active' \in Int
      <3>1. IdleSet \subseteq Conn
        BY IdleSetInConn
      <3>2. HandOver(~draining)
        BY <1>3 DEF ShutdownAsync
      <3>3. CASE UNCHANGED <<reapers, leaked, active>>
        BY <3>3
      <3>4. CASE /\ active' = active + 1 /\ reapers' = reapers \cup {IdleSet}
                 /\ UNCHANGED leaked
        BY <3>1, <3>4
      <3>5. CASE leaked' = leaked \cup IdleSet /\ UNCHANGED <<reapers, active>>
        BY <3>1, <3>5
      <3> QED  BY <3>2, <3>3, <3>4, <3>5 DEF HandOver
    <2>3. idle' \in Seq(Conn) /\ live' \in Int /\ ownerOps' \in 0..MaxOwnerOps
      BY <1>3, EmptySeq, LenProperties, BoundsAssumption DEF ShutdownAsync
    <2> QED  BY <1>3, <2>1, <2>2, <2>3 DEF ShutdownAsync, PcType
  <1> QED  BY <1>1, <1>2, <1>3 DEF OwnerStep

LEMMA TypeStep == TypeOK /\ [Next]_vars => TypeOK'
  <1> USE DEF TypeOK, poolVars, workerVars, reaperVars
  <1> SUFFICES ASSUME TypeOK, [Next]_vars PROVE TypeOK'
    OBVIOUS
  <1>1. ASSUME NEW w \in Worker, WorkerStep(w) PROVE TypeOK'
    BY <1>1, TypeBorrow, TypeReturn DEF WorkerStep, Return
  <1>2. ASSUME NEW c \in doomed, Destroy(c) PROVE TypeOK'
    BY <1>2 DEF Destroy
  <1>3. CASE OwnerStep
    BY <1>3, TypeOwner
  <1>4. CASE ReaperStep
    <2>1. PICK r \in reapers : \E c \in r : Reap(r, c)
      BY <1>4 DEF ReaperStep
    <2>2. reapers' \subseteq SUBSET Conn /\ active' \in Int
      BY <2>1 DEF Reap
    <2> QED  BY <2>1, <2>2 DEF Reap
  <1>5. CASE ExitStep
    BY <1>5 DEF ExitStep, BeginExit, DrainDone, DrainTimedOut
  <1>6. CASE UNCHANGED vars
    BY <1>6 DEF vars
  <1> QED  BY <1>1, <1>2, <1>3, <1>4, <1>5, <1>6 DEF Next

\* Every reachable state of the pool is well typed.
THEOREM TypeCorrect == Spec => []TypeOK
  BY TypeInit, TypeStep, PTL DEF Spec

-----------------------------------------------------------------------------
(* Owners                                                                  *)

\* OneOwner names every pair of places a connection could be in; with the
\* condition that a reaper's list is never empty it is inductive.
OwnerInv == TypeOK /\ OneOwner /\ (\A r \in reapers : r # {})

LEMMA HeldAfterTaking ==
  ASSUME TypeOK, NEW w \in Worker, NEW c, held' = [held EXCEPT ![w] = @ \cup {c}]
  PROVE  Held' = Held \cup {c}
  BY DEF TypeOK, Held

LEMMA HeldAfterGivingUp ==
  ASSUME TypeOK, OneOwner, NEW w \in Worker, NEW c \in held[w], GiveUp(w, c)
  PROVE  Held' = Held \ {c}
  BY DEF TypeOK, OneOwner, Held, GiveUp

LEMMA IdleAfterAppend ==
  ASSUME TypeOK, NEW c \in Conn, idle' = Append(idle, c)
  PROVE  /\ IdleSet' = IdleSet \cup {c}
         /\ Len(idle') = Len(idle) + 1
         /\ \A i \in 1..Len(idle) : idle'[i] = idle[i]
         /\ idle'[Len(idle) + 1] = c
  <1>1. Len(idle) \in Nat
    BY LenProperties DEF TypeOK
  <1>2. /\ Len(idle') = Len(idle) + 1
        /\ \A i \in 1..Len(idle) : idle'[i] = idle[i]
        /\ idle'[Len(idle) + 1] = c
    BY AppendProperties DEF TypeOK
  <1>3. IdleSet' \subseteq IdleSet \cup {c}
    BY <1>1, <1>2 DEF IdleSet
  <1>4. IdleSet \cup {c} \subseteq IdleSet'
    BY <1>1, <1>2 DEF IdleSet
  <1> QED  BY <1>2, <1>3, <1>4

LEMMA IdleAfterLending ==
  ASSUME TypeOK, OneOwner, idle # << >>, idle' = Front(idle)
  PROVE  /\ IdleSet' = IdleSet \ {Last(idle)} /\ Last(idle) \in IdleSet
         /\ Len(idle') = Len(idle) - 1
         /\ \A i, j \in 1..Len(idle') : idle'[i] = idle'[j] => i = j
  <1> DEFINE n == Len(idle)
  <1>1. /\ n \in Nat \ {0} /\ Len(idle') = n - 1 /\ Last(idle) = idle[n]
        /\ \A i \in 1..(n - 1) : idle'[i] = idle[i]
    BY FrontLast DEF TypeOK
  <1>2. \A i, j \in 1..n : idle[i] = idle[j] => i = j
    BY DEF OneOwner
  <1> HIDE DEF n
  <1>3. /\ IdleSet = {idle[i] : i \in 1..n}
        /\ IdleSet' = {idle'[i] : i \in 1..(n - 1)}
    BY <1>1 DEF IdleSet, n
  <1>4. IdleSet' \subseteq IdleSet \ {idle[n]}
    BY <1>1, <1>2, <1>3
  <1>5. IdleSet \ {idle[n]} \subseteq IdleSet'
    BY <1>1, <1>3
  <1>6. \A i, j \in 1..Len(idle') : idle'[i] = idle'[j] => i = j
    BY <1>1, <1>2
  <1>7. IdleSet' = IdleSet \ {idle[n]}
    BY <1>4, <1>5
  <1>8. idle[n] \in IdleSet
    BY <1>1, <1>3
  <1>9. Len(idle') = Len(idle) - 1
    BY <1>1 DEF n
  <1> QED  BY <1>1, <1>6, <1>7, <1>8, <1>9

LEMMA IdleAfterReaping ==
  ASSUME TypeOK, OneOwner, NEW n \in 1..Len(idle), idle' = SubSeq(idle, n + 1, Len(idle))
  PROVE  LET gone == {idle[i] : i \in 1..n}
         IN  /\ gone \subseteq IdleSet /\ IdleSet' \subseteq IdleSet
             /\ gone \cap IdleSet' = {}
             /\ Len(idle') = Len(idle) - n
             /\ \A i, j \in 1..Len(idle') : idle'[i] = idle'[j] => i = j
  <1> DEFINE k == Len(idle)
  <1>1. /\ k \in Nat /\ n \in 1..k /\ Len(idle') = k - n
        /\ \A i \in 1..(k - n) : idle'[i] = idle[i + n]
    BY DropFirst, LenProperties DEF TypeOK
  <1>2. \A i, j \in 1..k : idle[i] = idle[j] => i = j
    BY DEF OneOwner
  <1> HIDE DEF k
  <1>3. /\ IdleSet = {idle[i] : i \in 1..k}
        /\ IdleSet' = {idle'[i] : i \in 1..(k - n)}
    BY <1>1 DEF IdleSet, k
  <1>4. \A i \in 1..(k - n) : i + n \in (n + 1)..k
    BY <1>1
  <1>5. IdleSet' \subseteq IdleSet
    BY <1>1, <1>3, <1>4
  <1>6. {idle[i] : i \in 1..n} \cap IdleSet' = {}
    BY <1>1, <1>2, <1>3, <1>4
  <1>7. {idle[i] : i \in 1..n} \subseteq IdleSet
    BY <1>1, <1>3
  <1>8. \A i, j \in 1..(k - n) : idle'[i] = idle'[j] => i = j
    <2> TAKE i, j \in 1..(k - n)
    <2>1. PICK a, b : a = i + n /\ b = j + n
      OBVIOUS
    <2>2. a \in 1..k /\ b \in 1..k /\ idle'[i] = idle[a] /\ idle'[j] = idle[b]
      BY <1>1, <2>1
    <2>3. idle[a] = idle[b] => a = b
      BY <1>2, <2>2
    <2>4. a = b => i = j
      BY <1>1, <2>1
    <2> QED  BY <2>2, <2>3, <2>4
  <1> QED  BY <1>1, <1>5, <1>6, <1>7, <1>8 DEF k

\* A step that touches none of the places a connection can be in.
ownerVars == <<idle, held, doomed, reapers, leaked>>

LEMMA OwnersKept ==
  ASSUME OneOwner, \A r \in reapers : r # {}, UNCHANGED ownerVars
  PROVE  OneOwner' /\ (\A r \in reapers' : r # {})
  BY DEF OneOwner, ownerVars, IdleSet, Held, Reaping

LEMMA OwnerWorker ==
  ASSUME OwnerInv, NEW w \in Worker, WorkerStep(w)
  PROVE  OneOwner' /\ (\A r \in reapers' : r # {})
  <1> USE DEF OwnerInv
  <1>0. /\ Held = UNION {held[v] : v \in Worker} /\ held \in [Worker -> SUBSET Conn]
        /\ \A v \in Worker : held[v] \subseteq Held
    BY DEF TypeOK, Held
  <1>1. CASE BorrowIdle(w)
    <2>1. /\ IdleSet' = IdleSet \ {Last(idle)} /\ Last(idle) \in IdleSet
          /\ \A i, j \in 1..Len(idle') : idle'[i] = idle'[j] => i = j
          /\ Held' = Held \cup {Last(idle)}
      BY <1>1, IdleAfterLending, HeldAfterTaking DEF BorrowIdle
    <2>2. \A v, u \in Worker : v # u => held'[v] \cap held'[u] = {}
      BY <1>0, <1>1, <2>1 DEF BorrowIdle, OneOwner
    <2>3. doomed' = doomed /\ reapers' = reapers /\ leaked' = leaked /\ Reaping' = Reaping
      BY <1>1 DEF BorrowIdle, reaperVars, Reaping
    <2> QED  BY <2>1, <2>2, <2>3 DEF OneOwner
  <1>2. CASE BuildSucceeds(w)
    <2>1. PICK c \in Conn \ Built : held' = [held EXCEPT ![w] = @ \cup {c}]
      BY <1>2 DEF BuildSucceeds
    <2>2. Held' = Held \cup {c}
      BY <2>1, HeldAfterTaking
    <2>3. \A v, u \in Worker : v # u => held'[v] \cap held'[u] = {}
      BY <1>0, <2>1 DEF OneOwner, Built
    <2>4. /\ idle' = idle /\ doomed' = doomed /\ reapers' = reapers /\ leaked' = leaked
          /\ IdleSet' = IdleSet /\ Reaping' = Reaping
      BY <1>2 DEF BuildSucceeds, poolVars, reaperVars, Reaping, IdleSet
    <2> QED  BY <2>1, <2>2, <2>3, <2>4 DEF OneOwner, Built
  <1>3. ASSUME NEW c \in held[w], Release(w, c) \/ Discard(w, c)
        PROVE  OneOwner' /\ (\A r \in reapers' : r # {})
    <2>1. GiveUp(w, c) /\ Held' = Held \ {c} /\ c \in Held /\ c \in Conn
      BY <1>0, <1>3, HeldAfterGivingUp DEF Release, Discard
    <2>2. \A v, u \in Worker : v # u => held'[v] \cap held'[u] = {}
      BY <1>0, <2>1 DEF GiveUp, OneOwner
    <2>3. reapers' = reapers /\ leaked' = leaked /\ Reaping' = Reaping
      BY <1>3 DEF Release, Discard, reaperVars, Reaping
    <2>4. CASE idle' = idle /\ doomed' = doomed \cup {c}
      <3>1. IdleSet' = IdleSet
        BY <2>4 DEF IdleSet
      <3> QED  BY <2>1, <2>2, <2>3, <2>4, <3>1 DEF OneOwner
    <2>5. CASE idle' = Append(idle, c) /\ doomed' = doomed
      <3>1. /\ IdleSet' = IdleSet \cup {c}
            /\ Len(idle') = Len(idle) + 1 /\ Len(idle) \in Nat
            /\ \A i \in 1..Len(idle) : idle'[i] = idle[i] /\ idle[i] \in IdleSet
            /\ idle'[Len(idle) + 1] = c
        BY <2>1, <2>5, IdleAfterAppend, LenProperties DEF IdleSet, TypeOK
      <3>2. c \notin IdleSet
        BY <2>1 DEF OneOwner
      <3>3. \A i, j \in 1..Len(idle') : idle'[i] = idle'[j] => i = j
        BY <3>1, <3>2 DEF OneOwner
      <3> QED  BY <2>1, <2>2, <2>3, <2>5, <3>1, <3>3 DEF OneOwner
    <2> QED  BY <1>3, <2>4, <2>5 DEF Release, Discard
  <1>4. CASE UNCHANGED ownerVars
    BY <1>4, OwnersKept
  <1> QED
    BY <1>1, <1>2, <1>3, <1>4
    DEF WorkerStep, BorrowStep, Return, BeginBorrow, BorrowRefused, BorrowReserve, BorrowWait,
        Tick, BorrowTimedOut, BuildFails, ownerVars, poolVars, workerVars, reaperVars

LEMMA OwnerOthers ==
  ASSUME OwnerInv,
         OwnerStep \/ ReaperStep \/ ExitStep \/ (\E c \in doomed : Destroy(c))
  PROVE  OneOwner' /\ (\A r \in reapers' : r # {})
  <1> USE DEF OwnerInv
  <1>1. ASSUME NEW n \in 1..Len(idle), ReapIdle(n)
        PROVE  OneOwner' /\ (\A r \in reapers' : r # {})
    <2> DEFINE gone == {idle[i] : i \in 1..n}
    <2>1. /\ gone \subseteq IdleSet /\ IdleSet' \subseteq IdleSet
          /\ gone \cap IdleSet' = {}
          /\ \A i, j \in 1..Len(idle') : idle'[i] = idle'[j] => i = j
      BY <1>1, IdleAfterReaping DEF ReapIdle
    <2>2. /\ doomed' = doomed \cup gone /\ held' = held /\ reapers' = reapers
          /\ leaked' = leaked /\ Held' = Held /\ Reaping' = Reaping
      BY <1>1 DEF ReapIdle, workerVars, reaperVars, Held, Reaping
    <2> HIDE DEF gone
    <2> QED  BY <2>1, <2>2 DEF OneOwner
  <1>2. CASE ShutdownAsync
    <2>1. idle' = << >> /\ held' = held /\ doomed' = doomed /\ Held' = Held
      BY <1>2 DEF ShutdownAsync, Held
    <2>2. IdleSet' = {} /\ \A i, j \in 1..Len(idle') : idle'[i] = idle'[j] => i = j
      BY <2>1 DEF IdleSet
    <2>3. CASE reapers' = reapers /\ leaked' = leaked
      BY <2>1, <2>2, <2>3 DEF OneOwner, Reaping
    <2>4. CASE reapers' = reapers \cup {IdleSet} /\ leaked' = leaked /\ idle # << >>
      <3>1. Reaping' = Reaping \cup IdleSet
        BY <2>4 DEF Reaping
      <3>2. IdleSet # {}
        <4>1. Len(idle) \in Nat \ {0}
          BY <2>4, EmptySeq DEF TypeOK
        <4>2. idle[1] \in IdleSet
          BY <4>1 DEF IdleSet
        <4> QED  BY <4>2
      <3>3. \A r \in reapers : r \subseteq Reaping
        BY DEF Reaping
      <3>4. \A r, s \in reapers' : r # s => r \cap s = {}
        BY <2>4, <3>3 DEF OneOwner
      <3> QED  BY <2>1, <2>2, <2>4, <3>1, <3>2, <3>4 DEF OneOwner
    <2>5. CASE leaked' = leaked \cup IdleSet /\ reapers' = reapers
      <3>1. Reaping' = Reaping
        BY <2>5 DEF Reaping
      <3> QED  BY <2>1, <2>2, <2>5, <3>1 DEF OneOwner
    <2> QED  BY <1>2, <2>3, <2>4, <2>5 DEF ShutdownAsync, HandOver
  <1>3. ASSUME NEW r \in reapers, NEW c \in r, Reap(r, c)
        PROVE  OneOwner' /\ (\A s \in reapers' : s # {})
    <2>1. /\ idle' = idle /\ held' = held /\ doomed' = doomed /\ leaked' = leaked
          /\ IdleSet' = IdleSet /\ Held' = Held
      BY <1>3 DEF Reap, poolVars, workerVars, IdleSet, Held
    <2>2. \A s \in reapers' : s # {} /\ \E t \in reapers : s \subseteq t
      BY <1>3 DEF Reap
    <2>3. Reaping' \subseteq Reaping
      BY <2>2 DEF Reaping
    <2>4. \A s, t \in reapers' : s # t => s \cap t = {}
      <3>1. \A s, t \in reapers : s # t => s \cap t = {}
        BY DEF OneOwner
      <3>2. CASE reapers' = reapers \ {r}
        BY <3>1, <3>2
      <3>3. CASE reapers' = (reapers \ {r}) \cup {r \ {c}}
        <4>1. \A s \in reapers \ {r} : s \cap (r \ {c}) = {}
          BY <3>1
        <4> QED  BY <3>1, <3>3, <4>1
      <3> QED  BY <1>3, <3>2, <3>3 DEF Reap
    <2> QED  BY <2>1, <2>2, <2>3, <2>4 DEF OneOwner
  <1>4. ASSUME NEW c \in doomed, Destroy(c)
        PROVE  OneOwner' /\ (\A r \in reapers' : r # {})
    <2>1. /\ doomed' = doomed \ {c} /\ IdleSet' = IdleSet /\ Held' = Held
          /\ Reaping' = Reaping /\ idle' = idle /\ held' = held /\ reapers' = reapers
          /\ leaked' = leaked
      BY <1>4 DEF Destroy, poolVars, workerVars, reaperVars, IdleSet, Held, Reaping
    <2> QED  BY <2>1 DEF OneOwner
  <1>5. CASE UNCHANGED ownerVars
    BY <1>5, OwnersKept
  <1> QED
    BY <1>1, <1>2, <1>3, <1>4, <1>5
    DEF OwnerStep, ReaperStep, ExitStep, Configure, SetMaxSize, BeginExit, DrainDone,
        DrainTimedOut, ownerVars, poolVars, workerVars, reaperVars

LEMMA OwnerInvInductive == /\ Init => OwnerInv
                           /\ OwnerInv /\ [Next]_vars => OwnerInv'
  <1>1. Init => OwnerInv
    <2> SUFFICES ASSUME Init PROVE OneOwner /\ (\A r \in reapers : r # {})
      BY TypeInit DEF OwnerInv
    <2>1. Len(idle) = 0 /\ reapers = {} /\ leaked = {} /\ doomed = {}
      BY DEF Init
    <2>2. Held = {} /\ \A w \in Worker : held[w] = {}
      BY DEF Init, Held
    <2> QED  BY <2>1, <2>2 DEF OneOwner, IdleSet, Reaping
  <1>2. OwnerInv /\ [Next]_vars => OwnerInv'
    <2> SUFFICES ASSUME OwnerInv, [Next]_vars
                 PROVE  OneOwner' /\ (\A r \in reapers' : r # {})
      BY TypeStep DEF OwnerInv
    <2>1. CASE UNCHANGED vars
      BY <2>1, OwnersKept DEF OwnerInv, vars, ownerVars, poolVars, workerVars, reaperVars
    <2>2. CASE Next
      BY <2>2, OwnerWorker, OwnerOthers DEF Next
    <2> QED  BY <2>1, <2>2
  <1> QED  BY <1>1, <1>2

\* No connection is ever in two places: lent twice, pooled while lent, or
\* closed while somebody can still use it.
THEOREM OwnersUnique == Spec => []OneOwner
  <1>1. OwnerInv => OneOwner
    BY DEF OwnerInv
  <1> QED  BY <1>1, OwnerInvInductive, PTL DEF Spec

-----------------------------------------------------------------------------
(* Slots                                                                   *)

SlotInv == OwnerInv /\ SlotsAccounted

LEMMA SetsFinite ==
  TypeOK => /\ IsFiniteSet(Held) /\ Cardinality(Held) \in Nat
            /\ IsFiniteSet(Building) /\ Cardinality(Building) \in Nat
            /\ IsFiniteSet(Woken) /\ Cardinality(Woken) \in Nat
            /\ Len(idle) \in Nat
  <1> SUFFICES ASSUME TypeOK PROVE /\ Held \in SUBSET Conn /\ Building \in SUBSET Worker
                                   /\ Woken \in SUBSET Worker /\ Len(idle) \in Nat
    BY FS_Subset, FS_CardinalityType, WorkerAssumption, ConnAssumption
  <1> QED  BY LenProperties DEF TypeOK, Held, Building, Woken

\* How the sets SlotsAccounted counts change when worker w leaves or enters
\* the construction of a connection and others may be woken.
LEMMA BuildingKept ==
  ASSUME TypeOK, \A w \in Worker : pc'[w] = "building" <=> pc[w] = "building"
  PROVE  Building' = Building
  BY DEF Building

LEMMA WakingKeepsBuilding ==
  ASSUME TypeOK, WakeOne \/ WakeAll
  PROVE  Building' = Building
  <1>1. \A w \in Worker : pc'[w] = pc[w] \/ (pc[w] = "waiting" /\ pc'[w] = "woken")
    BY WakeOneEffect, WakeAllEffect DEF WakeOne, PcType, TypeOK
  <1> QED  BY <1>1, BuildingKept

LEMMA SlotsKept ==
  ASSUME SlotsAccounted, live' = live, Len(idle') = Len(idle), Held' = Held,
         Building' = Building
  PROVE  SlotsAccounted'
  BY DEF SlotsAccounted

LEMMA SlotBorrow ==
  ASSUME SlotInv, NEW w \in Worker, BorrowStep(w)
  PROVE  SlotsAccounted'
  <1> USE DEF SlotInv, OwnerInv
  <1>0. /\ IsFiniteSet(Held) /\ Cardinality(Held) \in Nat
        /\ IsFiniteSet(Building) /\ Cardinality(Building) \in Nat
        /\ Len(idle) \in Nat /\ live = Len(idle) + Cardinality(Held) + Cardinality(Building)
    BY SetsFinite DEF SlotsAccounted
  <1>1. CASE BorrowIdle(w)
    <2>1. /\ Len(idle') = Len(idle) - 1 /\ Last(idle) \in IdleSet
          /\ Held' = Held \cup {Last(idle)} /\ live' = live
      BY <1>1, IdleAfterLending, HeldAfterTaking DEF BorrowIdle
    <2>2. Last(idle) \notin Held
      BY <2>1 DEF OneOwner
    <2>3. Cardinality(Held') = Cardinality(Held) + 1
      BY <1>0, <2>1, <2>2, FS_AddElement
    <2>4. Building' = Building
      BY <1>1, BuildingKept DEF BorrowIdle, TypeOK
    <2> QED  BY <1>0, <2>1, <2>3, <2>4 DEF SlotsAccounted
  <1>2. CASE BorrowReserve(w)
    <2>1. Building' = Building \cup {w} /\ w \notin Building
      BY <1>2 DEF BorrowReserve, Building, TypeOK
    <2>2. Cardinality(Building') = Cardinality(Building) + 1
      BY <1>0, <2>1, FS_AddElement
    <2>3. Held' = Held /\ idle' = idle /\ live' = live + 1
      BY <1>2 DEF BorrowReserve, Held
    <2> QED  BY <1>0, <2>2, <2>3 DEF SlotsAccounted
  <1>3. ASSUME BuildSucceeds(w) \/ BuildFails(w)
        PROVE  /\ Building' = Building \ {w}
               /\ Cardinality(Building') = Cardinality(Building) - 1
    <2>1. w \in Building
      BY <1>3 DEF BuildSucceeds, BuildFails, Building
    <2>2. ASSUME BuildSucceeds(w) PROVE Building' = Building \ {w}
      BY <2>2 DEF BuildSucceeds, Building, TypeOK
    <2>3. ASSUME BuildFails(w) PROVE Building' = Building \ {w}
      <3> DEFINE from == [pc EXCEPT ![w] = "out"]
      <3>1. from \in PcType /\ from[w] = "out" /\ \A v \in Worker \ {w} : from[v] = pc[v]
        BY DEF PcType, TypeOK
      <3>2. WakeOneAfter(from)
        BY <2>3 DEF BuildFails
      <3> HIDE DEF from
      <3>3. \A v \in Worker : pc'[v] = from[v] \/ (from[v] = "waiting" /\ pc'[v] = "woken")
        BY <3>1, <3>2, WakeOneEffect
      <3> QED  BY <3>1, <3>3 DEF Building
    <2>4. Building' = Building \ {w}
      BY <1>3, <2>2, <2>3
    <2> QED  BY <1>0, <2>1, <2>4, FS_RemoveElement
  <1>4. CASE BuildSucceeds(w)
    <2>1. PICK c \in Conn \ Built : held' = [held EXCEPT ![w] = @ \cup {c}]
      BY <1>4 DEF BuildSucceeds
    <2>2. Held' = Held \cup {c} /\ c \notin Held
      BY <2>1, HeldAfterTaking DEF Built
    <2>3. Cardinality(Held') = Cardinality(Held) + 1
      BY <1>0, <2>2, FS_AddElement
    <2>4. idle' = idle /\ live' = live
      BY <1>4 DEF BuildSucceeds, poolVars
    <2> QED  BY <1>0, <1>3, <1>4, <2>3, <2>4 DEF SlotsAccounted
  <1>5. CASE BuildFails(w)
    <2>1. Held' = Held /\ idle' = idle /\ live' = live - 1
      BY <1>5 DEF BuildFails, Held
    <2> QED  BY <1>0, <1>3, <1>5, <2>1 DEF SlotsAccounted
  <1>6. CASE BorrowRefused(w) \/ BorrowWait(w) \/ BorrowTimedOut(w)
    <2>1. Building' = Building
      BY <1>6, BuildingKept DEF BorrowRefused, BorrowWait, BorrowTimedOut, TypeOK
    <2>2. live' = live /\ idle' = idle /\ Held' = Held
      BY <1>6 DEF BorrowRefused, BorrowWait, BorrowTimedOut, poolVars, Held
    <2> QED  BY <2>1, <2>2, SlotsKept
  <1> QED  BY <1>1, <1>2, <1>4, <1>5, <1>6 DEF BorrowStep

LEMMA SlotStep == SlotInv /\ [Next]_vars => SlotInv'
  <1> USE DEF SlotInv, OwnerInv
  <1> SUFFICES ASSUME SlotInv, [Next]_vars PROVE SlotsAccounted'
    BY OwnerInvInductive
  <1>0. /\ IsFiniteSet(Held) /\ Cardinality(Held) \in Nat /\ Cardinality(Building) \in Nat
        /\ Len(idle) \in Nat /\ live = Len(idle) + Cardinality(Held) + Cardinality(Building)
    BY SetsFinite DEF SlotsAccounted
  <1>1. ASSUME NEW w \in Worker, BeginBorrow(w) \/ Tick(w) PROVE SlotsAccounted'
    <2>1. Building' = Building
      BY <1>1, BuildingKept DEF BeginBorrow, Tick, TypeOK
    <2>2. live' = live /\ idle' = idle /\ Held' = Held
      BY <1>1 DEF BeginBorrow, Tick, poolVars, Held
    <2> QED  BY <2>1, <2>2, SlotsKept
  <1>2. ASSUME NEW w \in Worker, NEW c \in held[w], Release(w, c) \/ Discard(w, c)
        PROVE  SlotsAccounted'
    <2>0. GiveUp(w, c) /\ WakeOne
      BY <1>2 DEF Release, Discard
    <2>1. Held' = Held \ {c} /\ c \in Held /\ c \in Conn /\ Building' = Building
      <3>1. c \in Held /\ c \in Conn
        BY DEF Held, TypeOK
      <3> QED  BY <2>0, <3>1, HeldAfterGivingUp, WakingKeepsBuilding
    <2>2. Cardinality(Held') = Cardinality(Held) - 1
      BY <1>0, <2>1, FS_RemoveElement
    <2>3. \/ live' = live - 1 /\ Len(idle') = Len(idle)
          \/ live' = live /\ Len(idle') = Len(idle) + 1
      BY <1>2, <2>1, IdleAfterAppend DEF Release, Discard
    <2> QED  BY <1>0, <2>1, <2>2, <2>3 DEF SlotsAccounted
  <1>3. CASE OwnerStep
    <2>1. ASSUME NEW size \in Sizes, Configure(size) \/ SetMaxSize(size) PROVE SlotsAccounted'
      <3>1. Building' = Building
        BY <2>1, WakingKeepsBuilding DEF Configure, SetMaxSize
      <3>2. live' = live /\ idle' = idle /\ Held' = Held
        BY <2>1 DEF Configure, SetMaxSize, Held
      <3> QED  BY <3>1, <3>2, SlotsKept
    <2>2. ASSUME NEW n \in 1..Len(idle), ReapIdle(n) PROVE SlotsAccounted'
      <3>1. /\ Len(idle') = Len(idle) - n /\ live' = live - n
            /\ Held' = Held /\ Building' = Building
        BY <2>2, IdleAfterReaping DEF ReapIdle, workerVars, Held, Building
      <3> QED  BY <1>0, <3>1 DEF SlotsAccounted
    <2>3. CASE ShutdownAsync
      <3>1. Building' = Building /\ Held' = Held /\ Len(idle') = 0 /\ live' = live - Len(idle)
        BY <2>3, WakingKeepsBuilding DEF ShutdownAsync, Held
      <3> QED  BY <1>0, <3>1 DEF SlotsAccounted
    <2> QED  BY <1>3, <2>1, <2>2, <2>3 DEF OwnerStep
  <1>4. CASE UNCHANGED <<poolVars, workerVars>>
    BY <1>4, SlotsKept DEF poolVars, workerVars, Held, Building
  <1> QED
    BY <1>1, <1>2, <1>3, <1>4, SlotBorrow
    DEF Next, WorkerStep, Return, Destroy, ReaperStep, Reap, ExitStep, BeginExit, DrainDone,
        DrainTimedOut, vars

\* m_live is exact in every reachable state: no failure, timeout, shrink,
\* reconfiguration or shutdown loses a slot or gives one back twice.
THEOREM SlotsExact == Spec => []SlotsAccounted
  <1>1. Init => SlotInv
    <2> SUFFICES ASSUME Init PROVE SlotsAccounted
      BY OwnerInvInductive DEF SlotInv
    <2>1. Held = {} /\ Building = {} /\ Len(idle) = 0 /\ live = 0
      BY DEF Init, Held, Building
    <2> QED  BY <2>1, FS_EmptySet DEF SlotsAccounted
  <1>2. SlotInv => SlotsAccounted
    BY DEF SlotInv
  <1> QED  BY <1>1, <1>2, SlotStep, PTL DEF Spec

-----------------------------------------------------------------------------
(* Wakeups                                                                 *)

WakeInv == TypeOK /\ NoLostWakeup

\* The slots a borrower could reserve, and what may change them.
FreeSlots == IF factory /\ live < max THEN max - live ELSE 0

LEMMA FreeSlotsType == TypeOK => FreeSlots \in Nat /\ Len(idle) \in Nat
  BY LenProperties DEF TypeOK, FreeSlots

\* One more connection or slot may become available, if a sleeping worker is
\* notified of it, or nobody sleeps.
LEMMA OneMoreNotified ==
  ASSUME WakeInv, NEW from \in PcType, WakeOneAfter(from),
         \A v \in Worker : (from[v] = "waiting") = (pc[v] = "waiting"),
         \A v \in Worker : (from[v] = "woken") = (pc[v] = "woken"),
         Available' \in Int, Available' <= Available + 1, shutdown' = shutdown
  PROVE  NoLostWakeup'
  <1> USE DEF WakeInv
  <1>0. /\ Waiting = {v \in Worker : from[v] = "waiting"}
        /\ Woken = {v \in Worker : from[v] = "woken"}
    <2>1. Waiting = {v \in Worker : from[v] = "waiting"}
      BY DEF Waiting
    <2>2. Woken = {v \in Worker : from[v] = "woken"}
      BY DEF Woken
    <2> QED  BY <2>1, <2>2
  <1>1. CASE Waiting = {}
    <2>1. pc' = from
      BY <1>0, <1>1 DEF WakeOneAfter
    <2>2. Waiting' = {}
      BY <1>0, <1>1, <2>1 DEF Waiting
    <2> QED  BY <2>2 DEF NoLostWakeup
  <1>2. CASE Waiting # {}
    <2>1. PICK v \in Worker : from[v] = "waiting" /\ pc' = [from EXCEPT ![v] = "woken"]
      BY <1>0, <1>2 DEF WakeOneAfter
    <2>2. Woken' = Woken \cup {v} /\ v \notin Woken
      BY <1>0, <2>1 DEF Woken, PcType
    <2>3. Cardinality(Woken') = Cardinality(Woken) + 1 /\ Cardinality(Woken) \in Nat
      BY <2>2, SetsFinite, FS_AddElement
    <2>4. Available \in Nat
      BY FreeSlotsType DEF Available, FreeSlots
    <2> QED  BY <1>2, <2>3, <2>4 DEF NoLostWakeup
  <1> QED  BY <1>1, <1>2

\* A worker that was notified takes one connection or slot, or finds none left
\* and sleeps again.
LEMMA OneLessNotified ==
  ASSUME WakeInv, NEW w \in Worker, pc[w] = "woken", ~shutdown,
         NEW next \in {"out", "building", "waiting"}, pc' = [pc EXCEPT ![w] = next],
         \/ Waiting' = Waiting /\ Available' = Available - 1
         \/ Available' = 0
  PROVE  NoLostWakeup'
  <1> USE DEF WakeInv
  <1>1. Woken' = Woken \ {w} /\ w \in Woken
    BY DEF Woken, TypeOK
  <1>2. /\ Cardinality(Woken') = Cardinality(Woken) - 1
        /\ Cardinality(Woken) \in Nat /\ Cardinality(Woken') \in Nat
    BY <1>1, SetsFinite, FS_RemoveElement, FS_CardinalityType
  <1>3. Available \in Nat
    BY FreeSlotsType DEF Available, FreeSlots
  <1>4. CASE Waiting' = Waiting /\ Available' = Available - 1
    BY <1>2, <1>3, <1>4 DEF NoLostWakeup
  <1>5. CASE Available' = 0
    BY <1>2, <1>5 DEF NoLostWakeup
  <1> QED  BY <1>4, <1>5

LEMMA WakeBorrow ==
  ASSUME WakeInv, NEW w \in Worker, BorrowStep(w)
  PROVE  NoLostWakeup'
  <1> USE DEF WakeInv
  <1>0. FreeSlots \in Nat /\ Len(idle) \in Nat /\ Available = Len(idle) + FreeSlots
    BY FreeSlotsType DEF Available, FreeSlots
  <1>1. CASE BorrowRefused(w)
    BY <1>1 DEF BorrowRefused, NoLostWakeup, poolVars
  <1>2. CASE BorrowIdle(w)
    <2>1. Len(idle') = Len(idle) - 1 /\ FreeSlots' = FreeSlots
      BY <1>2, FrontLast DEF BorrowIdle, FreeSlots, TypeOK
    <2>2. Available' = Available - 1
      BY <1>0, <2>1 DEF Available, FreeSlots
    <2>3. Waiting' = Waiting
      BY <1>2 DEF BorrowIdle, Waiting, TypeOK
    <2> QED  BY <1>2, <2>2, <2>3, OneLessNotified DEF BorrowIdle
  <1>3. CASE BorrowReserve(w)
    <2>1. idle' = idle /\ FreeSlots' = FreeSlots - 1
      BY <1>3 DEF BorrowReserve, FreeSlots, TypeOK
    <2>2. Available' = Available - 1
      BY <1>0, <2>1 DEF Available, FreeSlots
    <2>3. Waiting' = Waiting
      BY <1>3 DEF BorrowReserve, Waiting, TypeOK
    <2> QED  BY <1>3, <2>2, <2>3, OneLessNotified DEF BorrowReserve
  <1>4. CASE BorrowWait(w)
    <2>1. Available' = 0
      BY <1>4 DEF BorrowWait, Available, poolVars
    <2> QED  BY <1>4, <2>1, OneLessNotified DEF BorrowWait
  <1>5. CASE BorrowTimedOut(w) \/ BuildSucceeds(w)
    <2>1. Available' = Available /\ shutdown' = shutdown
      BY <1>5 DEF BorrowTimedOut, BuildSucceeds, poolVars, Available
    <2>2. Waiting' \subseteq Waiting /\ Woken' = Woken
      BY <1>5 DEF BorrowTimedOut, BuildSucceeds, Waiting, Woken, TypeOK
    <2> QED  BY <2>1, <2>2 DEF NoLostWakeup
  <1>6. CASE BuildFails(w)
    <2> DEFINE from == [pc EXCEPT ![w] = "out"]
    <2>1. from \in PcType
      BY DEF PcType, TypeOK
    <2>5. pc[w] = "building" /\ pc \in PcType
      BY <1>6 DEF BuildFails, PcType, TypeOK
    <2>6. \A v \in Worker : (from[v] = "waiting") = (pc[v] = "waiting")
      BY <2>5 DEF PcType
    <2>7. \A v \in Worker : (from[v] = "woken") = (pc[v] = "woken")
      BY <2>5 DEF PcType
    <2>2. WakeOneAfter(from)
      BY <1>6 DEF BuildFails
    <2>3. idle' = idle /\ shutdown' = shutdown /\ FreeSlots' \in Nat
          /\ FreeSlots' <= FreeSlots + 1
      BY <1>6 DEF BuildFails, FreeSlots, TypeOK
    <2>4. Available' \in Int /\ Available' <= Available + 1
      BY <1>0, <2>3 DEF Available, FreeSlots
    <2> HIDE DEF from
    <2> QED  BY <2>1, <2>2, <2>3, <2>4, <2>6, <2>7, OneMoreNotified
  <1> QED  BY <1>1, <1>2, <1>3, <1>4, <1>5, <1>6 DEF BorrowStep

LEMMA WakeStep == WakeInv /\ [Next]_vars => WakeInv'
  <1> USE DEF WakeInv
  <1> SUFFICES ASSUME WakeInv, [Next]_vars PROVE NoLostWakeup'
    BY TypeStep
  <1>0. FreeSlots \in Nat /\ Len(idle) \in Nat /\ Available = Len(idle) + FreeSlots
    BY FreeSlotsType DEF Available, FreeSlots
  <1>1. ASSUME NEW w \in Worker, BeginBorrow(w) PROVE NoLostWakeup'
    <2>1. Woken' = Woken \cup {w} /\ w \notin Woken /\ Waiting' = Waiting
      BY <1>1 DEF BeginBorrow, Woken, Waiting, TypeOK
    <2>2. Cardinality(Woken') = Cardinality(Woken) + 1 /\ Cardinality(Woken) \in Nat
      BY <2>1, SetsFinite, FS_AddElement
    <2>3. Available' = Available /\ shutdown' = shutdown
      BY <1>1 DEF BeginBorrow, poolVars, Available
    <2> QED  BY <1>0, <2>1, <2>2, <2>3 DEF NoLostWakeup
  <1>2. ASSUME NEW w \in Worker, NEW c \in held[w], Release(w, c) \/ Discard(w, c)
        PROVE  NoLostWakeup'
    <2>1. shutdown' = shutdown /\ WakeOneAfter(pc) /\ pc \in PcType /\ c \in Conn
      BY <1>2 DEF Release, Discard, WakeOne, PcType, TypeOK
    <2>2. \/ idle' = idle /\ live' = live - 1
          \/ idle' = Append(idle, c) /\ live' = live
      BY <1>2 DEF Release, Discard
    <2>3. factory' = factory /\ max' = max
      BY <1>2 DEF Release, Discard
    <2>4. Available' \in Int /\ Available' <= Available + 1
      <3>1. CASE idle' = idle /\ live' = live - 1
        <4>1. FreeSlots' \in Nat /\ FreeSlots' <= FreeSlots + 1
          BY <2>3, <3>1 DEF FreeSlots, TypeOK
        <4> QED  BY <1>0, <3>1, <4>1 DEF Available, FreeSlots
      <3>2. CASE idle' = Append(idle, c) /\ live' = live
        <4>1. FreeSlots' = FreeSlots /\ Len(idle') = Len(idle) + 1
          BY <2>1, <2>3, <3>2, IdleAfterAppend DEF FreeSlots
        <4> QED  BY <1>0, <4>1 DEF Available, FreeSlots
      <3> QED  BY <2>2, <3>1, <3>2
    <2>5. /\ \A v \in Worker : (pc[v] = "waiting") = (pc[v] = "waiting")
          /\ \A v \in Worker : (pc[v] = "woken") = (pc[v] = "woken")
      OBVIOUS
    <2> QED  BY <2>1, <2>4, <2>5, OneMoreNotified
  <1>3. ASSUME WakeAll PROVE NoLostWakeup'
    <2>1. Waiting' = {}
      BY <1>3 DEF WakeAll, Waiting
    <2> QED  BY <2>1 DEF NoLostWakeup
  <1>4. ASSUME NEW n \in 1..Len(idle), ReapIdle(n) PROVE NoLostWakeup'
    <2>1. /\ Len(idle') = Len(idle) - n /\ live' = live - n
          /\ factory' = factory /\ max' = max /\ shutdown' = shutdown
      BY <1>4, DropFirst DEF ReapIdle, TypeOK
    <2>2. FreeSlots' \in Nat /\ FreeSlots' <= FreeSlots + n
      BY <1>0, <2>1 DEF FreeSlots, TypeOK
    <2>3. Available' \in Int /\ Available' <= Available
      BY <1>0, <2>1, <2>2 DEF Available, FreeSlots
    <2>4. Waiting' = Waiting /\ Woken' = Woken /\ Cardinality(Woken) \in Nat
      BY <1>4, SetsFinite DEF ReapIdle, workerVars, Waiting, Woken
    <2> QED  BY <1>0, <2>1, <2>3, <2>4 DEF NoLostWakeup
  <1>5. CASE UNCHANGED <<poolVars, pc>>
    BY <1>5 DEF poolVars, NoLostWakeup, Waiting, Woken, Available
  <1> QED
    BY <1>1, <1>2, <1>3, <1>4, <1>5, WakeBorrow
    DEF Next, WorkerStep, Tick, Return, Destroy, OwnerStep, Configure, SetMaxSize,
        ShutdownAsync, ReaperStep, Reap, ExitStep, BeginExit, DrainDone, DrainTimedOut, vars,
        workerVars

\* No wakeup is ever lost: whatever a sleeping worker could have is promised to
\* a worker that is awake.
THEOREM WakeupsKept == Spec => []NoLostWakeup
  <1>1. Init => WakeInv
    <2>1. Init => Waiting = {}
      BY DEF Init, Waiting
    <2> QED  BY <2>1, TypeInit DEF WakeInv, NoLostWakeup
  <1>2. WakeInv => NoLostWakeup
    BY DEF WakeInv
  <1> QED  BY <1>1, <1>2, WakeStep, PTL DEF Spec

-----------------------------------------------------------------------------
(* Shutdown and exit                                                       *)

\* A pool that is shut down is empty and nobody sleeps on it.
THEOREM ShutMeansEmpty == Spec => []ShutPoolIsEmpty
  <1> DEFINE Inv == TypeOK /\ ShutPoolIsEmpty
  <1>1. Init => Inv
    BY TypeInit DEF Init, ShutPoolIsEmpty
  <1>2. Inv /\ [Next]_vars => Inv'
    <2> SUFFICES ASSUME Inv, [Next]_vars PROVE ShutPoolIsEmpty'
      BY TypeStep
    <2>1. ASSUME WakeOne \/ WakeAll PROVE Waiting' \subseteq Waiting
      BY <2>1, WakeOneEffect, WakeAllEffect DEF WakeOne, PcType, TypeOK, Waiting
    <2>2. ASSUME NEW w \in Worker, BuildFails(w) PROVE Waiting' \subseteq Waiting
      <3> DEFINE from == [pc EXCEPT ![w] = "out"]
      <3>1. from \in PcType /\ from[w] = "out" /\ \A v \in Worker \ {w} : from[v] = pc[v]
        BY DEF PcType, TypeOK
      <3>2. WakeOneAfter(from)
        BY <2>2 DEF BuildFails
      <3> HIDE DEF from
      <3> QED  BY <3>1, <3>2, WakeOneEffect DEF Waiting, PcType
    <2>3. ASSUME NEW w \in Worker, WorkerStep(w) PROVE ShutPoolIsEmpty'
      <3>1. CASE BorrowStep(w) \/ BeginBorrow(w) \/ Tick(w)
        <4>1. shutdown' = shutdown /\ (shutdown => idle' = idle)
          BY <3>1 DEF BorrowStep, BorrowRefused, BorrowIdle, BorrowReserve, BorrowWait,
                      BorrowTimedOut, BuildSucceeds, BuildFails, BeginBorrow, Tick, poolVars
        <4>2. shutdown => Waiting' \subseteq Waiting
          BY <2>2, <3>1 DEF BorrowStep, BorrowRefused, BorrowIdle, BorrowReserve, BorrowWait,
                      BorrowTimedOut, BuildSucceeds, BeginBorrow, Tick, Waiting, TypeOK
        <4> QED  BY <4>1, <4>2 DEF ShutPoolIsEmpty
      <3>2. CASE Return(w)
        BY <2>1, <3>2 DEF Return, Release, Discard, ShutPoolIsEmpty
      <3> QED  BY <2>3, <3>1, <3>2 DEF WorkerStep
    <2>4. CASE OwnerStep
      <3>1. ASSUME NEW size \in Sizes, Configure(size) \/ SetMaxSize(size)
            PROVE  ShutPoolIsEmpty'
        BY <2>1, <3>1 DEF Configure, SetMaxSize, ShutPoolIsEmpty
      <3>2. ASSUME NEW n \in 1..Len(idle), ReapIdle(n) PROVE ShutPoolIsEmpty'
        <4>1. idle # << >>
          BY <3>2
        <4> QED  BY <3>2, <4>1 DEF ReapIdle, ShutPoolIsEmpty
      <3>3. CASE ShutdownAsync
        <4>1. Waiting' = {}
          BY <3>3 DEF ShutdownAsync, WakeAll, Waiting
        <4> QED  BY <3>3, <4>1 DEF ShutdownAsync, ShutPoolIsEmpty
      <3> QED  BY <2>4, <3>1, <3>2, <3>3 DEF OwnerStep
    <2>5. CASE UNCHANGED <<poolVars, pc>>
      BY <2>5 DEF poolVars, ShutPoolIsEmpty, Waiting
    <2> QED
      BY <2>3, <2>4, <2>5
      DEF Next, Destroy, ReaperStep, Reap, ExitStep, BeginExit, DrainDone, DrainTimedOut, vars,
          workerVars
  <1>3. Inv => ShutPoolIsEmpty
    OBVIOUS
  <1> QED  BY <1>1, <1>2, <1>3, PTL DEF Spec

\* The registry counts the running reapers, and none can start once the drain
\* has begun.
ExitInv ==
  /\ OwnerInv /\ ReapersGoneBeforeHandlers
  /\ IsFiniteSet(reapers)
  /\ draining <=> exit # "running"

LEMMA ReapersKept ==
  ASSUME ExitInv, UNCHANGED reaperVars
  PROVE  /\ ReapersGoneBeforeHandlers' /\ IsFiniteSet(reapers)'
         /\ (draining <=> exit # "running")'
  BY DEF ExitInv, ReapersGoneBeforeHandlers, reaperVars

LEMMA ExitStepKept ==
  ASSUME ExitInv, [Next]_vars
  PROVE  /\ ReapersGoneBeforeHandlers' /\ IsFiniteSet(reapers)'
         /\ (draining <=> exit # "running")'
  <1> DEFINE Goal == /\ ReapersGoneBeforeHandlers' /\ IsFiniteSet(reapers)'
                     /\ (draining <=> exit # "running")'
  <1>0. Cardinality(reapers) \in Nat /\ active = Cardinality(reapers)
    BY FS_CardinalityType DEF ExitInv, ReapersGoneBeforeHandlers
  <1>1. CASE ShutdownAsync
    <2>1. CASE UNCHANGED <<reapers, active>>
      BY <1>1, <2>1 DEF ShutdownAsync, ExitInv, ReapersGoneBeforeHandlers
    <2>2. CASE /\ idle # << >> /\ ~draining /\ active' = active + 1
               /\ reapers' = reapers \cup {IdleSet}
      <3>1. IdleSet \notin reapers
        <4>1. Len(idle) \in Nat \ {0}
          BY <2>2, EmptySeq DEF ExitInv, OwnerInv, TypeOK
        <4>2. idle[1] \in IdleSet
          BY <4>1 DEF IdleSet
        <4>3. IdleSet \cap Reaping = {}
          BY DEF ExitInv, OwnerInv, OneOwner
        <4> QED  BY <4>2, <4>3 DEF Reaping
      <3>2. IsFiniteSet(reapers') /\ Cardinality(reapers') = Cardinality(reapers) + 1
        BY <2>2, <3>1, FS_AddElement DEF ExitInv
      <3>3. exit = "running" /\ exit' = exit /\ draining' = draining
        BY <1>1, <2>2 DEF ShutdownAsync, ExitInv
      <3> QED  BY <1>0, <2>2, <3>2, <3>3 DEF ExitInv, ReapersGoneBeforeHandlers
    <2> QED  BY <1>1, <2>1, <2>2 DEF ShutdownAsync, HandOver
  <1>2. ASSUME NEW r \in reapers, NEW c \in r, Reap(r, c) PROVE Goal
    <2>1. exit' = exit /\ draining' = draining /\ reapers # {}
      BY <1>2 DEF Reap
    <2>2. IsFiniteSet(reapers \ {r}) /\ Cardinality(reapers \ {r}) = Cardinality(reapers) - 1
      BY FS_RemoveElement DEF ExitInv
    <2>3. CASE reapers' = reapers \ {r} /\ active' = active - 1
      BY <1>0, <2>1, <2>2, <2>3 DEF ExitInv, ReapersGoneBeforeHandlers
    <2>4. CASE r # {c} /\ reapers' = (reapers \ {r}) \cup {r \ {c}} /\ active' = active
      <3>1. r \ {c} \notin reapers \ {r}
        <4>1. r \ {c} # {}
          BY <2>4
        <4>2. \A s \in reapers \ {r} : s \cap r = {}
          BY DEF ExitInv, OwnerInv, OneOwner
        <4> QED  BY <4>1, <4>2
      <3>2. /\ IsFiniteSet(reapers')
            /\ Cardinality(reapers') = Cardinality(reapers \ {r}) + 1
        BY <2>2, <2>4, <3>1, FS_AddElement
      <3>3. Cardinality(reapers') = Cardinality(reapers)
        BY <1>0, <2>2, <3>2
      <3> QED  BY <1>0, <2>1, <2>4, <3>2, <3>3 DEF ExitInv, ReapersGoneBeforeHandlers
    <2> QED  BY <1>2, <2>3, <2>4 DEF Reap
  <1>3. CASE ExitStep
    <2>1. DrainDone => reapers = {}
      BY <1>0, FS_EmptySet DEF DrainDone, ExitInv
    <2> QED
      BY <1>3, <2>1 DEF ExitStep, BeginExit, DrainDone, DrainTimedOut, ExitInv,
                        ReapersGoneBeforeHandlers
  <1>4. CASE UNCHANGED reaperVars
    BY <1>4, ReapersKept
  <1> QED
    BY <1>1, <1>2, <1>3, <1>4
    DEF Next, WorkerStep, BorrowStep, BeginBorrow, BorrowRefused, BorrowIdle, BorrowReserve,
        BorrowWait, Tick, BorrowTimedOut, BuildSucceeds, BuildFails, Return, Release, Discard,
        Destroy, OwnerStep, Configure, SetMaxSize, ReapIdle, ReaperStep, vars

\* The exit handlers never run while a reaper is still closing connections.
THEOREM HandlersRunAlone == Spec => []ReapersGoneBeforeHandlers
  <1>1. Init => ExitInv
    <2>1. Init => reapers = {} /\ active = 0 /\ exit = "running" /\ ~draining
      BY DEF Init
    <2> QED
      BY <2>1, FS_EmptySet, OwnerInvInductive DEF ExitInv, ReapersGoneBeforeHandlers
  <1>2. ExitInv /\ [Next]_vars => ExitInv'
    BY ExitStepKept, OwnerInvInductive DEF ExitInv
  <1>3. ExitInv => ReapersGoneBeforeHandlers
    BY DEF ExitInv
  <1> QED  BY <1>1, <1>2, <1>3, PTL DEF Spec

-----------------------------------------------------------------------------
(* Removal                                                                 *)

USE TreeAssumption, HowAssumption, ProviderAssumption, BoundAssumption

-----------------------------------------------------------------------------
(* The forest: what a node is in                                           *)

\* Path(n) is the least set that holds n and is closed under Parent.
LEMMA Least ==
  ASSUME NEW n \in Node
  PROVE  /\ n \in Path(n) /\ Path(n) \subseteq Node /\ Closed(Path(n))
         /\ \A S \in SUBSET Node : n \in S /\ Closed(S) => Path(n) \subseteq S
  <1>1. n \in Path(n) /\ Path(n) \subseteq Node
    BY DEF Path
  <1>2. Closed(Path(n))
    <2>1. ASSUME NEW m \in Path(n), Parent[m] # Root, NEW S \in SUBSET Node, n \in S, Closed(S)
          PROVE  Parent[m] \in S
      BY <2>1 DEF Path, Closed
    <2>2. ASSUME NEW m \in Path(n), Parent[m] # Root PROVE Parent[m] \in Node
      BY <1>1, <2>2 DEF TreeAssumption
    <2> QED  BY <2>1, <2>2 DEF Path, Closed
  <1>3. \A S \in SUBSET Node : n \in S /\ Closed(S) => Path(n) \subseteq S
    BY DEF Path
  <1> QED  BY <1>1, <1>2, <1>3

LEMMA Up ==
  ASSUME NEW n \in Node
  PROVE  /\ Above[n] \subseteq Node /\ Path(n) = {n} \cup Above[n]
         /\ Parent[n] = Root => Above[n] = {} /\ Path(n) = {n}
         /\ Parent[n] # Root => Parent[n] \in Node /\ Above[n] = Path(Parent[n])
  <1>0. Above[n] = IF Parent[n] = Root THEN {} ELSE Path(Parent[n])
    BY DEF Above
  <1>1. CASE Parent[n] = Root
    <2>1. Closed({n})
      BY <1>1 DEF Closed
    <2> QED  BY <1>0, <1>1, <2>1, Least
  <1>2. CASE Parent[n] # Root
    <2>1. PICK p \in Node : p = Parent[n]
      BY <1>2 DEF TreeAssumption
    <2>2. p \in Path(p) /\ Path(p) \subseteq Node /\ Closed(Path(p))
      BY Least
    <2>3. Closed({n} \cup Path(p)) /\ {n} \cup Path(p) \in SUBSET Node
      BY <2>1, <2>2 DEF Closed
    <2>4. Path(n) \subseteq {n} \cup Path(p)
      BY <2>3, Least
    <2>5. p \in Path(n) /\ Closed(Path(n)) /\ Path(n) \in SUBSET Node /\ n \in Path(n)
      BY <1>2, <2>1, Least DEF Closed
    <2>6. Path(p) \subseteq Path(n)
      BY <2>5, Least
    <2> QED  BY <1>0, <1>2, <2>1, <2>2, <2>4, <2>5, <2>6
  <1> QED  BY <1>1, <1>2

LEMMA Within ==
  ASSUME NEW n \in Node, NEW m \in Path(n)
  PROVE  m \in Node /\ Path(m) \subseteq Path(n)
  <1>1. m \in Node /\ Path(n) \in SUBSET Node /\ Closed(Path(n))
    BY Least
  <1> QED  BY <1>1, Least

\* The nodes on the way from t down to n are closed, as every node below t is.
LEMMA Between ==
  ASSUME NEW n \in Node, NEW t \in Node, t \in Path(n),
         Parent[t] = Root \/ t \in Path(Parent[t])
  PROVE  \A m \in Path(n) : t \in Path(m)
  <1> DEFINE S == {m \in Path(n) : t \in Path(m)}
  <1>1. n \in S /\ S \in SUBSET Node
    BY Least
  <1>2. ASSUME NEW m \in S, Parent[m] # Root PROVE Parent[m] \in S
    <2>1. m \in Node /\ Parent[m] \in Path(n) /\ Path(m) = {m} \cup Path(Parent[m])
      BY <1>2, Least, Up DEF Closed
    <2>2. t \in Path(Parent[m])
      BY <1>2, <2>1
    <2> QED  BY <2>1, <2>2
  <1>3. Closed(S)
    BY <1>2 DEF Closed
  <1>4. Path(n) \subseteq S
    BY <1>1, <1>3, Least
  <1> QED  BY <1>4

\* Every node is in one selected tree, and none is in itself.
LEMMA Forest ==
  ASSUME NEW n \in Node
  PROVE  /\ n \notin Above[n]
         /\ \E s \in Selected : s \in Path(n)
         /\ \A s, t \in Selected : s \in Path(n) /\ t \in Path(n) => s = t
  <1>1. \A s \in Selected : s \in Node /\ Parent[s] = Root /\ Path(s) = {s}
    BY Up DEF Selected, Children
  <1>2. PICK s \in Selected : s \in Path(n)
    BY RootedAssumption DEF RootedAssumption
  <1>3. n \notin Above[n]
    <2> SUFFICES ASSUME n \in Above[n] PROVE FALSE
      OBVIOUS
    <2>1. Parent[n] # Root /\ n \in Path(Parent[n]) /\ n \in Path(n)
      BY Up, Least
    <2>2. n \in Path(s)
      BY <1>2, <2>1, Between
    <2> QED  BY <1>1, <2>1, <2>2
  <1>4. ASSUME NEW a \in Selected, NEW b \in Selected, a \in Path(n), b \in Path(n) PROVE a = b
    <2>1. b \in Path(a)
      BY <1>1, <1>4, Between
    <2> QED  BY <1>1, <2>1
  <1> QED  BY <1>2, <1>3, <1>4

LEMMA Owned ==
  ASSUME NEW n \in Node
  PROVE  /\ n \in Own => \A m \in Path(n) : m \in Own
         /\ Parent[n] = Root => n \in Own
         /\ Parent[n] # Root => (n \in Own <=> Parent[n] \in Own /\ Parent[n] \notin Link)
  <1>1. ASSUME n \in Own, NEW m \in Path(n) PROVE m \in Own
    <2>1. CASE m = n
      BY <1>1, <2>1
    <2>2. CASE m # n
      <3>1. m \in Above[n] /\ m \in Node
        BY <2>2, Up, Within
      <3>2. Parent[n] # Root /\ Above[n] = Path(Parent[n]) /\ Parent[n] \in Node
        BY <3>1, Up
      <3>3. Above[m] \subseteq Above[n]
        BY <3>1, <3>2, Within, Up
      <3> QED  BY <1>1, <3>1, <3>3 DEF Own
    <2> QED  BY <2>1, <2>2
  <1>2. Parent[n] = Root => n \in Own
    BY Up DEF Own
  <1>3. Parent[n] # Root => (n \in Own <=> Parent[n] \in Own /\ Parent[n] \notin Link)
    <2> SUFFICES ASSUME Parent[n] # Root PROVE n \in Own <=> Parent[n] \in Own /\ Parent[n] \notin Link
      OBVIOUS
    <2>1. Parent[n] \in Node /\ Above[n] = {Parent[n]} \cup Above[Parent[n]]
      BY Up
    <2> QED  BY <2>1 DEF Own
  <1> QED  BY <1>1, <1>2, <1>3

\* What is in n, beyond links too.
In(n) == {m \in Node : n \in Path(m)}

LEMMA Trees ==
  ASSUME NEW n \in Node
  PROVE  /\ n \in Tree(n) /\ Tree(n) \subseteq In(n) /\ Swept(n) \subseteq In(n) /\ n \notin Swept(n)
         /\ n \in Own => Tree(n) \subseteq Own
         /\ n \in Own /\ n \notin Link => Swept(n) \subseteq Own
         /\ \A m \in Own : n \in Path(m) => m \in Tree(n)
         /\ Children(n) \subseteq Swept(n) \cap In(n)
  <1>1. \A m \in Below(n) : m \in Node /\ n \in Above[m] /\ n \in Path(m) /\ m # n
    BY Up, Forest DEF Below
  <1>2. n \in Tree(n) /\ Tree(n) \subseteq In(n) /\ Swept(n) \subseteq In(n) /\ n \notin Swept(n)
    BY <1>1, Least DEF Tree, Swept, In
  <1>3. n \in Own => Tree(n) \subseteq Own
    BY <1>1 DEF Own, Tree
  <1>4. n \in Own /\ n \notin Link => Swept(n) \subseteq Own
    BY <1>1 DEF Own, Swept
  <1>5. ASSUME NEW m \in Own, n \in Path(m) PROVE m \in Tree(n)
    <2>1. m \in Node /\ Path(m) = {m} \cup Above[m]
      BY Up DEF Own
    <2> QED  BY <1>5, <2>1 DEF Tree, Below, Own
  <1>6. ASSUME NEW m \in Children(n) PROVE m \in Swept(n) /\ m \in In(n)
    <2>1. m \in Node /\ Parent[m] = n /\ Parent[m] # Root
      BY <1>6 DEF Children, TreeAssumption
    <2>2. Above[m] = {n} \cup Above[n]
      BY <2>1, Up
    <2>3. m \in Swept(n)
      BY <2>1, <2>2 DEF Swept, Below
    <2> QED  BY <1>2, <2>3
  <1> QED  BY <1>2, <1>3, <1>4, <1>5, <1>6

-----------------------------------------------------------------------------
(* The calls: from a selected path down to the node in hand                *)

Frames == [node : Node, left : SUBSET Node]

\* What a call on n may have before it.
Duty(n) ==
  IF how = "local" /\ IsDir(n) THEN Swept(n)
  ELSE IF how = "provider" /\ IsDir(n) THEN Children(n) ELSE {}

\* Each call is inside the one around it, about a child that has been taken off its list.
Way(q) ==
  /\ \A i \in 1 .. Len(q) : q[i].left \subseteq Duty(q[i].node)
  /\ \A i \in 1 .. (Len(q) - 1) :
       IsDir(q[i].node) /\ Parent[q[i + 1].node] = q[i].node /\ q[i + 1].node \notin q[i].left
  /\ \A j \in 1 .. Len(q) : Path(q[j].node) = {q[i].node : i \in 1 .. j}

Calls ==
  /\ stack = << >> <=> step \in {"next", "ended"}
  /\ stack # << >> => stack[1].node \in Selected \ todo
  /\ how # "provider" => Len(stack) <= 1
  /\ how = "provider" /\ stack # << >> /\ step # "children" => Top.left = {}
  /\ step = "enter" => how = "provider"
  /\ elevatable => how # "provider"
  /\ Way(stack)

LEMMA FrontOfCalls ==
  ASSUME NEW q \in Seq(Frames), q # << >>
  PROVE  /\ Len(q) \in Nat \ {0} /\ Front(q) \in Seq(Frames) /\ Len(Front(q)) = Len(q) - 1
         /\ \A i \in 1 .. (Len(q) - 1) : Front(q)[i] = q[i]
         /\ \A i \in 1 .. Len(q) : q[i] \in Frames /\ q[i].node \in Node /\ q[i].left \subseteq Node
         /\ Last(q) = q[Len(q)] /\ Last(q) \in Frames /\ Last(q).node \in Node /\ Last(q).left \subseteq Node
  <1>1. Len(q) \in Nat \ {0}
    BY EmptySeq
  <1>2. \A i \in 1 .. Len(q) : q[i] \in Frames /\ q[i].node \in Node /\ q[i].left \subseteq Node
    <2> TAKE i \in 1 .. Len(q)
    <2>1. q[i] \in Frames
      BY ElementOfSeq
    <2> QED  BY <2>1 DEF Frames
  <1>3. Last(q) = q[Len(q)] /\ Len(q) \in 1 .. Len(q)
    BY <1>1 DEF Last
  <1>4. PICK m : m = Len(q) - 1
    OBVIOUS
  <1>5. m \in Nat /\ \A i \in 1 .. m : i \in 1 .. Len(q)
    BY <1>1, <1>4
  <1>6. SubSeq(q, 1, m) \in Seq(Frames) /\ Len(SubSeq(q, 1, m)) = m /\ \A i \in 1 .. m : SubSeq(q, 1, m)[i] = q[i]
    <2>1. /\ SubSeq(q, 1, m) \in Seq(Frames)
          /\ Len(SubSeq(q, 1, m)) = IF 1 <= m THEN m - 1 + 1 ELSE 0
          /\ \A i \in 1 .. (m - 1 + 1) : SubSeq(q, 1, m)[i] = q[1 + i - 1]
      BY <1>2, <1>5, SubSeqProperties
    <2> QED  BY <1>5, <2>1
  <1> QED  BY <1>1, <1>2, <1>3, <1>4, <1>6 DEF Front

LEMMA Started ==
  ASSUME NEW n \in Selected, NEW x \in SUBSET Node, x \subseteq Duty(n), NEW r, r = <<Frame(n, x)>>
  PROVE  /\ r \in Seq(Frames) /\ r # << >> /\ Len(r) = 1 /\ r[1].node = n /\ Last(r).left = x /\ Way(r)
  <1>1. PICK f : f = Frame(n, x)
    OBVIOUS
  <1>2. f \in Frames /\ f.node = n /\ f.left = x /\ n \in Node /\ Parent[n] = Root
    BY <1>1 DEF Frame, Frames, Selected, Children
  <1>3. r = <<f>> /\ r \in Seq(Frames) /\ Len(r) = 1 /\ r[1] = f
    BY <1>1, <1>2
  <1>4. Path(n) = {n} /\ \A j \in 1 .. 1 : j = 1
    BY <1>2, Up
  <1>5. Way(r)
    BY <1>2, <1>3, <1>4 DEF Way
  <1> QED  BY <1>2, <1>3, <1>5 DEF Last

\* The calls with another list for the innermost one.
Listed(q, x) == Append(Front(q), Frame(Last(q).node, x))

\* The calls with one more, on a child of the innermost.
Deeper(q, c) == Append(Listed(q, Last(q).left \ {c}), Frame(c, {}))

LEMMA Entered ==
  ASSUME NEW q \in Seq(Frames), q # << >>, Way(q), NEW x \in SUBSET Node, x \subseteq Duty(Last(q).node),
         NEW r, r = Listed(q, x)
  PROVE  /\ r \in Seq(Frames) /\ r # << >> /\ Len(r) = Len(q) /\ Last(r).left = x /\ Last(r).node = Last(q).node
         /\ \A i \in 1 .. Len(q) : r[i].node = q[i].node
         /\ \A i \in 1 .. (Len(q) - 1) : r[i] = q[i]
         /\ Way(r)
  <1>1. PICK f, n : f = Frame(Last(q).node, x) /\ n = Len(q)
    OBVIOUS
  <1>2. f \in Frames /\ f.node = q[n].node /\ f.left = x /\ n \in Nat \ {0} /\ Last(q) = q[n]
    BY <1>1, FrontOfCalls DEF Frame, Frames
  <1>3. /\ Front(q) \in Seq(Frames) /\ Len(Front(q)) = n - 1 /\ \A i \in 1 .. (n - 1) : Front(q)[i] = q[i]
    BY <1>1, FrontOfCalls
  <1>4. /\ r \in Seq(Frames) /\ r # << >> /\ Len(r) = n /\ r[n] = f
        /\ \A i \in 1 .. (n - 1) : r[i] = q[i]
    BY <1>1, <1>2, <1>3, AppendProperties DEF Listed
  <1>5. \A i \in 1 .. n : r[i].node = q[i].node
    BY <1>2, <1>4
  <1>6. \A i \in 1 .. n : r[i].left \subseteq Duty(r[i].node)
    BY <1>1, <1>2, <1>4, <1>5 DEF Way
  <1>7. \A i \in 1 .. (n - 1) : IsDir(r[i].node) /\ Parent[r[i + 1].node] = r[i].node /\ r[i + 1].node \notin r[i].left
    <2> TAKE i \in 1 .. (n - 1)
    <2>1. i \in 1 .. n /\ i + 1 \in 1 .. n
      BY <1>2
    <2> QED  BY <1>1, <1>4, <1>5, <2>1 DEF Way
  <1>8. \A j \in 1 .. n : Path(r[j].node) = {r[i].node : i \in 1 .. j}
    <2> TAKE j \in 1 .. n
    <2>1. \A i \in 1 .. j : i \in 1 .. n
      BY <1>2
    <2>2. {r[i].node : i \in 1 .. j} = {q[i].node : i \in 1 .. j}
      BY <1>5, <2>1
    <2> QED  BY <1>1, <1>5, <2>2 DEF Way
  <1>9. Way(r)
    BY <1>4, <1>6, <1>7, <1>8 DEF Way
  <1> QED  BY <1>1, <1>2, <1>4, <1>5, <1>9 DEF Last

LEMMA Called ==
  ASSUME NEW q \in Seq(Frames), q # << >>, Way(q), IsDir(Last(q).node),
         NEW c \in Last(q).left, Parent[c] = Last(q).node, c \in Node,
         NEW r, r = Deeper(q, c)
  PROVE  /\ r \in Seq(Frames) /\ r # << >> /\ Len(r) = Len(q) + 1 /\ Last(r).left = {} /\ Last(r).node = c
         /\ \A i \in 1 .. Len(q) : r[i].node = q[i].node /\ r[i].left \subseteq q[i].left
         /\ Way(r)
  <1>1. PICK f, n, x : f = Frame(c, {}) /\ n = Len(q) /\ x = Last(q).left \ {c}
    OBVIOUS
  <1>2. PICK t : t = Listed(q, x)
    OBVIOUS
  <1>3. /\ n \in Nat \ {0} /\ Last(q) = q[n] /\ x \in SUBSET Node /\ q[n].node \in Node
        /\ f \in Frames /\ f.node = c /\ f.left = {}
    BY <1>1, FrontOfCalls DEF Frame, Frames
  <1>4. x \subseteq Duty(Last(q).node)
    BY <1>1, <1>3 DEF Way
  <1>5. /\ t \in Seq(Frames) /\ Len(t) = n /\ Last(t).left = x
        /\ \A i \in 1 .. n : t[i].node = q[i].node
        /\ \A i \in 1 .. (n - 1) : t[i] = q[i]
        /\ Way(t)
    <2>1. /\ t \in Seq(Frames) /\ Len(t) = Len(q) /\ Last(t).left = x
          /\ \A i \in 1 .. Len(q) : t[i].node = q[i].node
          /\ \A i \in 1 .. (Len(q) - 1) : t[i] = q[i]
          /\ Way(t)
      <3>1. t = Listed(q, x) /\ x \in SUBSET Node /\ x \subseteq Duty(Last(q).node)
        BY <1>2, <1>3, <1>4
      <3>2. /\ t \in Seq(Frames) /\ Len(t) = Len(q) /\ Last(t).left = x
            /\ \A i \in 1 .. Len(q) : t[i].node = q[i].node
            /\ \A i \in 1 .. (Len(q) - 1) : t[i] = q[i]
        BY <3>1, Entered
      <3>3. Way(t)
        BY <3>1, Entered
      <3> QED  BY <3>2, <3>3
    <2> QED  BY <1>1, <2>1
  <1>6. /\ r \in Seq(Frames) /\ r # << >> /\ Len(r) = n + 1 /\ r[n + 1] = f
        /\ \A i \in 1 .. n : r[i] = t[i]
    <2>1. r = Append(t, f)
      BY <1>1, <1>2 DEF Deeper
    <2>2. t \in Seq(Frames) /\ Len(t) = n /\ f \in Frames /\ n \in Nat
      BY <1>3, <1>5
    <2>3. r \in Seq(Frames) /\ Len(r) = n + 1 /\ r[n + 1] = f /\ \A i \in 1 .. n : r[i] = t[i]
      <3>1. /\ Append(t, f) \in Seq(Frames) /\ Len(Append(t, f)) = Len(t) + 1
            /\ Append(t, f)[Len(t) + 1] = f /\ \A i \in 1 .. Len(t) : Append(t, f)[i] = t[i]
        BY <2>2, AppendProperties
      <3> QED  BY <2>1, <2>2, <3>1
    <2>4. r # << >>
      BY <2>1, <2>2, AppendProperties
    <2> QED  BY <2>3, <2>4
  <1>7. t[n].left = x
    BY <1>5 DEF Last
  <1>8. \A i \in 1 .. (n + 1) : r[i].left \subseteq Duty(r[i].node)
    <2> TAKE i \in 1 .. (n + 1)
    <2>1. CASE i = n + 1
      BY <1>3, <1>6, <2>1
    <2>2. CASE i # n + 1
      <3>1. i \in 1 .. n
        BY <1>3, <2>2
      <3>2. t[i].left \subseteq Duty(t[i].node)
        BY <1>5, <3>1 DEF Way
      <3> QED  BY <1>6, <3>1, <3>2
    <2> QED  BY <2>1, <2>2
  <1>9. \A i \in 1 .. n : IsDir(r[i].node) /\ Parent[r[i + 1].node] = r[i].node /\ r[i + 1].node \notin r[i].left
    <2> TAKE i \in 1 .. n
    <2>1. CASE i = n
      BY <1>1, <1>3, <1>5, <1>6, <1>7, <2>1
    <2>2. CASE i # n
      <3>1. i \in 1 .. (n - 1) /\ i + 1 \in 1 .. n
        BY <1>3, <2>2
      <3> QED  BY <1>5, <1>6, <3>1 DEF Way
    <2> QED  BY <2>1, <2>2
  <1>10. \A j \in 1 .. (n + 1) : Path(r[j].node) = {r[i].node : i \in 1 .. j}
    <2> TAKE j \in 1 .. (n + 1)
    <2>1. CASE j # n + 1
      <3>1. j \in 1 .. n /\ \A i \in 1 .. j : i \in 1 .. n
        BY <1>3, <2>1
      <3>2. {r[i].node : i \in 1 .. j} = {t[i].node : i \in 1 .. j}
        BY <1>6, <3>1
      <3> QED  BY <1>5, <1>6, <3>1, <3>2 DEF Way
    <2>2. CASE j = n + 1
      <3>1. Path(q[n].node) = {t[i].node : i \in 1 .. n}
        <4>1. n \in 1 .. n
          BY <1>3
        <4>2. Path(t[n].node) = {t[i].node : i \in 1 .. n}
          BY <1>5, <4>1 DEF Way
        <4> QED  BY <1>5, <4>1, <4>2
      <3>2. {t[i].node : i \in 1 .. n} = {r[i].node : i \in 1 .. n}
        BY <1>6
      <3>3. Path(c) = {c} \cup Path(q[n].node)
        <4>1. Parent[c] # Root /\ Parent[c] = q[n].node
          BY <1>3 DEF TreeAssumption
        <4> QED  BY <4>1, Up
      <3>4. {r[i].node : i \in 1 .. (n + 1)} = {c} \cup {r[i].node : i \in 1 .. n}
        <4>1. \A i \in 1 .. (n + 1) : i = n + 1 \/ i \in 1 .. n
          BY <1>3
        <4>2. n + 1 \in 1 .. (n + 1) /\ \A i \in 1 .. n : i \in 1 .. (n + 1)
          BY <1>3
        <4>3. \A y : y \in {r[i].node : i \in 1 .. (n + 1)} <=> y \in {c} \cup {r[i].node : i \in 1 .. n}
          <5> TAKE y
          <5>1. y \in {r[i].node : i \in 1 .. (n + 1)} <=> \E i \in 1 .. (n + 1) : y = r[i].node
            OBVIOUS
          <5>2. y \in {r[i].node : i \in 1 .. n} <=> \E i \in 1 .. n : y = r[i].node
            OBVIOUS
          <5> QED  BY <1>3, <1>6, <4>1, <4>2, <5>1, <5>2
        <4> QED  BY <4>3
      <3> QED  BY <1>3, <1>6, <2>2, <3>1, <3>2, <3>3, <3>4
    <2> QED  BY <2>1, <2>2
  <1>11. Way(r)
    <2>1. Len(r) - 1 = n
      BY <1>3, <1>6
    <2> QED  BY <1>6, <1>8, <1>9, <1>10, <2>1 DEF Way
  <1>12. \A i \in 1 .. n : r[i].left \subseteq q[i].left
    <2> TAKE i \in 1 .. n
    <2>1. CASE i = n
      BY <1>1, <1>3, <1>6, <1>7, <2>1
    <2>2. CASE i # n
      <3>1. i \in 1 .. (n - 1)
        BY <1>3, <2>2
      <3> QED  BY <1>5, <1>6, <3>1
    <2> QED  BY <2>1, <2>2
  <1> QED  BY <1>1, <1>3, <1>5, <1>6, <1>11, <1>12 DEF Last

LEMMA Returned ==
  ASSUME NEW q \in Seq(Frames), Way(q), Len(q) > 1, NEW r, r = Front(q)
  PROVE  /\ r \in Seq(Frames) /\ r # << >> /\ Len(r) = Len(q) - 1
         /\ \A i \in 1 .. Len(r) : r[i] = q[i]
         /\ Way(r)
  <1>1. q # << >>
    OBVIOUS
  <1>2. PICK n : n = Len(q) - 1
    OBVIOUS
  <1>3. n \in Nat \ {0} /\ Len(q) = n + 1 /\ r \in Seq(Frames) /\ Len(r) = n /\ \A i \in 1 .. n : r[i] = q[i]
    <2>1. /\ Len(q) \in Nat \ {0} /\ r \in Seq(Frames) /\ Len(r) = Len(q) - 1
          /\ \A i \in 1 .. (Len(q) - 1) : r[i] = q[i]
      BY <1>1, FrontOfCalls
    <2>2. n \in Nat \ {0} /\ Len(q) = n + 1
      BY <1>2, <2>1
    <2> QED  BY <1>2, <2>1, <2>2
  <1>4. \A i \in 1 .. n : i \in 1 .. Len(q)
    BY <1>3
  <1>5. \A i \in 1 .. (n - 1) : i \in 1 .. n /\ i + 1 \in 1 .. n
    BY <1>3
  <1>6. \A j \in 1 .. n : Path(r[j].node) = {r[i].node : i \in 1 .. j}
    <2> TAKE j \in 1 .. n
    <2>1. \A i \in 1 .. j : i \in 1 .. n
      BY <1>3
    <2>2. {r[i].node : i \in 1 .. j} = {q[i].node : i \in 1 .. j}
      BY <1>3, <2>1
    <2> QED  BY <1>3, <1>4, <2>2 DEF Way
  <1>7. Way(r)
    BY <1>2, <1>3, <1>4, <1>5, <1>6 DEF Way
  <1> QED  BY <1>2, <1>3, <1>7

LEMMA WayKept == ASSUME UNCHANGED fixed PROVE \A q : Way(q) <=> Way(q)'
  BY DEF fixed, Way, Duty, IsDir

\* What PathEnds() and CallEnds() leave.
LEMMA PathEnded ==
  ASSUME NEW g \in BOOLEAN, PathEnds(g), RemovalTypeOK
  PROVE  /\ stack' = << >> /\ step' \in {"next", "ended"} /\ allOk' \in BOOLEAN
         /\ step' = "ended" => ~allOk'
         /\ allOk' => allOk /\ g
  BY DEF PathEnds, RemovalTypeOK

LEMMA CallEnded ==
  ASSUME CallEnds, RemovalTypeOK, stack # << >>
  PROVE  /\ \/ Len(stack) = 1 /\ stack' = << >> /\ step' \in {"next", "ended"}
            \/ Len(stack) > 1 /\ stack' = Front(stack) /\ step' = "children"
         /\ step' = "ended" => ~allOk'
         /\ allOk' \in BOOLEAN /\ (allOk' => allOk)
  <1>1. CASE Len(stack) > 1
    <2>1. stack' = Front(stack) /\ step' = "children" /\ allOk' = allOk
      BY <1>1 DEF CallEnds
    <2> QED  BY <1>1, <2>1 DEF RemovalTypeOK
  <1>2. CASE ~(Len(stack) > 1)
    <2>1. PathEnds(TRUE)
      BY <1>2 DEF CallEnds
    <2>2. Len(stack) = 1
      <3>1. stack \in Seq(Frames)
        BY DEF RemovalTypeOK, Frames
      <3>2. Len(stack) \in Nat \ {0}
        BY <3>1, FrontOfCalls
      <3>3. PICK n : n = Len(stack)
        OBVIOUS
      <3> QED  BY <1>2, <3>2, <3>3
    <2> QED  BY <2>1, <2>2, PathEnded
  <1> QED  BY <1>1, <1>2

\* What a step does to the calls.
Stacked ==
  \/ stack' = << >>
  \/ stack # << >> /\ UNCHANGED stack
  \/ \E n \in Selected, x \in SUBSET Node : x \subseteq Duty(n) /\ stack' = <<Frame(n, x)>>
  \/ stack # << >> /\ \E x \in SUBSET Node : x \subseteq Duty(Top.node) /\ stack' = Enter(Top.node, x)
  \/ stack # << >> /\ \E c \in Top.left : how = "provider" /\ stack' = Append(Enter(Top.node, Top.left \ {c}), Frame(c, {}))
  \/ Len(stack) > 1 /\ stack' = Front(stack)

LEMMA StackKept ==
  ASSUME RemovalTypeOK, Calls, Stacked, UNCHANGED fixed
  PROVE  stack' \in Seq(Frames) /\ Way(stack)'
  <1>1. stack \in Seq(Frames) /\ Way(stack)
    BY DEF RemovalTypeOK, Calls, Frames
  <1>2. CASE stack' = << >>
    <2>1. Way(<< >>)
      <3>1. Len(<< >>) = 0
        OBVIOUS
      <3> QED  BY <3>1 DEF Way
    <2> QED  BY <1>2, <2>1, WayKept
  <1>3. CASE UNCHANGED stack
    BY <1>1, <1>3, WayKept
  <1>4. ASSUME NEW n \in Selected, NEW x \in SUBSET Node, x \subseteq Duty(n), stack' = <<Frame(n, x)>>
        PROVE  stack' \in Seq(Frames) /\ Way(stack)'
    <2>1. stack' \in Seq(Frames) /\ Way(stack')
      BY <1>4, Started
    <2> QED  BY <2>1, WayKept
  <1>5. ASSUME stack # << >>, NEW x \in SUBSET Node, x \subseteq Duty(Top.node), stack' = Enter(Top.node, x)
        PROVE  stack' \in Seq(Frames) /\ Way(stack)'
    <2>1. stack' \in Seq(Frames) /\ Way(stack')
      BY <1>1, <1>5, Entered DEF Top, Enter, Listed
    <2> QED  BY <2>1, WayKept
  <1>6. ASSUME stack # << >>, NEW c \in Top.left, how = "provider",
               stack' = Append(Enter(Top.node, Top.left \ {c}), Frame(c, {}))
        PROVE  stack' \in Seq(Frames) /\ Way(stack)'
    <2>1. Len(stack) \in 1 .. Len(stack) /\ Last(stack) = stack[Len(stack)]
      BY <1>1, <1>6, FrontOfCalls
    <2>2. c \in Node /\ Parent[c] = Last(stack).node /\ IsDir(Last(stack).node)
      BY <1>1, <1>6, <2>1 DEF Way, Duty, Children, Top
    <2>3. stack' \in Seq(Frames) /\ Way(stack')
      BY <1>1, <1>6, <2>2, Called DEF Top, Enter, Listed, Deeper
    <2> QED  BY <2>3, WayKept
  <1>7. ASSUME Len(stack) > 1, stack' = Front(stack) PROVE stack' \in Seq(Frames) /\ Way(stack)'
    <2>1. stack' \in Seq(Frames) /\ Way(stack')
      BY <1>1, <1>7, Returned
    <2> QED  BY <2>1, WayKept
  <1> QED  BY <1>2, <1>3, <1>4, <1>5, <1>6, <1>7 DEF Stacked
-----------------------------------------------------------------------------
(* Types and calls, step by step                                           *)

\* RemovalTypeOK but for the calls.
Plain ==
  /\ how \in Hows /\ follows \in Follows /\ recursive \in Recursive
  /\ disk \subseteq Node /\ todo \subseteq Selected
  /\ step \in {"next", "enter", "children", "remove", "asking", "ended"}
  /\ clean \in BOOLEAN /\ elevatable \in BOOLEAN /\ skipAll \in BOOLEAN
  /\ cancelled \in BOOLEAN /\ allOk \in BOOLEAN
  /\ passed \subseteq Node /\ unheard \subseteq Node /\ inHand \subseteq Node /\ late \subseteq Node
  /\ failures \in 0..MaxFailures

\* Calls but for the way down.
Shape ==
  /\ stack = << >> <=> step \in {"next", "ended"}
  /\ stack # << >> => stack[1].node \in Selected \ todo
  /\ how # "provider" => Len(stack) <= 1
  /\ how = "provider" /\ stack # << >> /\ step # "children" => Top.left = {}
  /\ step = "enter" => how = "provider"
  /\ elevatable => how # "provider"

RemovalInv == RemovalTypeOK /\ Calls

LEMMA Split == RemovalInv <=> Plain /\ Shape /\ stack \in Seq(Frames) /\ Way(stack)
  BY DEF RemovalInv, RemovalTypeOK, Calls, Plain, Shape, Frames

LEMMA Kept ==
  ASSUME RemovalInv, Stacked, UNCHANGED fixed, Plain', Shape'
  PROVE  RemovalInv'
  <1>1. stack' \in Seq(Frames) /\ Way(stack)'
    BY StackKept DEF RemovalInv
  <1> QED  BY <1>1, Split DEF RemovalInv, RemovalTypeOK, Calls, Plain, Shape, Frames

\* The innermost call.
LEMMA Innermost ==
  ASSUME RemovalInv, stack # << >>
  PROVE  /\ Top.node \in Node /\ Top.left \subseteq Node /\ Top.left \subseteq Duty(Top.node)
         /\ Top = stack[Len(stack)] /\ Len(stack) \in Nat \ {0} /\ Len(stack) \in 1 .. Len(stack)
         /\ \A i \in 1 .. Len(stack) : stack[i].node \in Node /\ stack[i].left \subseteq Node
         /\ how # "provider" => Len(stack) = 1 /\ Top = stack[1] /\ Top.node \in Selected
  <1>1. stack \in Seq(Frames) /\ Way(stack) /\ Shape
    BY Split
  <1>2. /\ Len(stack) \in Nat \ {0} /\ \A i \in 1 .. Len(stack) : stack[i].node \in Node /\ stack[i].left \subseteq Node
        /\ Top = stack[Len(stack)] /\ Top.node \in Node /\ Top.left \subseteq Node
    BY <1>1, FrontOfCalls DEF Top
  <1>3. Len(stack) \in 1 .. Len(stack)
    BY <1>2
  <1>4. Top.left \subseteq Duty(Top.node)
    BY <1>1, <1>2, <1>3 DEF Way
  <1>5. how # "provider" => Len(stack) = 1 /\ Top = stack[1] /\ Top.node \in Selected
    <2> SUFFICES ASSUME how # "provider" PROVE Len(stack) = 1 /\ stack[1].node \in Selected
      BY <1>2
    <2>1. Len(stack) <= 1 /\ stack[1].node \in Selected
      BY <1>1 DEF Shape
    <2>2. PICK n : n = Len(stack)
      OBVIOUS
    <2> QED  BY <1>2, <2>1, <2>2
  <1> QED  BY <1>2, <1>3, <1>4, <1>5

LEMMA StartsTheCall ==
  ASSUME NEW n \in Selected, RemovalInv, Start(n), UNCHANGED fixed, n \notin todo', elevatable' => how # "provider"
  PROVE  /\ Stacked /\ Shape' /\ step' \in {"enter", "children", "remove"}
         /\ stack' # << >> /\ Len(stack') = 1 /\ stack'[1].node = n /\ Last(stack').node = n
         /\ how = "provider" => Last(stack').left = {}
  <1>1. n \in Node /\ Swept(n) \subseteq Node
    BY DEF Selected, Children, Swept, Below
  <1>2. PICK x \in SUBSET Node :
           /\ x \subseteq Duty(n) /\ stack' = <<Frame(n, x)>> /\ (how = "provider" => x = {})
           /\ step' \in {"enter", "children", "remove"} /\ (step' = "enter" => how = "provider")
    <2>1. CASE how = "provider"
      BY <2>1 DEF Start
    <2>2. CASE how = "local" /\ IsDir(n)
      BY <1>1, <2>2 DEF Start, Duty
    <2>3. CASE how # "provider" /\ ~(how = "local" /\ IsDir(n))
      BY <2>3 DEF Start
    <2> QED  BY <2>1, <2>2, <2>3
  <1>3. /\ stack' # << >> /\ Len(stack') = 1 /\ stack'[1].node = n
        /\ Last(stack').left = x /\ Last(stack') = stack'[1]
    BY <1>2, Started DEF Last
  <1>4. Stacked
    BY <1>2 DEF Stacked
  <1>5. how' = how
    BY DEF fixed
  <1>6. Shape'
    BY <1>2, <1>3, <1>5 DEF Shape, Top
  <1> QED  BY <1>2, <1>3, <1>4, <1>6

LEMMA EndsTheCall ==
  ASSUME RemovalInv, CallEnds \/ (\E g \in BOOLEAN : PathEnds(g)), stack # << >>, UNCHANGED <<fixed, todo>>, elevatable' => elevatable
  PROVE  /\ Stacked /\ Shape' /\ step' \in {"next", "children", "ended"} /\ allOk' \in BOOLEAN
  <1>1. stack \in Seq(Frames) /\ RemovalTypeOK /\ Shape /\ Way(stack)
    BY Split DEF RemovalInv
  <1>2. how' = how /\ todo' = todo
    BY DEF fixed
  <1>3. CASE stack' = << >> /\ step' \in {"next", "ended"} /\ allOk' \in BOOLEAN
    <2>1. Len(stack') = 0
      BY <1>3
    <2>2. Shape'
      BY <1>1, <1>2, <1>3, <2>1 DEF Shape
    <2> QED  BY <1>3, <2>2 DEF Stacked
  <1>4. CASE Len(stack) > 1 /\ stack' = Front(stack) /\ step' = "children" /\ allOk' \in BOOLEAN
    <2>1. stack' # << >> /\ Len(stack') = Len(stack) - 1 /\ \A i \in 1 .. Len(stack') : stack'[i] = stack[i]
      BY <1>1, <1>4, Returned
    <2>2. Len(stack) \in Nat /\ 1 \in 1 .. Len(stack')
      BY <1>1, <1>4, <2>1
    <2>3. stack'[1].node \in Selected \ todo /\ how = "provider"
      <3>1. stack'[1] = stack[1] /\ stack # << >>
        BY <2>1, <2>2
      <3>2. ~(Len(stack) <= 1)
        BY <1>4, <2>2
      <3> QED  BY <1>1, <3>1, <3>2 DEF Shape
    <2>4. Shape'
      BY <1>1, <1>2, <1>4, <2>1, <2>3 DEF Shape
    <2> QED  BY <1>4, <2>4 DEF Stacked
  <1>5. CASE CallEnds
    BY <1>1, <1>3, <1>4, <1>5, CallEnded
  <1>6. ASSUME NEW g \in BOOLEAN, PathEnds(g) PROVE stack' = << >> /\ step' \in {"next", "ended"} /\ allOk' \in BOOLEAN
    BY <1>1, <1>6, PathEnded
  <1> QED  BY <1>3, <1>5, <1>6

LEMMA StepsKeep1 ==
  ASSUME RemovalInv, Batch \/ Cancel PROVE RemovalInv'
  <1>1. Plain /\ Shape /\ stack \in Seq(Frames) /\ Way(stack)
    BY Split
  <1>2. ASSUME NEW n \in Selected, Begin(n) PROVE RemovalInv'
    <2>1. Stacked /\ Shape' /\ step' \in {"enter", "children", "remove"} /\ UNCHANGED fixed
      <3>1. UNCHANGED fixed /\ n \notin todo' /\ Start(n) /\ elevatable' = elevatable
        BY <1>2 DEF Begin, fixed, answer
      <3> QED  BY <1>1, <3>1, StartsTheCall DEF Shape
    <2>2. Plain'
      BY <1>1, <1>2, <2>1 DEF Begin, Plain, fixed, answer, traces
    <2> QED  BY <2>1, <2>2, Kept
  <1>3. CASE Finish
    <2>1. Plain' /\ Shape' /\ UNCHANGED fixed /\ stack' = << >>
      BY <1>1, <1>3 DEF Finish, Plain, Shape, fixed, answer, traces
    <2> QED  BY <2>1, Kept DEF Stacked
  <1>4. CASE Cancel
    <2>1. inHand' \subseteq Node
      <3>1. \A i \in 1 .. Len(stack) : stack[i].node \in Node
        <4>1. CASE stack = << >>
          <5>1. Len(stack) = 0
            BY <4>1
          <5> QED  BY <5>1
        <4>2. CASE stack # << >>
          BY <4>2, Innermost
        <4> QED  BY <4>1, <4>2
      <3>2. \A n \in Node : Swept(n) \subseteq Node
        BY DEF Swept, Below
      <3>3. \A m \in inHand' : \E i \in 1 .. Len(stack) : m = stack[i].node \/ m \in Swept(stack[i].node)
        BY <1>4 DEF Cancel
      <3> QED  BY <3>1, <3>2, <3>3
    <2>2. Plain' /\ Shape' /\ UNCHANGED fixed /\ UNCHANGED stack
      BY <1>1, <1>4, <2>1 DEF Cancel, Plain, Shape, Top, fixed, answer
    <2>3. stack = << >> \/ stack # << >>
      OBVIOUS
    <2> QED  BY <2>2, <2>3, Kept DEF Stacked
  <1> QED  BY <1>2, <1>3, <1>4 DEF Batch

LEMMA SweepKeeps ==
  ASSUME RemovalInv, NEW m \in Node, SweepOne(m) \/ SweepFails(m) PROVE RemovalInv'
  <1>1. Plain /\ Shape /\ stack \in Seq(Frames) /\ Way(stack) /\ stack # << >>
    BY Split DEF SweepOne, SweepFails, Sweeping, Shape
  <1>2. PICK x \in SUBSET Node : x = Top.left \ {m} /\ x \subseteq Duty(Top.node) /\ stack' = Enter(Top.node, x)
    BY <1>1, Innermost DEF SweepOne, SweepFails, Sweeping
  <1>3. Stacked
    BY <1>1, <1>2 DEF Stacked
  <1>4. stack' # << >> /\ Len(stack') = Len(stack) /\ stack'[1].node = stack[1].node
    <2>1. stack' = Listed(stack, x) /\ x \subseteq Duty(Last(stack).node)
      BY <1>2 DEF Enter, Listed, Top
    <2>2. 1 \in 1 .. Len(stack)
      BY <1>1, Innermost
    <2> QED  BY <1>1, <2>1, <2>2, Entered
  <1>5. UNCHANGED <<fixed, todo, step, answer, cancelled, allOk, traces>> /\ how = "local"
    BY DEF SweepOne, SweepFails, Sweeping
  <1>6. Shape'
    BY <1>1, <1>4, <1>5 DEF Shape, fixed, answer
  <1>7. disk' \subseteq Node /\ late' \subseteq Node /\ clean' \in BOOLEAN /\ failures' \in 0 .. MaxFailures
    <2>1. disk' \subseteq Node /\ late' \subseteq Node
      BY <1>1 DEF SweepOne, SweepFails, Plain
    <2>2. clean' \in BOOLEAN
      BY <1>1 DEF SweepOne, SweepFails, Plain
    <2>3. failures' \in 0 .. MaxFailures
      BY <1>1 DEF SweepOne, SweepFails, Plain, Fault
    <2> QED  BY <2>1, <2>2, <2>3
  <1>8. Plain'
    BY <1>1, <1>5, <1>7 DEF Plain, fixed, answer, traces
  <1> QED  BY <1>3, <1>5, <1>6, <1>8, Kept

LEMMA SweepDoneKeeps ==
  ASSUME RemovalInv, SweepDone PROVE RemovalInv'
  <1>1. Plain /\ Shape /\ stack # << >>
    BY Split DEF SweepDone, Shape
  <1>2. UNCHANGED stack /\ UNCHANGED fixed /\ how = "local" /\ UNCHANGED allOk /\ UNCHANGED todo
        /\ step' \in {"remove", "asking"} /\ elevatable' \in BOOLEAN
    BY <1>1 DEF SweepDone, CallFails, fixed, Plain
  <1>3. Shape'
    BY <1>1, <1>2 DEF Shape, fixed
  <1>4. Plain'
    BY <1>1, <1>2 DEF SweepDone, Plain, fixed, traces
  <1> QED  BY <1>1, <1>2, <1>3, <1>4, Kept DEF Stacked

LEMMA StoppedKeeps ==
  ASSUME RemovalInv, Stopped PROVE RemovalInv'
  <1>1. Plain /\ Shape /\ stack # << >>
    BY Split DEF Stopped, Shape
  <1>2. UNCHANGED <<fixed, disk, todo, clean, answer, traces, late, failures, cancelled>> /\ PathEnds(FALSE)
    BY DEF Stopped
  <1>3. Stacked /\ Shape' /\ step' \in {"next", "children", "ended"} /\ allOk' \in BOOLEAN
    BY <1>1, <1>2, EndsTheCall DEF answer
  <1>4. Plain'
    BY <1>1, <1>2, <1>3 DEF Plain, fixed, traces, answer
  <1> QED  BY <1>2, <1>3, <1>4, Kept

LEMMA ReadKeeps ==
  ASSUME RemovalInv, Read \/ ReadFails PROVE RemovalInv'
  <1>1. Plain /\ Shape /\ stack \in Seq(Frames) /\ Way(stack) /\ stack # << >> /\ how = "provider" /\ step = "enter"
    BY Split DEF Read, ReadFails, Shape
  <1>2. UNCHANGED <<fixed, disk, todo, clean, answer, cancelled, allOk, traces, late>>
        /\ step' = "children" /\ failures' \in 0 .. MaxFailures
    BY <1>1 DEF Read, ReadFails, Fault, Plain
  <1>3. Plain'
    BY <1>1, <1>2 DEF Plain, fixed, answer, traces
  <1>4. CASE ReadFails
    <2>1. UNCHANGED stack
      BY <1>4 DEF ReadFails
    <2>2. Shape'
      BY <1>1, <1>2, <2>1 DEF Shape, fixed, answer
    <2> QED  BY <1>1, <1>2, <1>3, <2>1, <2>2, Kept DEF Stacked
  <1>5. CASE Read
    <2>1. PICK x \in SUBSET Node : /\ x = IF IsDir(Top.node) THEN Children(Top.node) \cap disk ELSE {}
                                   /\ x \subseteq Duty(Top.node) /\ stack' = Enter(Top.node, x)
      BY <1>1, <1>5 DEF Read, Duty, Children
    <2>2. stack' # << >> /\ Len(stack') = Len(stack) /\ stack'[1].node = stack[1].node
      <3>1. stack' = Listed(stack, x) /\ x \subseteq Duty(Last(stack).node)
        BY <2>1 DEF Enter, Listed, Top
      <3>2. 1 \in 1 .. Len(stack)
        BY <1>1, Innermost
      <3> QED  BY <1>1, <3>1, <3>2, Entered
    <2>3. Stacked
      BY <1>1, <2>1 DEF Stacked
    <2>4. Shape'
      BY <1>1, <1>2, <2>2 DEF Shape, fixed, answer
    <2> QED  BY <1>2, <1>3, <2>3, <2>4, Kept
  <1> QED  BY <1>4, <1>5

LEMMA NextChildKeeps ==
  ASSUME RemovalInv, NEW c \in Node, NextChild(c) PROVE RemovalInv'
  <1>1. Plain /\ Shape /\ stack \in Seq(Frames) /\ Way(stack) /\ stack # << >> /\ how = "provider" /\ c \in Top.left
    BY Split DEF NextChild, Shape
  <1>2. UNCHANGED <<fixed, disk, todo, clean, answer, cancelled, allOk, traces, late, failures>>
        /\ step' = "enter" /\ stack' = Append(Enter(Top.node, Top.left \ {c}), Frame(c, {}))
    BY DEF NextChild
  <1>3. stack' # << >> /\ Last(stack').left = {} /\ stack'[1].node = stack[1].node
    <2>1. stack' = Deeper(stack, c) /\ c \in Last(stack).left
      BY <1>1, <1>2 DEF Enter, Listed, Deeper, Top
    <2>2. Parent[c] = Last(stack).node /\ IsDir(Last(stack).node) /\ 1 \in 1 .. Len(stack)
      BY <1>1, Innermost DEF Duty, Children, Top
    <2>3. PICK r : r = stack'
      OBVIOUS
    <2>4. r # << >> /\ Last(r).left = {} /\ \A i \in 1 .. Len(stack) : r[i].node = stack[i].node
      <3>1. /\ stack \in Seq(Frames) /\ stack # << >> /\ Way(stack) /\ c \in Last(stack).left /\ c \in Node
            /\ Parent[c] = Last(stack).node /\ IsDir(Last(stack).node) /\ r = Deeper(stack, c)
        BY <1>1, <2>1, <2>2, <2>3
      <3> QED  BY ONLY <3>1, Called
    <2> QED  BY <2>2, <2>3, <2>4
  <1>4. Stacked
    BY <1>1, <1>2 DEF Stacked
  <1>5. Shape'
    BY <1>1, <1>2, <1>3 DEF Shape, fixed, answer, Top
  <1>6. Plain'
    BY <1>1, <1>2 DEF Plain, fixed, answer, traces
  <1> QED  BY <1>2, <1>4, <1>5, <1>6, Kept

LEMMA ChildrenDoneKeeps ==
  ASSUME RemovalInv, ChildrenDone PROVE RemovalInv'
  <1>1. Plain /\ Shape /\ stack # << >>
    BY Split DEF ChildrenDone, Shape
  <1>2. UNCHANGED <<fixed, disk, todo, stack, clean, answer, cancelled, allOk, traces, late, failures>>
        /\ step' = "remove" /\ Top.left = {}
    BY DEF ChildrenDone
  <1>3. Plain' /\ Shape'
    BY <1>1, <1>2 DEF Plain, Shape, fixed, answer, traces, Top
  <1> QED  BY <1>1, <1>2, <1>3, Kept DEF Stacked

LEMMA RemovingKeeps ==
  ASSUME RemovalInv, Removing PROVE RemovalInv'
  <1>1. Plain /\ Shape /\ stack # << >>
    BY Split DEF Removing, RemoveNode, RemoveFails, RemoveUnheard, Shape
  <1>2. Top.node \in Node
    BY <1>1, Innermost
  <1>3. CASE RemoveNode
    <2>1. UNCHANGED <<fixed, todo, clean, answer, traces, failures, cancelled>> /\ CallEnds /\ Removed(Top.node)
      BY <1>3 DEF RemoveNode
    <2>2. Stacked /\ Shape' /\ step' \in {"next", "children", "ended"} /\ allOk' \in BOOLEAN
      BY <1>1, <2>1, EndsTheCall DEF answer
    <2>3. disk' \subseteq Node /\ late' \subseteq Node
      BY <1>1, <1>2, <2>1 DEF Plain, Removed
    <2>4. Plain'
      BY <1>1, <2>1, <2>2, <2>3 DEF Plain, fixed, traces, answer
    <2> QED  BY <2>1, <2>2, <2>4, Kept
  <1>4. CASE RemoveFails
    <2>1. /\ UNCHANGED <<fixed, disk, todo, clean, skipAll, cancelled, traces, late, stack, allOk>>
          /\ step' = "asking" /\ elevatable' = (how # "provider") /\ failures' \in 0 .. MaxFailures
      <3>1. failures' \in 0 .. MaxFailures
        BY <1>1, <1>4 DEF RemoveFails, Fault, Plain
      <3> QED  BY <1>4, <3>1 DEF RemoveFails, CallFails
    <2>2. Shape'
      BY <1>1, <1>4, <2>1 DEF RemoveFails, Shape, fixed, Top
    <2>3. Plain'
      BY <1>1, <2>1 DEF Plain, fixed, traces
    <2> QED  BY <1>1, <2>1, <2>2, <2>3, Kept DEF Stacked
  <1>5. CASE RemoveUnheard
    <2>1. /\ UNCHANGED <<fixed, todo, clean, skipAll, cancelled, passed, inHand, stack, allOk>>
          /\ step' = "asking" /\ elevatable' = (how # "provider") /\ failures' \in 0 .. MaxFailures
          /\ Removed(Top.node) /\ unheard' = unheard \cup {Top.node}
      <3>1. failures' \in 0 .. MaxFailures
        BY <1>1, <1>5 DEF RemoveUnheard, Fault, Plain
      <3> QED  BY <1>5, <3>1 DEF RemoveUnheard, CallFails
    <2>2. Shape'
      BY <1>1, <1>5, <2>1 DEF RemoveUnheard, Shape, fixed, Top
    <2>3. disk' \subseteq Node /\ late' \subseteq Node /\ unheard' \subseteq Node
      BY <1>1, <1>2, <2>1 DEF Plain, Removed
    <2>4. Plain'
      BY <1>1, <2>1, <2>3 DEF Plain, fixed
    <2> QED  BY <1>1, <2>1, <2>2, <2>4, Kept DEF Stacked
  <1> QED  BY <1>3, <1>4, <1>5 DEF Removing

LEMMA AnsweringKeeps ==
  ASSUME RemovalInv, Answering PROVE RemovalInv'
  <1>1. Plain /\ Shape /\ stack # << >> /\ step = "asking"
    BY Split DEF Answering, Asked, Retry, Skip, Abort, Elevate, ElevateFails, Shape
  <1>2. Top.node \in Node
    BY <1>1, Innermost
  <1>3. CASE Retry
    <2>1. UNCHANGED <<fixed, disk, todo, answer, cancelled, allOk, traces, late, failures>> /\ clean' = TRUE
      BY <1>3 DEF Retry
    <2>2. CASE how = "provider"
      <3>1. UNCHANGED stack /\ step' = "remove"
        BY <1>3, <2>2 DEF Retry
      <3>2. Shape' /\ Plain'
        BY <1>1, <2>1, <2>2, <3>1 DEF Shape, Plain, Top, fixed, answer, traces
      <3> QED  BY <1>1, <2>1, <3>1, <3>2, Kept DEF Stacked
    <2>3. CASE how # "provider"
      <3>1. PICK n \in Selected : n = Top.node /\ n \notin todo
        BY <1>1, <2>3, Innermost DEF Shape
      <3>2. Start(n) /\ n \notin todo' /\ UNCHANGED fixed
        BY <1>3, <2>1, <2>3, <3>1 DEF Retry
      <3>3. Stacked /\ Shape' /\ step' \in {"enter", "children", "remove"}
        BY <2>3, <3>2, StartsTheCall
      <3>4. Plain'
        BY <1>1, <2>1, <3>3 DEF Plain, fixed, answer, traces
      <3> QED  BY <2>1, <3>3, <3>4, Kept
    <2> QED  BY <2>2, <2>3
  <1>4. CASE Skip \/ Abort
    <2>1. /\ UNCHANGED <<fixed, disk, todo, clean, elevatable, unheard, inHand, late, failures>> /\ PathEnds(FALSE)
          /\ skipAll' \in BOOLEAN /\ passed' \subseteq Node /\ cancelled' \in BOOLEAN
      <3>1. CASE Skip
        <4>1. skipAll' \in BOOLEAN
          BY <1>1, <3>1 DEF Skip, Plain
        <4> QED  BY <1>1, <1>2, <3>1, <4>1 DEF Skip, Plain
      <3>2. CASE Abort
        BY <1>1, <3>2 DEF Abort, Plain, answer, traces
      <3> QED  BY <1>4, <3>1, <3>2
    <2>2. Stacked /\ Shape' /\ step' \in {"next", "children", "ended"} /\ allOk' \in BOOLEAN
      BY <1>1, <2>1, EndsTheCall
    <2>3. Plain'
      BY <1>1, <2>1, <2>2 DEF Plain, fixed
    <2> QED  BY <2>1, <2>2, <2>3, Kept
  <1>5. CASE Elevate
    <2>1. UNCHANGED <<fixed, todo, clean, answer, traces, late, failures, cancelled>> /\ CallEnds /\ disk' \subseteq disk
      BY <1>5 DEF Elevate
    <2>2. Stacked /\ Shape' /\ step' \in {"next", "children", "ended"} /\ allOk' \in BOOLEAN
      BY <1>1, <2>1, EndsTheCall DEF answer
    <2>3. Plain'
      BY <1>1, <2>1, <2>2 DEF Plain, fixed, answer, traces
    <2> QED  BY <2>1, <2>2, <2>3, Kept
  <1>6. CASE ElevateFails
    <2>1. UNCHANGED <<fixed, todo, stack, step, clean, skipAll, cancelled, allOk, traces, late, failures>>
          /\ elevatable' = FALSE /\ disk' \subseteq disk
      BY <1>6 DEF ElevateFails
    <2>2. Shape'
      BY <1>1, <2>1 DEF Shape, fixed, Top
    <2>3. Plain'
      BY <1>1, <2>1 DEF Plain, fixed, traces
    <2> QED  BY <1>1, <2>1, <2>2, <2>3, Kept DEF Stacked
  <1> QED  BY <1>3, <1>4, <1>5, <1>6 DEF Answering

\* The types, and the calls from a selected path down to the node in hand
\* (deletePaths(), removeProviderTree()), whatever fails and whatever is answered.
THEOREM RemovalInvInductive == RemovalSpec => []RemovalInv
  <1>1. RemovalInit => RemovalInv
    <2> SUFFICES ASSUME RemovalInit PROVE RemovalInv
      OBVIOUS
    <2>1. stack = << >> /\ Len(stack) = 0
      BY DEF RemovalInit
    <2>2. Plain /\ Shape
      <3>1. Selected \subseteq Node /\ failures \in 0 .. MaxFailures
        BY DEF Selected, Children, RemovalInit, BoundAssumption
      <3>2. Plain
        BY <3>1 DEF RemovalInit, Plain
      <3>3. Shape
        BY <2>1 DEF RemovalInit, Shape
      <3> QED  BY <3>2, <3>3
    <2>3. stack \in Seq(Frames) /\ Way(stack)
      BY <2>1 DEF Way
    <2> QED  BY <2>2, <2>3, Split
  <1>2. RemovalInv /\ [RemovalNext]_removalVars => RemovalInv'
    <2> SUFFICES ASSUME RemovalInv, [RemovalNext]_removalVars PROVE RemovalInv'
      OBVIOUS
    <2>1. CASE UNCHANGED removalVars
      <3>1. Plain' /\ Shape'
        BY <2>1, Split DEF removalVars, Plain, Shape, Top
      <3>2. UNCHANGED <<fixed, stack>> /\ (stack = << >> \/ stack # << >>)
        BY <2>1 DEF removalVars, fixed
      <3> QED  BY <3>1, <3>2, Kept DEF Stacked
    <2>2. CASE Local
      BY <2>2, SweepDoneKeeps, SweepKeeps DEF Local
    <2>3. CASE Provider
      BY <2>3, StoppedKeeps, ReadKeeps, NextChildKeeps, ChildrenDoneKeeps DEF Provider
    <2> QED  BY <2>1, <2>2, <2>3, StepsKeep1, RemovingKeeps, AnsweringKeeps DEF RemovalNext
  <1> QED  BY <1>1, <1>2, PTL DEF RemovalSpec

\* Every variable has its type (locals of deletePaths() and removeProviderTree()).
THEOREM RemovalTypeCorrect == RemovalSpec => []RemovalTypeOK
  <1>1. RemovalInv => RemovalTypeOK
    BY DEF RemovalInv
  <1> QED  BY <1>1, RemovalInvInductive, PTL
-----------------------------------------------------------------------------
(* What a step takes away                                                  *)

\* One entry of a local directory that has been emptied as far as it will be.
Swept1 ==
  \E m \in Top.left :
    /\ how = "local" /\ stack # << >> /\ disk' = disk \ {m} /\ (m \in Folder => Children(m) \cap disk = {})

\* What the call on n takes, or part of it.
TakenIn(n) ==
  \/ disk' = disk \ Taken(n)
  \/ how # "provider" /\ disk' = disk \ Tree(n)
  \/ how # "provider" /\ \E gone \in SUBSET Tree(n) : disk' = disk \ gone /\ \A m \in gone : Below(m) \cap Own \subseteq gone

Diminished == UNCHANGED disk \/ Swept1 \/ (stack # << >> /\ TakenIn(Top.node))

LEMMA StepTakes ==
  ASSUME RemovalInv, [RemovalNext]_removalVars
  PROVE  Diminished /\ UNCHANGED fixed
  <1>1. CASE UNCHANGED removalVars
    BY <1>1 DEF removalVars, fixed, Diminished
  <1>2. CASE Batch \/ Cancel
    BY <1>2 DEF Batch, Begin, Finish, Cancel, Diminished, fixed
  <1>3. ASSUME NEW m \in Node, SweepOne(m) PROVE Diminished /\ UNCHANGED fixed
    <2>1. stack # << >>
      BY <1>3, Split DEF SweepOne, Sweeping, Shape
    <2> QED  BY <1>3, <2>1 DEF SweepOne, Sweeping, Swept1, Diminished
  <1>4. ASSUME NEW m \in Node, SweepFails(m) PROVE Diminished /\ UNCHANGED fixed
    BY <1>4 DEF SweepFails, Sweeping, Diminished
  <1>5. CASE SweepDone
    BY <1>5 DEF SweepDone, Diminished
  <1>6. CASE Provider
    BY <1>6 DEF Provider, Stopped, Read, ReadFails, ChildrenDone, NextChild, Diminished
  <1>7. CASE Removing
    <2>1. stack # << >>
      BY <1>7, Split DEF Removing, RemoveNode, RemoveFails, RemoveUnheard, Shape
    <2> QED  BY <1>7, <2>1 DEF Removing, RemoveNode, RemoveFails, RemoveUnheard, Removed, TakenIn, Diminished
  <1>8. CASE Answering
    <2>1. stack # << >> /\ (elevatable => how # "provider")
      BY <1>8, Split DEF Answering, Asked, Retry, Skip, Abort, Elevate, ElevateFails, Shape
    <2>2. CASE Retry \/ Skip \/ Abort
      BY <2>2 DEF Retry, Skip, Abort, Diminished, fixed
    <2>3. CASE Elevate
      BY <2>1, <2>3 DEF Elevate, TakenIn, Diminished
    <2>4. CASE ElevateFails
      <3>1. PICK gone \in SUBSET (Tree(Top.node) \ {Top.node}) :
               disk' = disk \ gone /\ \A m \in gone : Below(m) \cap Own \subseteq gone
        BY <2>4 DEF ElevateFails
      <3>2. gone \in SUBSET Tree(Top.node)
        OBVIOUS
      <3> QED  BY <2>1, <2>4, <3>1, <3>2 DEF ElevateFails, TakenIn, Diminished
    <2> QED  BY <1>8, <2>2, <2>3, <2>4 DEF Answering
  <1> QED  BY <1>1, <1>2, <1>3, <1>4, <1>5, <1>6, <1>7, <1>8 DEF RemovalNext, Local

LEMMA TakesOfTheTree ==
  ASSUME NEW n \in Node
  PROVE  Taken(n) \subseteq Tree(n) /\ (Taken(n) # {} => n \in Taken(n))
  BY Trees DEF Taken

\* What is on the disk has the directory it is in there, too; but for what is
\* beyond a link, that is.
Rooted == \A m \in disk \cap Own : Parent[m] \in disk \cup {Root}

LEMMA RootedKept ==
  ASSUME RemovalInv, Rooted, Diminished
  PROVE  Rooted'
  <1> SUFFICES ASSUME NEW m \in Own, m \in disk', Parent[m] \notin disk', Parent[m] # Root PROVE FALSE
    BY DEF Rooted
  <1>1. m \in disk /\ Parent[m] \in disk /\ m \in Node
    BY DEF Rooted, Diminished, Swept1, TakenIn, Own
  <1>2. PICK p \in Node : p = Parent[m] /\ p \in Own /\ p \notin Link /\ p \in Folder /\ m \in Children(p)
    <2>1. Parent[m] \in Node
      BY <1>1 DEF TreeAssumption
    <2> QED  BY <1>1, <2>1, Owned DEF Children, TreeAssumption
  <1>3. Path(m) = {m} \cup Path(p)
    BY <1>1, <1>2, Up
  <1>4. CASE UNCHANGED disk
    BY <1>1, <1>4
  <1>5. CASE Swept1
    BY <1>1, <1>2, <1>5 DEF Swept1
  <1>6. ASSUME NEW n \in Node, p \in Tree(n) PROVE m \in Tree(n)
    <2>1. n \in Path(m)
      BY <1>3, <1>6, Trees DEF In
    <2> QED  BY <2>1, Trees
  <1>7. CASE stack # << >> /\ TakenIn(Top.node)
    <2>1. PICK n \in Node : n = Top.node
      BY <1>7, Innermost
    <2>2. CASE disk' = disk \ Tree(n)
      BY <1>1, <1>2, <1>6, <2>2
    <2>3. CASE disk' = disk \ Taken(n)
      <3>1. p \in Taken(n) /\ m \notin Taken(n)
        BY <1>1, <1>2, <2>3
      <3>2. Taken(n) # Tree(n)
        BY <1>6, <3>1
      <3>3. p = n /\ Children(n) \cap disk = {}
        BY <1>2, <3>1, <3>2 DEF Taken
      <3> QED  BY <1>1, <1>2, <3>3
    <2>4. ASSUME NEW gone \in SUBSET Tree(n), disk' = disk \ gone, \A k \in gone : Below(k) \cap Own \subseteq gone PROVE FALSE
      <3>1. p \in gone /\ m \notin gone
        BY <1>1, <1>2, <2>4
      <3>2. m \in Below(p)
        <4>1. p \in Above[m]
          BY <1>1, <1>2, Up, Least
        <4> QED  BY <1>1, <4>1 DEF Below
      <3> QED  BY <2>4, <3>1, <3>2
    <2> QED  BY <1>7, <2>1, <2>2, <2>3, <2>4 DEF TakenIn
  <1> QED  BY <1>4, <1>5, <1>7 DEF Diminished

\* The node in hand is in a selected tree, as long as no link is followed.
LEMMA InHandIsOwn ==
  ASSUME RemovalInv, stack # << >>, ~(how = "provider" /\ follows)
  PROVE  Top.node \in Own
  <1>1. stack \in Seq(Frames) /\ Way(stack) /\ Shape
    BY Split
  <1>2. PICK n : n = Len(stack)
    OBVIOUS
  <1>3. n \in Nat \ {0} /\ n \in 1 .. n /\ Top = stack[n] /\ Top.node \in Node
    BY <1>2, Innermost
  <1>4. CASE how # "provider"
    <2>1. Top.node \in Selected
      BY <1>4, Innermost
    <2> QED  BY <1>3, <2>1, Owned DEF Selected, Children
  <1>5. CASE how = "provider" /\ ~follows
    <2> SUFFICES ASSUME NEW m \in Above[Top.node] \cap Link PROVE FALSE
      BY <1>3 DEF Own
    <2>1. m \in Path(Top.node) /\ m # Top.node
      BY <1>3, Up, Forest
    <2>2. PICK i \in 1 .. n : m = stack[i].node
      <3>1. Path(stack[n].node) = {stack[i].node : i \in 1 .. n}
        BY <1>1, <1>2, <1>3 DEF Way
      <3> QED  BY <1>3, <2>1, <3>1
    <2>3. i \in 1 .. (n - 1)
      BY <1>3, <2>1, <2>2
    <2>4. IsDir(m)
      BY <1>1, <1>2, <2>2, <2>3 DEF Way
    <2> QED  BY <1>5, <2>4 DEF IsDir, TreeAssumption
  <1> QED  BY <1>4, <1>5
-----------------------------------------------------------------------------
(* Nothing but what was selected                                           *)

LEMMA LinkedKept ==
  ASSUME RemovalInv, OnlyThroughLinks, [RemovalNext]_removalVars
  PROVE  OnlyThroughLinks'
  <1>1. Diminished /\ how' = how /\ follows' = follows
    BY StepTakes DEF fixed
  <1> SUFFICES ASSUME NEW n \in Node, n \in disk, n \notin disk', ~(how = "provider" /\ follows)
               PROVE  n \in Own \/ \E s \in Selected \cap Link : how = "local" /\ n \in Swept(s)
    BY <1>1 DEF OnlyThroughLinks
  <1>2. stack # << >>
    BY <1>1 DEF Diminished, Swept1
  <1>3. PICK t \in Node : t = Top.node /\ t \in Own
    BY <1>2, InHandIsOwn DEF Own
  <1>4. CASE Swept1
    <2>1. n \in Top.left /\ how = "local"
      BY <1>4 DEF Swept1
    <2>2. t \in Selected /\ n \in Swept(t)
      BY <1>2, <1>3, <2>1, Innermost DEF Duty
    <2>3. CASE t \in Link
      BY <2>1, <2>2, <2>3
    <2>4. CASE t \notin Link
      BY <1>3, <2>2, <2>4, Trees
    <2> QED  BY <2>3, <2>4
  <1>5. CASE TakenIn(Top.node)
    <2>1. n \in Tree(t)
      BY <1>3, <1>5, TakesOfTheTree DEF TakenIn
    <2> QED  BY <1>3, <2>1, Trees
  <1> QED  BY <1>1, <1>4, <1>5 DEF Diminished

\* What goes without being in a selected tree goes through a link that was selected,
\* or by a provider whose isDir() resolves links, as SftpProvider::isDir() does
\* (deletePaths(), removeProviderTree()).
THEOREM NothingElseIsGone == RemovalSpec => []OnlyThroughLinks
  <1>1. RemovalInit => OnlyThroughLinks
    BY DEF RemovalInit, OnlyThroughLinks
  <1>2. RemovalInv /\ OnlyThroughLinks /\ [RemovalNext]_removalVars => OnlyThroughLinks'
    BY LinkedKept
  <1> QED  BY <1>1, <1>2, RemovalInvInductive, PTL DEF RemovalSpec

-----------------------------------------------------------------------------
(* Success means that all is gone                                          *)

Done == allOk => \A s \in Selected \ todo : s \in disk => stack # << >> /\ s = stack[1].node
Ends == step = "ended" /\ allOk => todo = {}
Success == Done /\ Ends /\ Rooted

\* The calls are about the same selected path until they end.
LEMMA SamePath ==
  ASSUME RemovalInv, stack # << >>, stack' # << >>
  PROVE  /\ UNCHANGED stack => stack'[1].node = stack[1].node
         /\ \A x \in SUBSET Node : x \subseteq Duty(Top.node) /\ stack' = Enter(Top.node, x) => stack'[1].node = stack[1].node
         /\ \A c \in Top.left : how = "provider" /\ stack' = Append(Enter(Top.node, Top.left \ {c}), Frame(c, {})) => stack'[1].node = stack[1].node
         /\ Len(stack) > 1 /\ stack' = Front(stack) => stack'[1].node = stack[1].node
  <1>1. stack \in Seq(Frames) /\ Way(stack) /\ 1 \in 1 .. Len(stack)
    BY Split, Innermost
  <1>2. ASSUME NEW x \in SUBSET Node, x \subseteq Duty(Top.node), stack' = Enter(Top.node, x) PROVE stack'[1].node = stack[1].node
    <2>1. stack' = Listed(stack, x) /\ x \subseteq Duty(Last(stack).node)
      BY <1>2 DEF Enter, Listed, Top
    <2> QED  BY <1>1, <2>1, Entered
  <1>3. ASSUME NEW c \in Top.left, how = "provider", stack' = Append(Enter(Top.node, Top.left \ {c}), Frame(c, {}))
        PROVE  stack'[1].node = stack[1].node
    <2>1. PICK r : r = stack' /\ r = Deeper(stack, c) /\ c \in Last(stack).left
      BY <1>3 DEF Enter, Listed, Deeper, Top
    <2>2. c \in Node /\ Parent[c] = Last(stack).node /\ IsDir(Last(stack).node)
      BY <1>3, Innermost DEF Duty, Children, Top
    <2>3. \A i \in 1 .. Len(stack) : r[i].node = stack[i].node
      BY <1>1, <2>1, <2>2, Called
    <2> QED  BY <1>1, <2>1, <2>3
  <1>4. ASSUME Len(stack) > 1, stack' = Front(stack) PROVE stack'[1].node = stack[1].node
    <2>1. \A i \in 1 .. (Len(stack) - 1) : Front(stack)[i] = stack[i]
      BY <1>1, FrontOfCalls
    <2>2. 1 \in 1 .. (Len(stack) - 1)
      BY <1>1, <1>4
    <2> QED  BY <1>4, <2>1, <2>2
  <1> QED  BY <1>2, <1>3, <1>4

\* What a step does to the path in hand: begin one, leave the batch, end the
\* path, work on it, or nothing.
Moves ==
  \/ /\ stack = << >> /\ step = "next" /\ step' # "ended" /\ UNCHANGED allOk /\ stack' # << >>
     /\ stack'[1].node \in todo /\ todo' = todo \ {stack'[1].node}
  \/ stack = << >> /\ stack' = << >> /\ UNCHANGED todo /\ (allOk' => allOk /\ todo = {})
  \/ /\ stack # << >> /\ stack' = << >> /\ UNCHANGED todo /\ (allOk' => allOk /\ stack[1].node \notin disk')
     /\ step' = "ended" => ~allOk'
  \/ /\ stack # << >> /\ stack' # << >> /\ stack'[1].node = stack[1].node
     /\ UNCHANGED todo /\ (allOk' => allOk) /\ step' # "ended"
  \/ UNCHANGED <<stack, step, todo, allOk>>

LEMMA MovesBatch == ASSUME RemovalInv, Batch \/ Cancel \/ UNCHANGED removalVars PROVE Moves
  <1>1. ASSUME NEW n \in Selected, Begin(n) PROVE Moves
    <2>1. stack = << >>
      BY <1>1, Split DEF Begin, Shape
    <2>2. Start(n) /\ n \in todo /\ n \notin todo' /\ UNCHANGED fixed /\ UNCHANGED elevatable /\ UNCHANGED allOk /\ todo' = todo \ {n}
      BY <1>1 DEF Begin, answer
    <2>3. stack' # << >> /\ stack'[1].node = n /\ step' # "ended"
      BY <2>2, Split, StartsTheCall DEF Shape
    <2> QED  BY <1>1, <2>1, <2>2, <2>3 DEF Moves, Begin
  <1>2. CASE Finish
    <2>1. stack = << >> /\ stack' = << >>
      BY <1>2, Split DEF Finish, Shape
    <2> QED  BY <1>2, <2>1 DEF Finish, Moves
  <1>3. CASE Cancel \/ UNCHANGED removalVars
    BY <1>3 DEF Cancel, removalVars, Moves
  <1> QED  BY <1>1, <1>2, <1>3 DEF Batch

LEMMA MovesOn ==
  ASSUME RemovalInv, Local \/ Provider \/ RemoveFails \/ RemoveUnheard \/ Retry \/ ElevateFails, ~Stopped
  PROVE  Moves
  <1>1. stack # << >> /\ Shape /\ RemovalInv'
    <2>1. RemovalNext
      BY DEF RemovalNext, Removing, Answering
    <2>2. RemovalInv'
      BY <2>1, SweepDoneKeeps, SweepKeeps, StoppedKeeps, ReadKeeps, NextChildKeeps, ChildrenDoneKeeps,
         RemovingKeeps, AnsweringKeeps DEF Local, Provider, Removing, Answering
    <2> QED  BY <2>2, Split DEF Local, SweepDone, SweepOne, SweepFails, Sweeping, Provider, Read, ReadFails, ChildrenDone,
                NextChild, RemoveFails, RemoveUnheard, Retry, ElevateFails, Asked, Shape
  <1>2. UNCHANGED todo /\ UNCHANGED allOk /\ step' \notin {"ended", "next"}
    <2>1. CASE Retry
      <3>1. CASE how = "provider"
        BY <2>1, <3>1 DEF Retry
      <3>2. CASE how # "provider"
        BY <2>1, <3>2 DEF Retry, Start
      <3> QED  BY <3>1, <3>2
    <2>2. CASE Local
      BY <2>2 DEF Local, SweepDone, SweepOne, SweepFails, Sweeping, CallFails
    <2>3. CASE Provider
      BY <2>3 DEF Provider, Read, ReadFails, ChildrenDone, NextChild
    <2>4. CASE RemoveFails \/ RemoveUnheard \/ ElevateFails
      BY <2>4 DEF RemoveFails, RemoveUnheard, ElevateFails, CallFails, Asked
    <2> QED  BY <2>1, <2>2, <2>3, <2>4
  <1>3. stack' # << >>
    BY <1>1, <1>2 DEF RemovalInv, Calls
  <1>4. stack'[1].node = stack[1].node
    <2>1. CASE UNCHANGED stack
      BY <2>1
    <2>2. ASSUME NEW m \in Node, Sweeping(m) PROVE stack'[1].node = stack[1].node
      <3>1. PICK x : x = Top.left \ {m}
        OBVIOUS
      <3>2. x \in SUBSET Node /\ x \subseteq Duty(Top.node)
        BY <1>1, <3>1, Innermost
      <3> QED  BY <1>1, <1>3, <2>2, <3>1, <3>2, SamePath DEF Sweeping
    <2>3. CASE Read
      <3>1. PICK x : x = IF IsDir(Top.node) THEN Children(Top.node) \cap disk ELSE {}
        OBVIOUS
      <3>2. how = "provider" /\ x \in SUBSET Node
        BY <1>1, <2>3, <3>1 DEF Read, Children, Shape
      <3>3. x \subseteq Duty(Top.node)
        BY <3>1, <3>2 DEF Duty
      <3> QED  BY <1>1, <1>3, <2>3, <3>1, <3>2, <3>3, SamePath DEF Read
    <2>4. ASSUME NEW c \in Node, NextChild(c) PROVE stack'[1].node = stack[1].node
      BY <1>1, <1>3, <2>4, SamePath DEF NextChild
    <2>5. CASE Retry /\ how # "provider"
      <3>1. PICK n \in Selected : n = Top.node /\ n \notin todo /\ Top = stack[1]
        BY <1>1, <2>5, Innermost DEF Shape
      <3>2. Start(n) /\ n \notin todo' /\ UNCHANGED fixed /\ (elevatable' => how # "provider")
        BY <2>5, <3>1 DEF Retry
      <3> QED  BY <3>1, <3>2, StartsTheCall
    <2>6. CASE RemoveFails \/ RemoveUnheard \/ ElevateFails
      BY <2>6 DEF RemoveFails, RemoveUnheard, ElevateFails, CallFails
    <2>7. CASE Retry /\ how = "provider"
      BY <2>7 DEF Retry
    <2>8. CASE SweepDone \/ ChildrenDone \/ ReadFails
      BY <2>8 DEF SweepDone, ChildrenDone, ReadFails, CallFails
    <2> QED  BY <2>2, <2>3, <2>4, <2>5, <2>6, <2>7, <2>8 DEF Local, Provider, SweepOne, SweepFails
  <1> QED  BY <1>1, <1>2, <1>3, <1>4 DEF Moves

LEMMA MovesAway ==
  ASSUME RemovalInv, Stopped \/ RemoveNode \/ Skip \/ Abort \/ Elevate
  PROVE  Moves
  <1>1. stack # << >> /\ stack \in Seq(Frames) /\ RemovalTypeOK
    BY Split DEF Stopped, RemoveNode, Skip, Abort, Elevate, Asked, Shape, RemovalInv
  <1>2. ASSUME PathEnds(FALSE), UNCHANGED todo PROVE Moves
    <2>1. stack' = << >> /\ ~allOk'
      BY <1>1, <1>2, PathEnded
    <2> QED  BY <1>1, <1>2, <2>1 DEF Moves
  <1>3. ASSUME CallEnds, UNCHANGED todo, Top.node \notin disk' PROVE Moves
    <2>1. CASE Len(stack) = 1
      <3>1. stack' = << >> /\ (allOk' => allOk) /\ (step' = "ended" => ~allOk') /\ Top = stack[1]
        BY <1>1, <1>3, <2>1, CallEnded, Innermost DEF RemovalInv
      <3> QED  BY <1>1, <1>3, <3>1 DEF Moves
    <2>2. CASE Len(stack) # 1
      <3>1. Len(stack) > 1 /\ stack' = Front(stack) /\ step' = "children" /\ (allOk' => allOk)
        BY <1>1, <1>3, <2>2, CallEnded DEF RemovalInv
      <3>2. stack' # << >>
        BY <1>1, <3>1, Split, Returned
      <3>3. stack'[1].node = stack[1].node
        BY <1>1, <3>1, <3>2, SamePath
      <3> QED  BY <1>1, <1>3, <3>1, <3>2, <3>3 DEF Moves
    <2> QED  BY <2>1, <2>2
  <1>4. Top.node \in Node
    BY <1>1, Innermost
  <1>5. CASE RemoveNode
    BY <1>3, <1>4, <1>5, TakesOfTheTree DEF RemoveNode, Removed
  <1>6. CASE Elevate
    BY <1>3, <1>4, <1>6, Trees DEF Elevate
  <1> QED  BY <1>2, <1>5, <1>6 DEF Stopped, Skip, Abort

LEMMA SuccessKept ==
  ASSUME RemovalInv, Success, [RemovalNext]_removalVars
  PROVE  Success'
  <1>1. Moves
    BY MovesBatch, MovesOn, MovesAway DEF RemovalNext, Removing, Answering
  <1>2. Diminished /\ disk' \subseteq disk
    BY StepTakes DEF Diminished, Swept1, TakenIn
  <1>3. Rooted'
    BY <1>2, RootedKept DEF Success
  <1>4. allOk' => allOk
    BY <1>1 DEF Moves
  <1>5. Done'
    <2> SUFFICES ASSUME allOk', NEW s \in Selected, s \notin todo', s \in disk' PROVE stack' # << >> /\ s = stack'[1].node
      BY DEF Done
    <2>1. s \in todo \/ (stack # << >> /\ s = stack[1].node)
      BY <1>2, <1>4 DEF Success, Done
    <2> QED  BY <1>1, <2>1 DEF Moves
  <1>6. Ends'
    <2> SUFFICES ASSUME step' = "ended", allOk' PROVE todo' = {}
      BY DEF Ends
    <2> QED  BY <1>1, <1>4 DEF Moves, Success, Ends
  <1> QED  BY <1>3, <1>5, <1>6 DEF Success

\* A deletion that reports complete success has left nothing of what was
\* selected (deletePaths() and deleteProviderPaths() return allOk).
THEOREM SuccessMeansGone == RemovalSpec => []TrueMeansGone
  <1>1. RemovalInit => Success
    BY DEF RemovalInit, Success, Done, Ends, Rooted, Own, TreeAssumption
  <1>2. RemovalInv /\ Success /\ [RemovalNext]_removalVars => Success'
    BY SuccessKept
  <1>3. RemovalInv /\ Success => TrueMeansGone
    <2> SUFFICES ASSUME RemovalInv, Success, step = "ended", allOk, NEW n \in Own, n \in disk PROVE FALSE
      BY DEF TrueMeansGone
    <2>1. stack = << >> /\ todo = {} /\ disk \subseteq Node /\ n \in Node
      BY Split DEF Success, Ends, Shape, Plain, Own
    <2>2. \A s \in Selected : s \notin disk
      BY <2>1 DEF Success, Done
    <2> DEFINE There == disk \cap Own
    <2>3. There \in SUBSET Node /\ n \in There
      BY <2>1
    <2>4. ASSUME NEW m \in There, Parent[m] # Root PROVE Parent[m] \in There
      <3>1. m \in Own /\ m \in Node /\ Parent[m] \in disk
        BY <2>1, <2>4 DEF Success, Rooted
      <3> QED  BY <2>4, <3>1, Owned
    <2>5. Closed(There)
      BY <2>4 DEF Closed
    <2>6. Path(n) \subseteq There
      BY <2>1, <2>3, <2>5, Least
    <2> QED  BY <2>1, <2>2, <2>6, Forest
  <1> QED  BY <1>1, <1>2, <1>3, RemovalInvInductive, PTL DEF RemovalSpec
-----------------------------------------------------------------------------
(* A cancelled deletion begins with nothing new                            *)

\* What the calls q are about: their nodes, and of a local one what it sweeps.
About(q) == UNION {{q[i].node} \cup {m \in Swept(q[i].node) : how # "provider"} : i \in 1 .. Len(q)}

Begun == late \subseteq inHand /\ IF cancelled THEN About(stack) \subseteq inHand ELSE late = {}

\* A step removes what the calls are about.
LEMMA AboutTop ==
  ASSUME RemovalInv, stack # << >>
  PROVE  Top.node \in About(stack) /\ (how = "local" => Top.left \subseteq About(stack))
  <1>1. PICK n : n = Len(stack)
    OBVIOUS
  <1>2. n \in 1 .. Len(stack) /\ Top = stack[n] /\ Top.left \subseteq Duty(Top.node)
    BY <1>1, Innermost
  <1>3. {Top.node} \cup {m \in Swept(Top.node) : how # "provider"} \subseteq About(stack)
    BY <1>2 DEF About
  <1>4. how = "local" => Top.left \subseteq Swept(Top.node)
    BY <1>2 DEF Duty
  <1> QED  BY <1>3, <1>4

LEMMA Shrinks ==
  ASSUME UNCHANGED fixed, \A j \in 1 .. Len(stack') : \E i \in 1 .. Len(stack) : stack'[j].node = stack[i].node
  PROVE  About(stack)' \subseteq About(stack)
  BY DEF About, fixed

\* A cancelled operation goes on with the calls it is in, or returns from them.
LEMMA NothingBegins ==
  ASSUME RemovalInv, cancelled, [RemovalNext]_removalVars
  PROVE  About(stack)' \subseteq About(stack)
  <1>1. UNCHANGED fixed
    BY StepTakes
  <1>2. stack \in Seq(Frames) /\ Way(stack) /\ Shape /\ RemovalTypeOK
    BY Split DEF RemovalInv
  <1>3. CASE UNCHANGED stack
    BY <1>1, <1>3, Shrinks
  <1>4. CASE stack' = << >>
    <2>1. Len(stack') = 0
      BY <1>4
    <2> QED  BY <1>1, <2>1, Shrinks
  <1>5. ASSUME Len(stack) > 1, stack' = Front(stack) PROVE About(stack)' \subseteq About(stack)
    <2>1. PICK n : n = Len(stack')
      OBVIOUS
    <2>2. n = Len(stack) - 1 /\ \A i \in 1 .. n : stack'[i] = stack[i]
      BY <1>2, <1>5, <2>1, Returned
    <2>3. Len(stack) \in Nat /\ \A i \in 1 .. n : i \in 1 .. Len(stack)
      BY <1>2, <2>2
    <2> QED  BY <1>1, <2>1, <2>2, <2>3, Shrinks
  <1>6. CASE SweepDone \/ ChildrenDone \/ RemoveFails \/ RemoveUnheard \/ ElevateFails \/ Cancel \/ Batch \/ UNCHANGED removalVars
    BY <1>3, <1>6 DEF SweepDone, ChildrenDone, RemoveFails, RemoveUnheard, ElevateFails, Cancel, Batch, Begin, Finish,
       CallFails, removalVars
  <1>7. ASSUME NEW m \in Node, Sweeping(m) PROVE About(stack)' \subseteq About(stack)
    <2>1. stack # << >>
      BY <1>2, <1>7 DEF Sweeping, Shape
    <2>2. PICK x, r : x = Top.left \ {m} /\ r = stack'
      OBVIOUS
    <2>3. x \in SUBSET Node /\ x \subseteq Duty(Last(stack).node) /\ r = Listed(stack, x)
      BY <1>7, <2>1, <2>2, Innermost DEF Sweeping, Enter, Listed, Top
    <2>4. Len(r) = Len(stack) /\ \A i \in 1 .. Len(stack) : r[i].node = stack[i].node
      BY <1>2, <2>1, <2>3, Entered
    <2> QED  BY <1>1, <2>2, <2>4, Shrinks
  <1>8. CASE Stopped \/ Skip \/ Abort
    BY <1>2, <1>4, <1>8, PathEnded DEF Stopped, Skip, Abort
  <1>9. CASE RemoveNode \/ Elevate
    <2>1. stack # << >> /\ CallEnds
      BY <1>2, <1>9 DEF RemoveNode, Elevate, Asked, Shape
    <2> QED  BY <1>2, <1>4, <1>5, <2>1, CallEnded
  <1>10. CASE Retry
    <2>1. CASE how = "provider"
      BY <1>3, <1>10, <2>1 DEF Retry
    <2>2. CASE how # "provider"
      <3>1. stack # << >>
        BY <1>2, <1>10 DEF Retry, Asked, Shape
      <3>2. Len(stack) = 1 /\ Top = stack[1] /\ Top.node \in Selected /\ Top.node \notin todo'
        BY <1>2, <1>10, <2>2, <3>1, Innermost DEF Retry, Shape
      <3>3. Start(Top.node) /\ (elevatable' => how # "provider")
        BY <1>10, <2>2 DEF Retry
      <3>4. Len(stack') = 1 /\ stack'[1].node = Top.node
        BY <1>1, <3>2, <3>3, StartsTheCall
      <3>5. \A j \in 1 .. Len(stack') : j = 1 /\ j \in 1 .. Len(stack)
        BY <3>2, <3>4
      <3> QED  BY <1>1, <3>2, <3>4, <3>5, Shrinks
    <2> QED  BY <2>1, <2>2
  <1>11. CASE Provider
    BY <1>6, <1>8, <1>11 DEF Provider, Read, ReadFails, NextChild
  <1> QED  BY <1>6, <1>7, <1>8, <1>9, <1>10, <1>11 DEF RemovalNext, Local, SweepOne, SweepFails, Removing, Answering

\* What a step removes late, and who says that the operation is cancelled.
LEMMA LateSteps ==
  ASSUME RemovalInv, [RemovalNext]_removalVars
  PROVE  \/ Cancel
         \/ ~cancelled /\ Abort /\ UNCHANGED <<late, inHand>> /\ stack' = << >> /\ cancelled'
         \/ UNCHANGED <<cancelled, inHand>> /\ late' \subseteq late \cup About(stack) /\ (cancelled \/ UNCHANGED late)
  <1>1. Shape /\ RemovalTypeOK
    BY Split DEF RemovalInv
  <1>2. CASE Batch \/ UNCHANGED removalVars \/ SweepDone \/ Retry \/ Skip \/ ElevateFails \/ Elevate \/ RemoveFails \/ Provider
    BY <1>2 DEF Batch, Begin, Finish, removalVars, SweepDone, Retry, Skip, ElevateFails, Elevate, RemoveFails,
       Provider, Stopped, Read, ReadFails, NextChild, ChildrenDone, traces
  <1>3. CASE Abort
    BY <1>1, <1>3, PathEnded DEF Abort, traces
  <1>4. ASSUME NEW m \in Node, SweepOne(m) \/ SweepFails(m)
        PROVE  UNCHANGED <<cancelled, inHand>> /\ late' \subseteq late \cup About(stack) /\ (cancelled \/ UNCHANGED late)
    <2>1. stack # << >> /\ m \in Top.left /\ how = "local"
      BY <1>1, <1>4 DEF SweepOne, SweepFails, Sweeping, Shape
    <2>2. m \in About(stack)
      BY <2>1, AboutTop
    <2> QED  BY <1>4, <2>2 DEF SweepOne, SweepFails, Sweeping, traces
  <1>5. CASE RemoveNode \/ RemoveUnheard
    <2>1. stack # << >>
      BY <1>1, <1>5 DEF RemoveNode, RemoveUnheard, Shape
    <2>2. Top.node \in About(stack)
      BY <2>1, AboutTop
    <2> QED  BY <1>5, <2>2 DEF RemoveNode, RemoveUnheard, Removed, traces
  <1> QED  BY <1>2, <1>3, <1>4, <1>5 DEF RemovalNext, Local, Removing, Answering

\* A cancelled deletion removes no more than the calls it is in are about, whenever
\* the user cancels (requestCancel(), removeProviderTree()).
THEOREM CancelIsKept == RemovalSpec => []CancelBeginsNothing
  <1>1. RemovalInit => Begun
    BY DEF RemovalInit, Begun
  <1>2. RemovalInv /\ Begun /\ [RemovalNext]_removalVars => Begun'
    <2> SUFFICES ASSUME RemovalInv, Begun, [RemovalNext]_removalVars PROVE Begun'
      OBVIOUS
    <2>1. CASE Cancel
      <3>1. UNCHANGED fixed /\ ~cancelled /\ cancelled' /\ stack' = stack /\ late' = late /\ inHand' = About(stack)
        BY <2>1 DEF Cancel, About
      <3>2. About(stack)' \subseteq About(stack)
        BY <3>1, Shrinks
      <3> QED  BY <3>1, <3>2 DEF Begun
    <2>2. CASE ~cancelled /\ Abort /\ UNCHANGED <<late, inHand>> /\ stack' = << >> /\ cancelled'
      <3>1. About(stack)' = {}
        <4>1. Len(stack') = 0
          BY <2>2
        <4> QED  BY <4>1 DEF About
      <3> QED  BY <2>2, <3>1 DEF Begun
    <2>3. CASE UNCHANGED <<cancelled, inHand>> /\ late' \subseteq late \cup About(stack) /\ (cancelled \/ UNCHANGED late)
      BY <2>3, NothingBegins DEF Begun
    <2> QED  BY <2>1, <2>2, <2>3, LateSteps
  <1>3. Begun => CancelBeginsNothing
    BY DEF Begun, CancelBeginsNothing
  <1> QED  BY <1>1, <1>2, <1>3, RemovalInvInductive, PTL DEF RemovalSpec

-----------------------------------------------------------------------------
(* What was skipped stays                                                  *)

\* What a call may have to remove is there, and so is all that it is in; a skipped
\* path is in none of the selected trees that are in hand or to come.
Standing ==
  /\ stack # << >> =>
       /\ Above[Top.node] \subseteq disk
       /\ Top.node \in disk \/ (Top.node \in unheard /\ step \in {"remove", "asking"})
  /\ how = "provider" => \A i \in 1 .. Len(stack) : stack[i].left \subseteq disk

Over ==
  /\ todo \subseteq disk
  /\ \A p \in passed : Path(p) \cap todo = {} /\ (stack # << >> => stack[1].node \notin Path(p))
  /\ \A p \in passed \ unheard : Path(p) \subseteq disk
  /\ how # "provider" => unheard = {}

\* No node is in what is in it.
LEMMA Apart ==
  ASSUME NEW n \in Node
  PROVE  /\ \A m \in Above[n] : m \in Node /\ n \notin Path(m) /\ Path(m) \subseteq Above[n]
         /\ Above[n] \cap In(n) = {}
  <1>1. ASSUME NEW m \in Above[n] PROVE m \in Node /\ n \notin Path(m) /\ Path(m) \subseteq Above[n]
    <2>1. Parent[n] # Root /\ Parent[n] \in Node /\ Above[n] = Path(Parent[n])
      BY <1>1, Up
    <2>2. m \in Node /\ Path(m) \subseteq Above[n]
      BY <1>1, <2>1, Within
    <2> QED  BY <2>2, Forest
  <1> QED  BY <1>1 DEF In

\* A call is inside those around it.
LEMMA Nested ==
  ASSUME NEW q \in Seq(Frames), Way(q), NEW j \in 1 .. Len(q), NEW i \in 1 .. (j - 1)
  PROVE  q[i].node \in Above[q[j].node] /\ q[i].node # q[j].node
  <1>1. PICK n, k : n = Len(q) /\ k = j - 1
    OBVIOUS
  <1>2. n \in Nat /\ j \in 1 .. n /\ k \in 1 .. (n - 1) /\ k \in 1 .. n /\ i \in 1 .. k /\ j = k + 1 /\ i \in 1 .. n
    BY <1>1
  <1>3. q # << >>
    BY <1>1, <1>2
  <1>4. \A h \in 1 .. n : q[h].node \in Node
    BY <1>1, <1>3, FrontOfCalls
  <1>5. Parent[q[j].node] = q[k].node /\ q[i].node \in Path(q[k].node)
    <2>1. Parent[q[k + 1].node] = q[k].node
      BY <1>1, <1>2 DEF Way
    <2>2. Path(q[k].node) = {q[h].node : h \in 1 .. k}
      BY <1>1, <1>2 DEF Way
    <2> QED  BY <1>2, <2>1, <2>2
  <1>6. q[k].node # Root
    BY <1>2, <1>4 DEF TreeAssumption
  <1>7. Above[q[j].node] = Path(q[k].node)
    BY <1>2, <1>4, <1>5, <1>6, Up
  <1> QED  BY <1>2, <1>4, <1>5, <1>7, Forest

\* What the calls around the innermost have still to do is not in its node.
LEMMA Beside ==
  ASSUME RemovalInv, how = "provider", stack # << >>, NEW i \in 1 .. (Len(stack) - 1), NEW c \in stack[i].left
  PROVE  c \notin In(Top.node)
  <1>1. stack \in Seq(Frames) /\ Way(stack)
    BY Split
  <1>2. PICK n, t, p : n = Len(stack) /\ t = Top.node /\ p = stack[i].node
    OBVIOUS
  <1>3. /\ n \in Nat \ {0} /\ n \in 1 .. n /\ i \in 1 .. n /\ i \in 1 .. (n - 1) /\ i + 1 \in 1 .. n /\ Top = stack[n]
        /\ t \in Node /\ p \in Node /\ c \in Node
    BY <1>2, Innermost
  <1>4. Parent[c] = p /\ Path(c) = {c} \cup Path(p)
    <2>1. c \in Children(p)
      BY <1>2, <1>3, <1>1 DEF Way, Duty
    <2>2. Parent[c] = p /\ p # Root
      BY <1>3, <2>1 DEF Children, TreeAssumption
    <2> QED  BY <1>3, <2>2, Up
  <1>5. p \in Above[t]
    BY <1>1, <1>2, <1>3, Nested
  <1>6. t \notin Path(p)
    BY <1>3, <1>5, Apart
  <1>7. t # c
    <2> SUFFICES ASSUME t = c PROVE FALSE
      OBVIOUS
    <2>1. CASE i + 1 = n
      <3>1. stack[i + 1].node \notin stack[i].left
        BY <1>1, <1>2, <1>3 DEF Way
      <3> QED  BY <1>2, <1>3, <2>1, <3>1
    <2>2. CASE i + 1 # n
      <3>1. PICK k, d : k = i + 1 /\ d = stack[k].node
        OBVIOUS
      <3>2. k \in 1 .. (n - 1) /\ k \in 1 .. n /\ i \in 1 .. (k - 1) /\ d \in Node
        BY <1>2, <1>3, <2>2, <3>1, Innermost
      <3>3. d \in Above[t] /\ p \in Above[d]
        BY <1>1, <1>2, <1>3, <3>1, <3>2, Nested
      <3>4. d \in Path(p)
        BY <1>3, <1>4, <3>3, Up DEF TreeAssumption
      <3> QED  BY <3>2, <3>3, <3>4, Apart
    <2> QED  BY <2>1, <2>2
  <1> QED  BY <1>2, <1>3, <1>4, <1>6, <1>7 DEF In

\* The innermost call is inside the selected path in hand.
LEMMA TopWithin ==
  ASSUME RemovalInv, stack # << >>
  PROVE  stack[1].node \in Path(Top.node) /\ stack[1].node \in Selected \ todo
  <1>1. PICK n : n = Len(stack)
    OBVIOUS
  <1>2. n \in Nat \ {0} /\ n \in 1 .. n /\ 1 \in 1 .. n /\ Top = stack[n]
    BY <1>1, Innermost
  <1>3. Path(stack[n].node) = {stack[i].node : i \in 1 .. n}
    BY <1>1, <1>2, Split DEF Way
  <1> QED  BY <1>2, <1>3, Split DEF Shape

\* A step takes only what is in the node in hand, and so in the selected path in hand.
LEMMA TakesWithin ==
  ASSUME RemovalInv, Diminished, NEW m \in disk \ disk'
  PROVE  stack # << >> /\ m \in Node /\ m \in In(Top.node) /\ stack[1].node \in Path(m)
  <1>1. stack # << >>
    BY DEF Diminished, Swept1
  <1>2. Top.node \in Node /\ m \in Node
    BY <1>1, Innermost, Split DEF Plain
  <1>3. m \in In(Top.node)
    <2>1. CASE Swept1
      BY <1>1, <1>2, <2>1, Innermost, Trees DEF Swept1, Duty
    <2>2. CASE TakenIn(Top.node)
      <3>1. m \in Tree(Top.node)
        BY <1>2, <2>2, TakesOfTheTree DEF TakenIn
      <3> QED  BY <1>2, <3>1, Trees
    <2> QED  BY <2>1, <2>2 DEF Diminished
  <1>4. stack[1].node \in Path(Top.node)
    BY <1>1, TopWithin
  <1> QED  BY <1>1, <1>2, <1>3, <1>4, Within DEF In

\* Nothing of a path that is over is taken any more.
LEMMA OverKept ==
  ASSUME RemovalInv, Standing, Over, [RemovalNext]_removalVars
  PROVE  Over'
  <1>1. Diminished /\ Moves
    BY StepTakes, MovesBatch, MovesOn, MovesAway DEF RemovalNext, Removing, Answering
  <1>2. todo' \subseteq todo /\ (todo' # {} \/ stack' # << >> => todo # {} \/ stack # << >>)
    BY <1>1 DEF Moves
  <1>3. /\ Shape /\ todo \subseteq Selected /\ passed \subseteq Node
        /\ \A n \in Selected : n \in Node /\ Path(n) = {n}
    BY Split, Up DEF Plain, Selected, Children
  <1>4. todo' \subseteq disk'
    <2> SUFFICES ASSUME NEW s \in todo, s \notin disk' PROVE FALSE
      BY <1>2
    <2>1. stack # << >> /\ stack[1].node \in Path(s)
      BY <1>1, TakesWithin DEF Over
    <2> QED  BY <1>3, <2>1, TopWithin
  <1>5. passed' \subseteq passed \cup {Top.node} /\ unheard \subseteq unheard'
    BY DEF RemovalNext, removalVars, Batch, Begin, Finish, Cancel, Local, SweepDone, SweepOne, SweepFails, Sweeping,
       Provider, Stopped, Read, ReadFails, NextChild, ChildrenDone, Removing, RemoveNode, RemoveFails, RemoveUnheard,
       Answering, Retry, Skip, Abort, Elevate, ElevateFails, traces
  <1>6. ASSUME NEW p \in passed' \ passed PROVE p = Top.node /\ stack # << >> /\ stack' = << >> /\ UNCHANGED <<disk, todo>>
    <2>1. Skip
      BY <1>6 DEF RemovalNext, removalVars, Batch, Begin, Finish, Cancel, Local, SweepDone, SweepOne, SweepFails, Sweeping,
       Provider, Stopped, Read, ReadFails, NextChild, ChildrenDone, Removing, RemoveNode, RemoveFails, RemoveUnheard,
       Answering, Retry, Abort, Elevate, ElevateFails, traces
    <2> QED  BY <1>3, <1>5, <1>6, <2>1 DEF Skip, PathEnds, Shape
  <1>7. ASSUME NEW p \in passed PROVE Path(p) \cap todo' = {} /\ (stack' # << >> => stack'[1].node \notin Path(p))
    <2>1. Path(p) \cap todo = {} /\ (stack # << >> => stack[1].node \notin Path(p))
      BY <1>7 DEF Over
    <2>2. stack' # << >> => stack'[1].node \in todo \/ (stack # << >> /\ stack'[1].node = stack[1].node)
      BY <1>1 DEF Moves
    <2> QED  BY <1>2, <2>1, <2>2
  <1>8. ASSUME NEW p \in passed' \ passed
        PROVE  /\ Path(p) \cap todo' = {} /\ (stack' # << >> => stack'[1].node \notin Path(p))
               /\ p \notin unheard' => Path(p) \subseteq disk'
    <2>1. p = Top.node /\ stack # << >> /\ stack' = << >> /\ UNCHANGED <<disk, todo>> /\ p \in Node
      BY <1>6, Innermost
    <2>2. Path(p) \cap todo = {}
      BY <1>3, <2>1, TopWithin, Forest
    <2>3. p \notin unheard' => Path(p) \subseteq disk
      BY <1>5, <2>1, Up DEF Standing
    <2> QED  BY <2>1, <2>2, <2>3
  <1>9. ASSUME NEW p \in passed, p \notin unheard' PROVE Path(p) \subseteq disk'
    <2> SUFFICES ASSUME NEW m \in Path(p), m \notin disk' PROVE FALSE
      OBVIOUS
    <2>1. p \in Node /\ m \in disk
      BY <1>3, <1>5, <1>9 DEF Over
    <2>2. stack # << >> /\ stack[1].node \in Path(m)
      BY <1>1, <2>1, TakesWithin
    <2>3. stack[1].node \in Path(p)
      BY <2>1, <2>2, Within
    <2> QED  BY <2>2, <2>3 DEF Over
  <1>10. how' # "provider" => unheard' = {}
    <2>1. UNCHANGED how /\ (UNCHANGED unheard \/ how = "provider")
      BY DEF RemovalNext, removalVars, Batch, Begin, Finish, Cancel, Local, SweepDone, SweepOne, SweepFails, Sweeping,
       Provider, Stopped, Read, ReadFails, NextChild, ChildrenDone, Removing, RemoveNode, RemoveFails, RemoveUnheard,
       Answering, Retry, Skip, Abort, Elevate, ElevateFails, traces, fixed
    <2> QED  BY <2>1 DEF Over
  <1> QED  BY <1>4, <1>7, <1>8, <1>9, <1>10 DEF Over

\* Standing, of calls q on a disk d.
StandsOn(q, d) ==
  /\ q # << >> => Path(Last(q).node) \subseteq d
  /\ how = "provider" => \A i \in 1 .. Len(q) : q[i].left \subseteq d

LEMMA Stands ==
  ASSUME UNCHANGED how, StandsOn(stack', disk'), NEW q \in Seq(Frames), q = stack'
  PROVE  Standing'
  <1>1. ASSUME stack' # << >>
        PROVE  Above[Last(stack').node] \subseteq disk' /\ Last(stack').node \in disk'
    <2>1. Last(stack').node \in Node
      BY <1>1, FrontOfCalls
    <2> QED  BY <1>1, <2>1, Up DEF StandsOn
  <1> QED  BY <1>1 DEF Standing, StandsOn, Top

\* Before its call is made, the node in hand is there.
LEMMA InHandStands ==
  ASSUME RemovalInv, Standing, stack # << >>
  PROVE  /\ step \notin {"remove", "asking"} => Path(Top.node) \subseteq disk /\ StandsOn(stack, disk)
         /\ Top.node \in Node
  <1>1. Top.node \in Node
    BY Innermost
  <1> QED  BY <1>1, Up DEF Standing, StandsOn, Top

\* Steps that leave the calls and the disk as they are.
LEMMA StillStands ==
  ASSUME RemovalInv, Standing, UNCHANGED <<stack, disk, how>>, unheard \subseteq unheard',
         UNCHANGED step \/ step' \in {"remove", "asking"} \/ step \notin {"remove", "asking"}
  PROVE  Standing'
  BY DEF Standing, Top

LEMMA BeginStands ==
  ASSUME RemovalInv, UNCHANGED <<fixed, disk>>, NEW n \in Selected \cap disk, Start(n), n \notin todo',
         elevatable' => how # "provider", n \in Node
  PROVE  Standing'
  <1>1. /\ stack' # << >> /\ Len(stack') = 1 /\ stack'[1].node = n /\ Last(stack').node = n /\ Stacked
        /\ how = "provider" => Last(stack').left = {}
    BY StartsTheCall
  <1>2. Path(n) = {n}
    BY Up DEF Selected, Children
  <1>3. Last(stack') = stack'[1] /\ \A i \in 1 .. Len(stack') : i = 1
    BY <1>1 DEF Last
  <1>4. StandsOn(stack', disk') /\ UNCHANGED how
    BY <1>1, <1>2, <1>3 DEF StandsOn, fixed
  <1>5. stack' \in Seq(Frames)
    BY <1>1, StackKept DEF RemovalInv
  <1> QED  BY <1>4, <1>5, Stands

LEMMA SweepStands ==
  ASSUME RemovalInv, Standing, NEW m \in Node, Sweeping(m), UNCHANGED disk \/ disk' = disk \ {m}
  PROVE  Standing'
  <1>1. stack \in Seq(Frames) /\ Way(stack) /\ stack # << >> /\ how = "local" /\ UNCHANGED how
    BY Split DEF Sweeping, Shape, fixed
  <1>2. PICK x, r : x = Top.left \ {m} /\ r = stack'
    OBVIOUS
  <1>3. x \in SUBSET Node /\ x \subseteq Duty(Last(stack).node) /\ r = Listed(stack, x)
    BY <1>1, <1>2, Innermost DEF Sweeping, Enter, Listed, Top
  <1>4. r \in Seq(Frames) /\ Last(r).node = Top.node
    BY <1>1, <1>3, Entered DEF Top
  <1>5. m \in In(Top.node) /\ m # Top.node /\ Top.node \in Node
    BY <1>1, Innermost, Trees DEF Sweeping, Duty
  <1>6. m \notin Path(Top.node)
    BY <1>5, Up, Apart
  <1>7. Path(Top.node) \subseteq disk'
    BY <1>1, <1>6, InHandStands DEF Sweeping
  <1>8. StandsOn(stack', disk')
    BY <1>1, <1>2, <1>4, <1>7 DEF StandsOn
  <1> QED  BY <1>1, <1>2, <1>4, <1>8, Stands

LEMMA ReadStands ==
  ASSUME RemovalInv, Standing, Read
  PROVE  Standing'
  <1>1. stack \in Seq(Frames) /\ Way(stack) /\ stack # << >> /\ how = "provider" /\ UNCHANGED <<how, disk>> /\ disk \subseteq Node
    BY Split DEF Read, Shape, Plain, fixed
  <1>2. PICK x, r : x = (IF IsDir(Top.node) THEN Children(Top.node) \cap disk ELSE {}) /\ r = stack'
    OBVIOUS
  <1>3. x \in SUBSET Node /\ x \subseteq Duty(Last(stack).node) /\ r = Listed(stack, x) /\ x \subseteq disk
    BY <1>1, <1>2 DEF Read, Enter, Listed, Top, Duty
  <1>4. /\ r \in Seq(Frames) /\ Last(r).node = Top.node /\ Len(r) = Len(stack) /\ Last(r).left = x /\ r # << >>
        /\ \A i \in 1 .. (Len(stack) - 1) : r[i] = stack[i]
    BY <1>1, <1>3, Entered DEF Top
  <1>5. Path(Top.node) \subseteq disk /\ StandsOn(stack, disk)
    BY <1>1, InHandStands DEF Read
  <1>6. ASSUME NEW i \in 1 .. Len(r) PROVE r[i].left \subseteq disk
    <2>1. PICK n : n = Len(stack)
      OBVIOUS
    <2>2. n \in Nat \ {0} /\ i \in 1 .. n /\ Last(r) = r[n]
      BY <1>1, <1>4, <2>1, Innermost DEF Last
    <2>3. i = n \/ i \in 1 .. (n - 1)
      BY <2>2
    <2> QED  BY <1>1, <1>3, <1>4, <1>5, <2>1, <2>2, <2>3 DEF StandsOn
  <1>7. StandsOn(stack', disk')
    BY <1>1, <1>2, <1>4, <1>5, <1>6 DEF StandsOn
  <1> QED  BY <1>1, <1>2, <1>4, <1>7, Stands

LEMMA ChildStands ==
  ASSUME RemovalInv, Standing, NEW c \in Node, NextChild(c)
  PROVE  Standing'
  <1>1. stack \in Seq(Frames) /\ Way(stack) /\ stack # << >> /\ how = "provider" /\ UNCHANGED <<how, disk>> /\ c \in Top.left
    BY Split DEF NextChild, Shape, fixed
  <1>2. PICK r : r = stack' /\ r = Deeper(stack, c)
    BY <1>1 DEF NextChild, Enter, Listed, Deeper, Top
  <1>3. Parent[c] = Top.node /\ IsDir(Top.node) /\ Top.node \in Node
    BY <1>1, Innermost DEF Duty, Children
  <1>4. /\ r \in Seq(Frames) /\ r # << >> /\ Len(r) = Len(stack) + 1 /\ Last(r).left = {} /\ Last(r).node = c
        /\ \A i \in 1 .. Len(stack) : r[i].left \subseteq stack[i].left
    BY <1>1, <1>2, <1>3, Called DEF Top
  <1>5. Path(Top.node) \subseteq disk /\ StandsOn(stack, disk)
    BY <1>1, InHandStands DEF NextChild
  <1>6. PICK n : n = Len(stack)
    OBVIOUS
  <1>7. n \in 1 .. n /\ Top = stack[n] /\ n \in Nat
    BY <1>1, <1>6, Innermost
  <1>8. c \in disk
    BY <1>1, <1>5, <1>6, <1>7 DEF StandsOn
  <1>9. Path(c) \subseteq disk
    <2>1. Parent[c] # Root
      BY <1>3 DEF TreeAssumption
    <2> QED  BY <1>3, <1>5, <1>8, <2>1, Up
  <1>10. ASSUME NEW i \in 1 .. Len(r) PROVE r[i].left \subseteq disk
    <2>1. Last(r) = r[n + 1] /\ (i = n + 1 \/ i \in 1 .. n)
      BY <1>4, <1>6, <1>7 DEF Last
    <2> QED  BY <1>1, <1>4, <1>5, <1>6, <2>1 DEF StandsOn
  <1>11. StandsOn(stack', disk')
    BY <1>1, <1>2, <1>4, <1>9, <1>10 DEF StandsOn
  <1> QED  BY <1>1, <1>2, <1>4, <1>11, Stands

\* What the server takes with the node in hand is beside all that is to be done.
LEMMA TakenStands ==
  ASSUME RemovalInv, Standing, step = "remove", stack # << >>, disk' = disk \ Taken(Top.node), how = "provider"
  PROVE  /\ Above[Top.node] \subseteq disk'
         /\ \A i \in 1 .. Len(stack) : stack[i].left \subseteq disk'
  <1>1. Top.node \in Node /\ Taken(Top.node) \subseteq In(Top.node)
    BY Innermost, TakesOfTheTree, Trees
  <1>2. Above[Top.node] \subseteq disk'
    BY <1>1, Apart DEF Standing
  <1>3. ASSUME NEW i \in 1 .. Len(stack) PROVE stack[i].left \subseteq disk'
    <2>1. PICK n : n = Len(stack)
      OBVIOUS
    <2>2. n \in Nat \ {0} /\ i \in 1 .. n /\ Top = stack[n]
      BY <2>1, Innermost
    <2>3. i = n \/ i \in 1 .. (n - 1)
      BY <2>2
    <2>4. Top.left = {}
      BY Split DEF Shape
    <2>5. stack[i].left \subseteq disk
      BY DEF Standing
    <2>6. i \in 1 .. (n - 1) => stack[i].left \cap In(Top.node) = {}
      BY <2>1, Beside
    <2> QED  BY <1>1, <2>2, <2>3, <2>4, <2>5, <2>6
  <1> QED  BY <1>2, <1>3

LEMMA ReturnStands ==
  ASSUME RemovalInv, Standing, RemoveNode, Len(stack) > 1, stack' = Front(stack)
  PROVE  Standing'
  <1>1. stack \in Seq(Frames) /\ Way(stack) /\ stack # << >> /\ UNCHANGED how
    BY Split DEF RemoveNode, Shape, fixed
  <1>2. how = "provider"
    <2>1. ~(Len(stack) <= 1)
      BY <1>1, Innermost
    <2> QED  BY <2>1, Split DEF Shape
  <1>3. /\ Above[Top.node] \subseteq disk'
        /\ \A i \in 1 .. Len(stack) : stack[i].left \subseteq disk'
    BY <1>1, <1>2, TakenStands DEF RemoveNode, Removed
  <1>4. PICK r, n : r = stack' /\ n = Len(stack) - 1
    OBVIOUS
  <1>5. /\ r \in Seq(Frames) /\ r # << >> /\ Len(r) = n /\ \A i \in 1 .. n : r[i] = stack[i]
    BY <1>1, <1>4, Returned
  <1>6. /\ n \in Nat \ {0} /\ n \in 1 .. n /\ Len(stack) = n + 1 /\ n + 1 \in 1 .. (n + 1) /\ \A i \in 1 .. n : i \in 1 .. (n + 1)
    BY <1>1, <1>4, Innermost
  <1>7. Last(r) = stack[n] /\ Top = stack[n + 1] /\ Top.node \in Node
    BY <1>1, <1>5, <1>6, Innermost DEF Last
  <1>8. Parent[stack[n + 1].node] = stack[n].node /\ stack[n].node \in Node
    BY <1>1, <1>6, Innermost DEF Way
  <1>9. Above[Top.node] = Path(Last(r).node)
    BY <1>7, <1>8, Up DEF TreeAssumption
  <1>10. StandsOn(stack', disk')
    BY <1>3, <1>4, <1>5, <1>6, <1>9 DEF StandsOn
  <1> QED  BY <1>1, <1>4, <1>5, <1>10, Stands

LEMMA StandingKept ==
  ASSUME RemovalInv, Standing, Over, [RemovalNext]_removalVars
  PROVE  Standing'
  <1>1. UNCHANGED fixed /\ UNCHANGED how
    BY StepTakes DEF fixed
  <1>2. stack \in Seq(Frames) /\ Shape /\ RemovalTypeOK
    BY Split DEF RemovalInv
  <1>3. CASE stack' = << >>
    <2>1. Len(stack') = 0
      BY <1>3
    <2> QED  BY <1>3, <2>1 DEF Standing
  <1>4. CASE SweepDone \/ ChildrenDone \/ ReadFails \/ RemoveFails \/ Cancel \/ Finish \/ UNCHANGED removalVars
              \/ (Retry /\ how = "provider")
    <2>1. UNCHANGED <<stack, disk>> /\ unheard \subseteq unheard'
      BY <1>4 DEF SweepDone, ChildrenDone, ReadFails, RemoveFails, Cancel, Finish, removalVars, Retry, CallFails, traces
    <2>2. UNCHANGED step \/ step' \in {"remove", "asking"} \/ step \notin {"remove", "asking"}
      BY <1>4 DEF SweepDone, ChildrenDone, ReadFails, RemoveFails, Cancel, Finish, removalVars, Retry, CallFails
    <2> QED  BY <1>1, <2>1, <2>2, StillStands
  <1>5. ASSUME NEW n \in Selected, Begin(n) PROVE Standing'
    <2>1. Start(n) /\ n \in disk /\ n \in Node /\ n \notin todo' /\ UNCHANGED disk /\ UNCHANGED elevatable
      BY <1>5 DEF Begin, Over, answer, Selected, Children
    <2> QED  BY <1>1, <1>2, <2>1, BeginStands DEF Shape
  <1>6. CASE Retry /\ how # "provider"
    <2>1. stack # << >> /\ Start(Top.node) /\ UNCHANGED <<disk, todo>> /\ (elevatable' => how # "provider")
      BY <1>2, <1>6 DEF Retry, Asked, Shape
    <2>2. Top = stack[1] /\ Top.node \in Selected \ todo /\ Top.node \in Node
      BY <1>2, <1>6, <2>1, Innermost DEF Shape
    <2>3. Top.node \in disk
      BY <1>6, <2>1 DEF Standing, Over
    <2> QED  BY <1>1, <2>1, <2>2, <2>3, BeginStands
  <1>7. ASSUME NEW m \in Node, SweepOne(m) \/ SweepFails(m) PROVE Standing'
    BY <1>7, SweepStands DEF SweepOne, SweepFails
  <1>8. CASE Stopped \/ Skip \/ Abort
    BY <1>2, <1>3, <1>8, PathEnded DEF Stopped, Skip, Abort
  <1>9. CASE RemoveNode \/ Elevate
    <2>1. stack # << >> /\ CallEnds
      BY <1>2, <1>9 DEF RemoveNode, Elevate, Asked, Shape
    <2>2. CASE Len(stack) > 1 /\ stack' = Front(stack)
      <3>1. how = "provider"
        <4>1. ~(Len(stack) <= 1)
          BY <2>1, <2>2, Innermost
        <4> QED  BY <1>2, <4>1 DEF Shape
      <3>2. RemoveNode
        BY <1>2, <1>9, <3>1 DEF Elevate, Shape
      <3> QED  BY <2>2, <3>2, ReturnStands
    <2> QED  BY <1>2, <1>3, <2>1, <2>2, CallEnded
  <1>10. CASE RemoveUnheard
    <2>1. /\ step = "remove" /\ stack # << >> /\ how = "provider" /\ disk' = disk \ Taken(Top.node)
          /\ UNCHANGED stack /\ Top.node \in unheard' /\ step' = "asking"
      BY <1>2, <1>10 DEF RemoveUnheard, Removed, CallFails, Shape
    <2>2. Above[Top.node] \subseteq disk' /\ \A i \in 1 .. Len(stack) : stack[i].left \subseteq disk'
      BY <2>1, TakenStands
    <2> QED  BY <2>1, <2>2 DEF Standing, Top
  <1>11. CASE ElevateFails
    <2>1. stack # << >> /\ how # "provider" /\ UNCHANGED <<stack, step>> /\ UNCHANGED unheard /\ Top.node \in Node
      BY <1>2, <1>11, Innermost DEF ElevateFails, Asked, Shape, traces
    <2>2. PICK gone \in SUBSET (Tree(Top.node) \ {Top.node}) : disk' = disk \ gone
      BY <1>11 DEF ElevateFails
    <2>3. Above[Top.node] \cap Tree(Top.node) = {}
      BY <2>1, Apart, Trees
    <2>4. Above[Top.node] \subseteq disk' /\ (Top.node \in disk => Top.node \in disk')
      BY <2>1, <2>2, <2>3 DEF Standing
    <2> QED  BY <1>1, <2>1, <2>4 DEF Standing, Top
  <1> QED  BY <1>4, <1>5, <1>6, <1>7, <1>8, <1>9, <1>10, <1>11, ReadStands, ChildStands
           DEF RemovalNext, Batch, Local, Provider, Removing, Answering

\* What the user chose to skip stays, and so does all that it is in, also where the
\* server would remove it with what it holds: a call that fails makes every call
\* around it fail, and what is taken is in another selected path (removeProviderTree()).
THEOREM SkippedIsKept == RemovalSpec => []SkippedStays
  <1>1. RemovalInit => Standing /\ Over
    <2> SUFFICES ASSUME RemovalInit PROVE Standing /\ Over
      OBVIOUS
    <2>1. Len(stack) = 0 /\ Selected \subseteq Node
      BY DEF RemovalInit, Selected, Children
    <2> QED  BY <2>1 DEF RemovalInit, Standing, Over
  <1>2. RemovalInv /\ Standing /\ Over /\ [RemovalNext]_removalVars => Standing' /\ Over'
    BY StandingKept, OverKept
  <1>3. RemovalInv /\ Over => SkippedStays
    <2> SUFFICES ASSUME RemovalInv, Over, NEW n \in passed \ unheard PROVE {n} \cup (Above[n] \cap Own) \subseteq disk
      BY DEF SkippedStays
    <2>1. n \in Node /\ Path(n) \subseteq disk
      BY Split DEF Over, Plain
    <2> QED  BY <2>1, Up
  <1> QED  BY <1>1, <1>2, <1>3, RemovalInvInductive, PTL DEF RemovalSpec

=============================================================================

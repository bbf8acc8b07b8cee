------------------------- MODULE TransferWindow_proofs -------------------------
(***************************************************************************)
(* Proofs about OperationQueue, for any jobs of any kind, any pool and any *)
(* number of entries, questions and requests; and, on top of them, about   *)
(* TransferWindow: the window's own count of the jobs, kept by the queue's *)
(* signals alone, and the promise that work does not stay unseen.          *)
(***************************************************************************)
EXTENDS TransferWindow, FiniteSetTheorems, SequenceTheorems, TLAPS

-----------------------------------------------------------------------------
(* Ranks: which job of the line a free worker gets                         *)

\* The members of a set of workers are numbered from 1 in the order of their index.
LEMMA RankFacts ==
  ASSUME NEW ws \in SUBSET Worker
  PROVE  /\ IsFiniteSet(ws) /\ Cardinality(ws) \in Nat
         /\ \A w \in ws : Rank(ws, w) \in 1 .. Cardinality(ws)
         /\ \A v, w \in ws : Rank(ws, v) = Rank(ws, w) => v = w
         /\ \A i \in 1 .. Cardinality(ws) : \E w \in ws : Rank(ws, w) = i
  <1>0. PoolCap \in Nat
    BY PoolAssumption
  <1>1. IsFiniteSet(ws) /\ Cardinality(ws) \in Nat /\ ws \subseteq Nat
    <2>1. IsFiniteSet(Worker) /\ Worker \subseteq Nat
      BY <1>0, FS_Interval DEF Worker
    <2>2. IsFiniteSet(ws)
      BY <2>1, FS_Subset
    <2> QED  BY <2>1, <2>2, FS_CardinalityType
  <1> DEFINE U(w) == {v \in ws : v <= w}
  <1>2. \A w \in ws : IsFiniteSet(U(w)) /\ Cardinality(U(w)) <= Cardinality(ws) /\ Cardinality(U(w)) \in Nat
    BY <1>1, FS_Subset, FS_CardinalityType
  <1>3. \A w \in ws : Rank(ws, w) \in 1 .. Cardinality(ws)
    <2> TAKE w \in ws
    <2>1. w \in U(w)
      BY <1>1
    <2>2. Cardinality(U(w)) # 0
      BY <1>2, <2>1, FS_EmptySet
    <2> HIDE DEF U
    <2>3. Cardinality(U(w)) \in 1 .. Cardinality(ws)
      BY <1>1, <1>2, <2>2
    <2> QED  BY <2>3 DEF Rank, U
  <1>4. ASSUME NEW v \in ws, NEW w \in ws, v < w PROVE Rank(ws, v) # Rank(ws, w)
    <2>0. v \in Nat /\ w \in Nat /\ \A u \in ws : u \in Nat
      BY <1>1
    <2>a. \A u \in ws : u <= v => u <= w
      BY <2>0, <1>4
    <2>b. w <= w /\ ~(w <= v)
      BY <2>0, <1>4
    <2>1. U(v) \subseteq U(w) /\ w \in U(w) /\ w \notin U(v)
      BY <2>a, <2>b
    <2>2. Cardinality(U(w)) # Cardinality(U(v))
      BY <1>2, <2>1, FS_Subset
    <2> QED  BY <2>2 DEF Rank
  <1>5. \A v, w \in ws : Rank(ws, v) = Rank(ws, w) => v = w
    <2> SUFFICES ASSUME NEW v \in ws, NEW w \in ws, v # w PROVE Rank(ws, v) # Rank(ws, w)
      OBVIOUS
    <2>1. v < w \/ w < v
      BY <1>1
    <2>2. CASE v < w
      BY <2>2, <1>4
    <2>3. CASE w < v
      BY <2>3, <1>4
    <2> QED  BY <2>1, <2>2, <2>3
  <1>6. \A i \in 1 .. Cardinality(ws) : \E w \in ws : Rank(ws, w) = i
    <2> DEFINE f == [w \in ws |-> Rank(ws, w)]
               I == 1 .. Cardinality(ws)
    <2>1. f \in Injection(ws, I)
      BY <1>3, <1>5 DEF Injection, IsInjective
    <2>2. IsFiniteSet(I) /\ Cardinality(I) = Cardinality(ws)
      BY <1>1, FS_Interval
    <2>3. f \in Surjection(ws, I)
      BY <2>1, <2>2, FS_Injection
    <2> QED  BY <2>3 DEF Surjection
  <1> QED  BY <1>1, <1>3, <1>5, <1>6

\* A set of workers that is not empty has a first one.
LEMMA FirstWorker ==
  ASSUME NEW ws \in SUBSET Worker, ws # {}
  PROVE  \E v \in ws : \A u \in ws : v <= u
  <1>1. IsFiniteSet(ws) /\ Cardinality(ws) \in Nat /\ Cardinality(ws) # 0
    BY RankFacts, FS_EmptySet
  <1>2. PICK v \in ws : Rank(ws, v) = 1
    <2>1. 1 \in 1 .. Cardinality(ws)
      BY <1>1
    <2>2. \A i \in 1 .. Cardinality(ws) : \E w \in ws : Rank(ws, w) = i
      BY RankFacts
    <2> QED  BY <2>1, <2>2
  <1> DEFINE U == {x \in ws : x <= v}
  <1>3. IsFiniteSet(U) /\ Cardinality(U) = 1
    BY <1>1, <1>2, FS_Subset DEF Rank
  <1>4. PICK x : U = {x}
    BY <1>3, FS_Singleton
  <1>5. \A u \in ws : u \in Int
    BY DEF Worker
  <1>6. \A u \in ws : v <= u
    <2> SUFFICES ASSUME NEW u \in ws, u < v PROVE FALSE
      BY <1>5
    <2>1. u \in U /\ v \in U
      BY <1>5
    <2> QED  BY <1>4, <1>5, <2>1
  <1> QED  BY <1>6

\* As many free workers are served as there are jobs waiting, and their ranks are
\* the places of these jobs.
LEMMA ServedFacts ==
  ASSUME NEW ws \in SUBSET Worker, NEW q, Len(q) \in Nat
  PROVE  /\ Served(ws, q) \subseteq ws /\ Cardinality(Served(ws, q)) \in 0 .. Len(q)
         /\ \A w \in Served(ws, q) : Rank(ws, w) \in 1 .. Cardinality(Served(ws, q))
         /\ \A i \in 1 .. Cardinality(Served(ws, q)) : \E w \in Served(ws, q) : Rank(ws, w) = i
         /\ Cardinality(Served(ws, q)) < Len(q) => Served(ws, q) = ws
         /\ \A v, w \in Served(ws, q) : Rank(ws, v) = Rank(ws, w) => v = w
  <1>0. PICK n \in Nat : n = Len(q)
    OBVIOUS
  <1> DEFINE T == Served(ws, q)
             c == Cardinality(ws)
             m == IF c < n THEN c ELSE n
             f == [w \in T |-> Rank(ws, w)]
  <1>1. c \in Nat /\ IsFiniteSet(ws)
    BY RankFacts
  <1>2. T \subseteq ws /\ \A w \in ws : w \in T <=> Rank(ws, w) <= n
    BY <1>0 DEF Served
  <1>3. IsFiniteSet(T)
    BY <1>1, <1>2, FS_Subset
  <1> HIDE DEF T, c
  <1>4. \A w \in ws : Rank(ws, w) \in 1 .. c
    BY RankFacts DEF c
  <1>5. \A i \in 1 .. c : \E w \in ws : Rank(ws, w) = i
    BY RankFacts DEF c
  <1>6. \A v, w \in ws : Rank(ws, v) = Rank(ws, w) => v = w
    BY RankFacts
  <1>7. m \in Nat /\ m <= n /\ m <= c
    BY <1>1
  <1>8. \A w \in T : Rank(ws, w) \in 1 .. m
    BY <1>1, <1>2, <1>4
  <1>9. \A i \in 1 .. m : \E w \in T : Rank(ws, w) = i
    BY <1>1, <1>2, <1>5, <1>7
  <1> HIDE DEF m
  <1>10. f \in Injection(T, 1 .. m) /\ f \in Surjection(T, 1 .. m)
    BY <1>2, <1>6, <1>8, <1>9 DEF Injection, IsInjective, Surjection
  <1>11. IsFiniteSet(1 .. m) /\ Cardinality(1 .. m) = m
    BY <1>7, FS_Interval
  <1>12. Cardinality(T) = m
    BY <1>3, <1>10, <1>11, FS_Injection
  <1>13. ASSUME m < n PROVE T = ws
    <2>1. m = c
      BY <1>1, <1>13 DEF m
    <2>2. \A w \in ws : Rank(ws, w) <= n
      BY <2>1, <1>1, <1>4, <1>13
    <2> QED  BY <2>2, <1>2
  <1> QED  BY <1>0, <1>2, <1>6, <1>7, <1>8, <1>9, <1>12, <1>13 DEF T

\* What StartNext() does, place by place: the first k jobs of the line q go to the
\* free workers s, the others stay in order, and no job stays beside a free worker.
HandedOutBy(ws, J, q, b, p, jb, f, s, k) ==
  /\ k \in 0 .. Len(q) /\ Len(q) \in Nat /\ s \subseteq ws
  /\ busy' = b \cup s
  /\ \A w \in s : \E i \in 1 .. k : i = Rank(ws, w) /\ job'[w] = q[i]
  /\ \A i \in 1 .. k : \E w \in s : i = Rank(ws, w) /\ job'[w] = q[i]
  /\ \A v, w \in s : Rank(ws, v) = Rank(ws, w) => v = w
  /\ \A w \in s : pc'[w] = "posted" /\ left'[w] = EntriesOf(job'[w])
  /\ \A w \in Worker : w \notin s => pc'[w] = p[w] /\ job'[w] = jb[w] /\ left'[w] = left[w]
  /\ \A j \in Job : \/ fate'[j] = "started" /\ \E i \in 1 .. k : j = q[i]
                    \/ fate'[j] = f[j] /\ ~ \E i \in 1 .. k : j = q[i]
  /\ Remainder(ws, q) = SubSeq(q, k + 1, Len(q))
  /\ Remainder(ws, q) \in Seq(J) /\ Len(Remainder(ws, q)) = Len(q) - k
  /\ \A i \in 1 .. Len(q) - k : Remainder(ws, q)[i] = q[k + i]
  /\ Remainder(ws, q) # << >> => s = ws

LEMMA Hands ==
  ASSUME NEW ws \in SUBSET Worker, NEW J, J \subseteq Job, NEW q \in Seq(J),
         NEW b, NEW p, NEW jb, NEW f, StartNext(ws, q, b, p, jb, f)
  PROVE  HandedOutBy(ws, J, q, b, p, jb, f, Served(ws, q), Cardinality(Served(ws, q)))
  <1>a. PICK s : s = Served(ws, q)
    OBVIOUS
  <1>b. PICK k : k = Cardinality(s)
    OBVIOUS
  <1>1. Len(q) \in Nat
    BY LenProperties
  <1>2. /\ s \subseteq ws /\ k \in 0 .. Len(q)
        /\ \A w \in s : Rank(ws, w) \in 1 .. k
        /\ \A i \in 1 .. k : \E w \in s : Rank(ws, w) = i
        /\ k < Len(q) => s = ws
        /\ \A v, w \in s : Rank(ws, v) = Rank(ws, w) => v = w
    <2>1. /\ Served(ws, q) \subseteq ws /\ Cardinality(Served(ws, q)) \in 0 .. Len(q)
          /\ \A w \in Served(ws, q) : Rank(ws, w) \in 1 .. Cardinality(Served(ws, q))
          /\ \A i \in 1 .. Cardinality(Served(ws, q)) : \E w \in Served(ws, q) : Rank(ws, w) = i
          /\ Cardinality(Served(ws, q)) < Len(q) => Served(ws, q) = ws
          /\ \A v, w \in Served(ws, q) : Rank(ws, v) = Rank(ws, w) => v = w
      BY <1>1, ServedFacts
    <2> QED  BY <1>a, <1>b, <2>1
  <1>3. \A w \in s : w \in Worker
    BY <1>2
  <1>4. \A w \in s : job'[w] = q[Rank(ws, w)] /\ pc'[w] = "posted" /\ left'[w] = EntriesOf(q[Rank(ws, w)])
    BY <1>3, <1>a DEF StartNext
  <1>5. \A w \in Worker : w \notin s => pc'[w] = p[w] /\ job'[w] = jb[w] /\ left'[w] = left[w]
    BY <1>a DEF StartNext
  <1>6. ASSUME NEW j \in Job
        PROVE  \/ fate'[j] = "started" /\ \E i \in 1 .. k : j = q[i]
               \/ fate'[j] = f[j] /\ ~ \E i \in 1 .. k : j = q[i]
    <2>1. fate'[j] = IF j \in {q[Rank(ws, w)] : w \in s} THEN "started" ELSE f[j]
      BY <1>a DEF StartNext
    <2>2. j \in {q[Rank(ws, w)] : w \in s} <=> \E i \in 1 .. k : j = q[i]
      BY <1>2
    <2> QED  BY <2>1, <2>2
  <1>7. Remainder(ws, q) = SubSeq(q, k + 1, Len(q))
    BY <1>a, <1>b DEF Remainder
  <1>8. /\ Remainder(ws, q) \in Seq(J) /\ Len(Remainder(ws, q)) = Len(q) - k
        /\ \A i \in 1 .. Len(q) - k : Remainder(ws, q)[i] = q[k + i]
    <2>1. k + 1 \in Int /\ Len(q) \in Int /\ \A i \in k + 1 .. Len(q) : i \in 1 .. Len(q)
      BY <1>1, <1>2
    <2>2. \A i \in k + 1 .. Len(q) : q[i] \in J
      BY <2>1, ElementOfSeq
    <2>3. /\ SubSeq(q, k + 1, Len(q)) \in Seq(J)
          /\ Len(SubSeq(q, k + 1, Len(q))) = IF k + 1 <= Len(q) THEN Len(q) - (k + 1) + 1 ELSE 0
          /\ \A i \in 1 .. Len(q) - (k + 1) + 1 : SubSeq(q, k + 1, Len(q))[i] = q[k + 1 + i - 1]
      BY <2>1, <2>2, SubSeqProperties
    <2>4. /\ Len(q) - (k + 1) + 1 = Len(q) - k
          /\ \A i \in 1 .. Len(q) - k : k + 1 + i - 1 = k + i
          /\ (IF k + 1 <= Len(q) THEN Len(q) - (k + 1) + 1 ELSE 0) = Len(q) - k
      BY <1>1, <1>2
    <2> QED  BY <1>7, <2>3, <2>4
  <1>9. Remainder(ws, q) # << >> => s = ws
    <2> SUFFICES ASSUME k = Len(q) PROVE Remainder(ws, q) = << >>
      BY <1>1, <1>2
    <2> QED  BY <1>1, <1>7, SubSeqEmpty
  <1>10. busy' = b \cup s
    BY <1>a DEF StartNext
  <1> QED  BY <1>a, <1>b, <1>1, <1>2, <1>4, <1>5, <1>6, <1>7, <1>8, <1>9, <1>10 DEF HandedOutBy

-----------------------------------------------------------------------------
(* Types                                                                   *)

Steps == {"idle", "posted", "check", "unit", "asking", "reported"}
Fates == {"new", "queued", "started", "done", "dropped"}

\* A job that is not through has entries left.
LeftInv == \A w \in Worker : pc[w] \in {"posted", "check", "unit", "asking"} => left[w] >= 1

\* A worker that is not idle has a job.
JobInv == \A w \in Worker : pc[w] # "idle" => job[w] \in Job

LEMMA EntriesTyped == ASSUME NEW j PROVE EntriesOf(j) \in 1 .. Entries
  BY EntriesAssumption DEF EntriesOf

LEMMA StartTyped ==
  ASSUME TypeOK, LeftInv,
         NEW ws \in SUBSET Worker, NEW J, J \subseteq Job, NEW q \in Seq(J),
         NEW b \in SUBSET Worker, NEW p \in [Worker -> Steps], NEW f \in [Job -> Fates],
         \A w \in Worker : p[w] = pc[w] \/ p[w] = "idle",
         StartNext(ws, q, b, p, job, f)
  PROVE  /\ busy' \subseteq Worker /\ pc' \in [Worker -> Steps] /\ job' \in [Worker -> Job \cup {NoJob}]
         /\ left' \in [Worker -> 0 .. Entries] /\ fate' \in [Job -> Fates]
         /\ Remainder(ws, q) \in Seq(J) /\ LeftInv' /\ (JobInv => JobInv')
  <1>a. PICK s : s = Served(ws, q)
    OBVIOUS
  <1>b. PICK k : k = Cardinality(s)
    OBVIOUS
  <1>1. /\ k \in 0 .. Len(q) /\ Len(q) \in Nat /\ s \subseteq ws
        /\ busy' = b \cup s
        /\ \A w \in s : \E i \in 1 .. k : i = Rank(ws, w) /\ job'[w] = q[i]
        /\ \A w \in s : pc'[w] = "posted" /\ left'[w] = EntriesOf(job'[w])
        /\ \A w \in Worker : w \notin s => pc'[w] = p[w] /\ job'[w] = job[w] /\ left'[w] = left[w]
        /\ \A j \in Job : fate'[j] = "started" \/ fate'[j] = f[j]
        /\ Remainder(ws, q) \in Seq(J)
    <2>1. HandedOutBy(ws, J, q, b, p, job, f, Served(ws, q), Cardinality(Served(ws, q)))
      BY Hands
    <2> QED  BY <1>a, <1>b, <2>1 DEF HandedOutBy
  <1>2. /\ pc' = [w \in Worker |-> pc'[w]] /\ job' = [w \in Worker |-> job'[w]]
        /\ left' = [w \in Worker |-> left'[w]] /\ fate' = [j \in Job |-> fate'[j]]
    BY DEF StartNext
  <1>3. \A w \in s : job'[w] \in Job
    <2> TAKE w \in s
    <2>1. PICK i \in 1 .. k : job'[w] = q[i]
      BY <1>1
    <2>2. i \in 1 .. Len(q)
      BY <1>1
    <2> QED  BY <2>1, <2>2, ElementOfSeq
  <1>4. \A w \in Worker : pc'[w] \in Steps /\ job'[w] \in Job \cup {NoJob}
    BY <1>1, <1>3 DEF Steps, TypeOK
  <1>5. \A w \in Worker : left'[w] \in 0 .. Entries
    <2> TAKE w \in Worker
    <2>1. CASE w \in s
      BY <1>1, <2>1, EntriesTyped, EntriesAssumption
    <2>2. CASE w \notin s
      BY <1>1, <2>2 DEF TypeOK
    <2> QED  BY <2>1, <2>2
  <1>6. \A j \in Job : fate'[j] \in Fates
    BY <1>1 DEF Fates
  <1>7. busy' \subseteq Worker
    BY <1>1
  <1>8. LeftInv'
    <2> SUFFICES ASSUME NEW w \in Worker, pc'[w] \in {"posted", "check", "unit", "asking"} PROVE left'[w] >= 1
      BY DEF LeftInv
    <2>1. CASE w \in s
      BY <1>1, <2>1, EntriesTyped
    <2>2. CASE w \notin s
      BY <1>1, <2>2 DEF LeftInv
    <2> QED  BY <2>1, <2>2
  <1>9. JobInv => JobInv'
    BY <1>1, <1>3 DEF JobInv
  <1> QED  BY <1>1, <1>2, <1>4, <1>5, <1>6, <1>7, <1>8, <1>9

\* The workers and the lines have their types.
RunTypeOK ==
  /\ localQueue \in Seq(LocalJob) /\ transferQueue \in Seq(TransferJob)
  /\ busy \subseteq Worker
  /\ pc \in [Worker -> Steps]
  /\ job \in [Worker -> Job \cup {NoJob}]
  /\ left \in [Worker -> 0..Entries]
  /\ fate \in [Job -> Fates]
  /\ LeftInv /\ JobInv

LEMMA WorkerFacts ==
  /\ 0 \in Worker /\ \A w \in Worker : w \in Int
  /\ \A n, m, b : FreeTransfer(n, m, b) \subseteq {w \in 1 .. n : w <= m}
  /\ \A b : FreeLocal(b) \in SUBSET Worker
  /\ \A n \in 0 .. PoolCap : \A m, b : FreeTransfer(n, m, b) \in SUBSET Worker
  BY PoolAssumption DEF Worker, FreeTransfer, FreeLocal

LEMMA LocalTyped ==
  ASSUME TypeOK, LeftInv, JobInv, NEW q \in Seq(LocalJob),
         NEW b \in SUBSET Worker, NEW p \in [Worker -> Steps], NEW f \in [Job -> Fates],
         \A w \in Worker : p[w] = pc[w] \/ p[w] = "idle",
         StartLocal(q, b, p, job, f)
  PROVE  RunTypeOK'
  <1>1. FreeLocal(b) \in SUBSET Worker /\ LocalJob \subseteq Job
    BY WorkerFacts DEF Job
  <1>2. /\ busy' \subseteq Worker /\ pc' \in [Worker -> Steps] /\ job' \in [Worker -> Job \cup {NoJob}]
        /\ left' \in [Worker -> 0 .. Entries] /\ fate' \in [Job -> Fates]
        /\ Remainder(FreeLocal(b), q) \in Seq(LocalJob) /\ LeftInv' /\ JobInv'
    BY <1>1, StartTyped DEF StartLocal
  <1> QED  BY <1>2 DEF StartLocal, RunTypeOK, TypeOK

LEMMA TransfersTyped ==
  ASSUME TypeOK, LeftInv, JobInv, NEW q \in Seq(TransferJob), NEW n \in 0 .. PoolCap, NEW m,
         NEW b \in SUBSET Worker, NEW p \in [Worker -> Steps], NEW f \in [Job -> Fates],
         \A w \in Worker : p[w] = pc[w] \/ p[w] = "idle",
         StartTransfers(q, n, m, b, p, job, f)
  PROVE  RunTypeOK'
  <1>1. FreeTransfer(n, m, b) \in SUBSET Worker /\ TransferJob \subseteq Job
    BY WorkerFacts DEF Job
  <1>2. /\ busy' \subseteq Worker /\ pc' \in [Worker -> Steps] /\ job' \in [Worker -> Job \cup {NoJob}]
        /\ left' \in [Worker -> 0 .. Entries] /\ fate' \in [Job -> Fates]
        /\ Remainder(FreeTransfer(n, m, b), q) \in Seq(TransferJob) /\ LeftInv' /\ JobInv'
    BY <1>1, StartTyped DEF StartTransfers
  <1> QED  BY <1>2 DEF StartTransfers, RunTypeOK, TypeOK

\* A worker that ends an entry, and its result, have their types.
LEMMA ReportTyped ==
  ASSUME TypeOK, LeftInv, NEW w \in Worker, Report(w)
  PROVE  pc' \in [Worker -> Steps] /\ events' \in Seq(Event) /\ pc'[w] = "reported"
         /\ \A v \in Worker : v # w => pc'[v] = pc[v]
  <1>1. [is |-> "done", worker |-> w] \in Event
    BY DEF Event
  <1>2. events' \in Seq(Event)
    BY <1>1, AppendProperties DEF Report, TypeOK
  <1> QED  BY <1>2 DEF Report, TypeOK, Steps

LEMMA EndEntryTyped ==
  ASSUME TypeOK, LeftInv, NEW w \in Worker, pc[w] \in {"unit", "asking"},
         EndEntry(w, TRUE) \/ EndEntry(w, FALSE)
  PROVE  /\ pc' \in [Worker -> Steps] /\ events' \in Seq(Event)
         /\ left' \in [Worker -> 0 .. Entries] /\ LeftInv'
  <1>1. left[w] \in 1 .. Entries
    BY DEF TypeOK, LeftInv
  <1>2. left' \in [Worker -> 0 .. Entries] /\ left'[w] = left[w] - 1
        /\ \A v \in Worker : v # w => left'[v] = left[v]
    <2>1. left' = [left EXCEPT ![w] = left[w] - 1]
      BY DEF EndEntry
    <2>2. left[w] - 1 \in 0 .. Entries
      BY <1>1, EntriesAssumption
    <2> QED  BY <2>1, <2>2 DEF TypeOK
  <1>3. CASE Report(w)
    <2>1. /\ pc' \in [Worker -> Steps] /\ events' \in Seq(Event) /\ pc'[w] = "reported"
          /\ \A v \in Worker : v # w => pc'[v] = pc[v]
      BY <1>3, ReportTyped
    <2> QED  BY <1>2, <2>1 DEF LeftInv
  <1>4. CASE left[w] # 1 /\ pc' = [pc EXCEPT ![w] = "check"] /\ UNCHANGED events
    <2>1. pc' \in [Worker -> Steps] /\ \A v \in Worker : v # w => pc'[v] = pc[v]
      BY <1>4 DEF TypeOK, Steps
    <2> QED  BY <1>1, <1>2, <1>4, <2>1, SMTT(30) DEF LeftInv, TypeOK
  <1> QED  BY <1>3, <1>4 DEF EndEntry

-----------------------------------------------------------------------------
(* Questions and results                                                   *)

Question == {"conflict", "error"}

Some(q, w, kinds) == \E i \in 1 .. Len(q) : q[i].worker = w /\ q[i].is \in kinds

Single(q, w, kinds) ==
  \A i, k \in 1 .. Len(q) :
    q[i].worker = w /\ q[i].is \in kinds /\ q[k].worker = w /\ q[k].is \in kinds => i = k

\* What NobodyForgotten counts, said of the places in the two queues.
Talk ==
  \A w \in Worker :
    /\ pc[w] = "asking" <=> Some(events, w, Question) \/ Some(prompts, w, Question)
    /\ ~(Some(events, w, Question) /\ Some(prompts, w, Question))
    /\ Single(events, w, Question) /\ Single(prompts, w, Question)
    /\ pc[w] = "reported" <=> Some(events, w, {"done"})
    /\ Single(events, w, {"done"})

LEMMA TopFacts ==
  ASSUME TypeOK, Talk, prompts # << >>
  PROVE  /\ Len(prompts) \in 1 .. Len(prompts)
         /\ Top \in Prompt /\ Top.worker \in Worker
         /\ Top.is \in Question => pc[Top.worker] = "asking"
         /\ CloseTop => prompts' \in Seq(Prompt)
  <1>1. Len(prompts) \in Nat \ {0}
    BY EmptySeq DEF TypeOK
  <1>2. Len(prompts) \in 1 .. Len(prompts) /\ Top \in Prompt
    BY <1>1, ElementOfSeq DEF TypeOK, Top
  <1>3. Top.worker \in Worker
    BY <1>2 DEF Prompt
  <1>4. Top.is \in Question => pc[Top.worker] = "asking"
    BY <1>2, <1>3 DEF Talk, Some, Top
  <1>5. SubSeq(prompts, 1, Len(prompts) - 1) \in Seq(Prompt)
    <2>1. \A i \in 1 .. Len(prompts) - 1 : i \in 1 .. Len(prompts)
      BY <1>1
    <2>2. \A i \in 1 .. Len(prompts) - 1 : prompts[i] \in Prompt
      BY <2>1, ElementOfSeq DEF TypeOK
    <2>3. 1 \in Int /\ Len(prompts) - 1 \in Int
      BY <1>1
    <2> QED  BY <2>2, <2>3, SubSeqProperties
  <1> QED  BY <1>2, <1>3, <1>4, <1>5 DEF CloseTop

LEMMA HeadFacts ==
  ASSUME TypeOK, events # << >>
  PROVE  Head(events) \in Event /\ Head(events).worker \in Worker /\ Tail(events) \in Seq(Event)
  <1>1. Head(events) \in Event /\ Tail(events) \in Seq(Event)
    BY HeadTailProperties DEF TypeOK
  <1> QED  BY <1>1 DEF Event

LEMMA TypeInit == Init => TypeOK /\ LeftInv /\ JobInv
  <1> SUFFICES ASSUME Init PROVE TypeOK /\ LeftInv /\ JobInv
    OBVIOUS
  <1>1. limit \in 1 .. PoolCap /\ pool \in 0 .. PoolCap /\ requests \in 0 .. MaxRequests
    BY PoolAssumption, BoundsAssumption DEF Init
  <1>2. left \in [Worker -> 0 .. Entries] /\ asks \in [Worker -> 0 .. MaxAsks]
        /\ toldLeft \in [Worker -> -1 .. Entries]
    BY EntriesAssumption, BoundsAssumption DEF Init
  <1>3. /\ localQueue \in Seq(LocalJob) /\ transferQueue \in Seq(TransferJob)
        /\ events \in Seq(Event) /\ prompts \in Seq(Prompt)
    BY EmptySeq DEF Init
  <1> QED  BY <1>1, <1>2, <1>3 DEF Init, TypeOK, LeftInv, JobInv

\* The user's requests.
LEMMA UserTyped == ASSUME TypeOK, LeftInv, JobInv, UserStep PROVE TypeOK' /\ LeftInv' /\ JobInv'
  <1> USE DEF TypeOK
  <1>1. ASSUME NEW j \in Job, EnqueueLocal(j) PROVE TypeOK' /\ LeftInv' /\ JobInv'
    <2>1. Append(localQueue, j) \in Seq(LocalJob)
      BY <1>1, AppendProperties DEF EnqueueLocal
    <2>2. [fate EXCEPT ![j] = "queued"] \in [Job -> Fates]
      BY DEF Fates
    <2>3. RunTypeOK'
      BY <1>1, <2>1, <2>2, LocalTyped DEF EnqueueLocal, Steps
    <2> QED  BY <1>1, <2>3 DEF EnqueueLocal, RunTypeOK, Steps, Fates, guiVars, flagVars, historyVars
  <1>2. ASSUME NEW j \in Job, EnqueueTransfer(j) PROVE TypeOK' /\ LeftInv' /\ JobInv'
    <2>1. Append(transferQueue, j) \in Seq(TransferJob)
      BY <1>2, AppendProperties DEF EnqueueTransfer
    <2>2. [fate EXCEPT ![j] = "queued"] \in [Job -> Fates]
      BY DEF Fates
    <2>3. pool' \in 0 .. PoolCap
      BY <1>2, PoolAssumption DEF EnqueueTransfer
    <2>4. RunTypeOK'
      BY <1>2, <2>1, <2>2, <2>3, TransfersTyped DEF EnqueueTransfer, Steps
    <2> QED  BY <1>2, <2>3, <2>4 DEF EnqueueTransfer, RunTypeOK, Steps, Fates, guiVars, flagVars, historyVars
  <1>3. ASSUME NEW n \in 0 .. PoolCap + 1, SetLimit(n) PROVE TypeOK' /\ LeftInv' /\ JobInv'
    <2>1. limit' \in 1 .. PoolCap
      BY <1>3, PoolAssumption DEF SetLimit, Clamped
    <2>2. pool' \in 0 .. PoolCap
      BY <1>3, <2>1, PoolAssumption DEF SetLimit
    <2>3. RunTypeOK'
      BY <1>3, <2>2, TransfersTyped DEF SetLimit, Steps, Fates
    <2>4. requests' \in 0 .. MaxRequests
      BY <1>3, BoundsAssumption DEF SetLimit, MayRequest
    <2> QED  BY <1>3, <2>1, <2>2, <2>3, <2>4 DEF SetLimit, RunTypeOK, Steps, Fates, guiVars, flagVars, historyVars
  <1>4. ASSUME MayRequest, requests' = requests + 1 PROVE requests' \in 0 .. MaxRequests
    BY <1>4, BoundsAssumption DEF MayRequest
  <1>5. ASSUME RequestCancel
        PROVE  /\ cancelled' \in [Worker -> BOOLEAN] /\ paused' \in [Worker -> BOOLEAN]
               /\ toldEarly' \in [Worker -> BOOLEAN] /\ toldLeft' \in [Worker -> -1 .. Entries]
               /\ skipAll' \in [Worker -> BOOLEAN] /\ skipChosen' \subseteq Job /\ silenced' \subseteq Job
    BY <1>5, EntriesAssumption DEF RequestCancel
  <1>6. CASE CancelActiveJobs
    BY <1>4, <1>5, <1>6 DEF CancelActiveJobs, LeftInv, JobInv, queueVars, poolVars, guiVars, runVars
  <1>7. CASE AbortAll
    <2>1. localQueue' \in Seq(LocalJob) /\ transferQueue' \in Seq(TransferJob)
          /\ fate' \in [Job -> {"new", "queued", "started", "done", "dropped"}]
      BY <1>7, EmptySeq DEF AbortAll, DropQueued
    <2> QED  BY <1>4, <1>5, <1>7, <2>1 DEF AbortAll, LeftInv, JobInv, poolVars, guiVars, runVars
  <1>8. ASSUME NEW on \in BOOLEAN, SetPaused(on) PROVE TypeOK' /\ LeftInv' /\ JobInv'
    BY <1>4, <1>8 DEF SetPaused, LeftInv, JobInv, queueVars, poolVars, guiVars, runVars, historyVars
  <1>9. CASE CloseWindow
    BY <1>9 DEF CloseWindow, LeftInv, JobInv, queueVars, poolVars, runVars, flagVars, historyVars
  <1> QED  BY <1>1, <1>2, <1>3, <1>6, <1>7, <1>8, <1>9 DEF UserStep, PauseCurrent, ResumeCurrent

LEMMA WorkerTyped ==
  ASSUME TypeOK, LeftInv, JobInv, NEW w \in Worker, WorkerStep(w) PROVE TypeOK' /\ LeftInv'
  <1> USE DEF TypeOK
  <1>1. CASE Begin(w)
    <2>1. /\ pc' \in [Worker -> Steps] /\ pc'[w] \in {"check", "unit"}
          /\ \A v \in Worker : v # w => pc'[v] = pc[v]
      BY <1>1 DEF Begin, Steps
    <2>2. asks' \in [Worker -> 0 .. MaxAsks]
      BY <1>1, BoundsAssumption DEF Begin
    <2>3. cancelled' \in [Worker -> BOOLEAN]
      BY <1>1 DEF Begin, ClearsCancel
    <2>4. skipAll' \in [Worker -> BOOLEAN]
      BY <1>1 DEF Begin, ClearsSkipAll
    <2>5. LeftInv'
      BY <1>1, <2>1 DEF Begin, LeftInv
    <2> QED
      BY <1>1, <2>1, <2>2, <2>3, <2>4, <2>5 DEF Begin, Steps, queueVars, poolVars, guiVars, historyVars
  <1>2. CASE Checkpoint(w)
    <2>1. CASE Report(w)
      <3>1. /\ pc' \in [Worker -> Steps] /\ events' \in Seq(Event) /\ pc'[w] = "reported"
            /\ \A v \in Worker : v # w => pc'[v] = pc[v]
        BY <2>1, ReportTyped
      <3> QED
        BY <1>2, <3>1 DEF Checkpoint, LeftInv, JobInv, Steps, queueVars, poolVars, flagVars, historyVars
    <2>2. CASE pc' = [pc EXCEPT ![w] = "unit"] /\ UNCHANGED events
      <3>1. /\ pc' \in [Worker -> Steps] /\ \A v \in Worker : v # w => pc'[v] = pc[v]
        BY <2>2 DEF Steps
      <3> QED
        BY <1>2, <2>2, <3>1 DEF Checkpoint, LeftInv, JobInv, Steps, queueVars, poolVars, flagVars, historyVars
    <2> QED  BY <1>2, <2>1, <2>2 DEF Checkpoint
  <1>3. CASE EntryDone(w)
    <2>1. /\ pc' \in [Worker -> Steps] /\ events' \in Seq(Event)
          /\ left' \in [Worker -> 0 .. Entries] /\ LeftInv'
      <3>1. pc[w] \in {"unit", "asking"} /\ EndEntry(w, TRUE)
        BY <1>3 DEF EntryDone
      <3> QED  BY <3>1, EndEntryTyped
    <2> QED  BY <1>3, <2>1 DEF EntryDone, Steps, queueVars, poolVars, historyVars
  <1>4. CASE Interrupted(w)
    <2>1. /\ pc' \in [Worker -> Steps] /\ events' \in Seq(Event) /\ pc'[w] = "reported"
          /\ \A v \in Worker : v # w => pc'[v] = pc[v]
      BY <1>4, ReportTyped DEF Interrupted
    <2> QED
      BY <1>4, <2>1 DEF Interrupted, LeftInv, JobInv, Steps, queueVars, poolVars, flagVars, historyVars
  <1>5. ASSUME NEW question \in Question, Ask(w, question) PROVE TypeOK' /\ LeftInv'
    <2>1. [is |-> question, worker |-> w] \in Event
      BY DEF Event, Question
    <2>2. events' \in Seq(Event)
      BY <1>5, <2>1, AppendProperties DEF Ask
    <2>3. /\ pc' \in [Worker -> Steps] /\ pc[w] = "unit"
          /\ \A v \in Worker : v # w => pc'[v] = pc[v]
      BY <1>5 DEF Ask, Steps
    <2>4. asks' \in [Worker -> 0 .. MaxAsks]
      BY <1>5, BoundsAssumption, SMTT(30) DEF Ask
    <2>5. LeftInv'
      BY <1>5, <2>3 DEF Ask, LeftInv
    <2> QED
      BY <1>5, <2>2, <2>3, <2>4, <2>5 DEF Ask, Steps, queueVars, poolVars, flagVars, historyVars
  <1>6. CASE ErrorSilenced(w)
    <2>1. /\ pc' \in [Worker -> Steps] /\ events' \in Seq(Event)
          /\ left' \in [Worker -> 0 .. Entries] /\ LeftInv'
      <3>1. pc[w] \in {"unit", "asking"} /\ EndEntry(w, FALSE)
        BY <1>6 DEF ErrorSilenced
      <3> QED  BY <3>1, EndEntryTyped
    <2>2. silenced' \subseteq Job
      BY <1>6 DEF ErrorSilenced, JobInv
    <2> QED  BY <1>6, <2>1, <2>2 DEF ErrorSilenced, Steps, queueVars, poolVars
  <1> QED
    BY <1>1, <1>2, <1>3, <1>4, <1>5, <1>6 DEF WorkerStep, AskConflict, AskError, Question

LEMMA AnswerTyped ==
  ASSUME TypeOK, LeftInv, JobInv, Talk, Answer PROVE TypeOK' /\ LeftInv'
  <1> USE DEF TypeOK
  <1>0. PICK w \in Worker : /\ w = Top.worker /\ pc[w] = "asking" /\ CloseTop /\ prompts' \in Seq(Prompt)
                            /\ UNCHANGED <<gui, joined>> /\ abortRequested' \in BOOLEAN
    BY TopFacts DEF Question, Answer, AnswerGoOn, AnswerSkip, AnswerSkipAll, AnswerCancel, AnswerAbort, AnswerTo, CloseTop
  <1>1. CASE AnswerGoOn
    <2>1. /\ pc' \in [Worker -> Steps] /\ \A v \in Worker : v # w => pc'[v] = pc[v]
      BY <1>0, <1>1 DEF AnswerGoOn, Steps
    <2>2. LeftInv'
      BY <1>0, <1>1, <2>1 DEF AnswerGoOn, LeftInv
    <2> QED  BY <1>0, <1>1, <2>1, <2>2 DEF AnswerGoOn, Steps, queueVars, poolVars, flagVars, historyVars
  <1>2. ASSUME EndEntry(w, FALSE)
        PROVE  /\ pc' \in [Worker -> Steps] /\ events' \in Seq(Event)
               /\ left' \in [Worker -> 0 .. Entries] /\ LeftInv'
    <2>1. pc[w] \in {"unit", "asking"}
      BY <1>0
    <2> QED  BY <1>2, <2>1, EndEntryTyped
  <1>3. CASE AnswerSkip
    BY <1>0, <1>2, <1>3 DEF AnswerSkip, Steps, queueVars, poolVars, historyVars
  <1>4. CASE AnswerSkipAll
    <2>1. skipAll' \in [Worker -> BOOLEAN]
      BY <1>4 DEF AnswerSkipAll
    <2>2. skipChosen' \subseteq Job
      BY <1>0, <1>4 DEF AnswerSkipAll, JobInv
    <2> QED  BY <1>0, <1>2, <1>4, <2>1, <2>2 DEF AnswerSkipAll, Steps, queueVars, poolVars
  <1>5. CASE AnswerCancel
    <2>1. cancelled' \in [Worker -> BOOLEAN]
      BY <1>5 DEF AnswerCancel
    <2> QED  BY <1>0, <1>2, <1>5, <2>1 DEF AnswerCancel, Steps, queueVars, poolVars, historyVars
  <1>6. CASE AnswerAbort
    <2>1. localQueue' \in Seq(LocalJob) /\ transferQueue' \in Seq(TransferJob)
          /\ fate' \in [Job -> {"new", "queued", "started", "done", "dropped"}]
      BY <1>6, EmptySeq DEF AnswerAbort, DropQueued
    <2>2. /\ cancelled' \in [Worker -> BOOLEAN] /\ paused' \in [Worker -> BOOLEAN]
          /\ toldEarly' \in [Worker -> BOOLEAN] /\ toldLeft' \in [Worker -> -1 .. Entries]
          /\ skipAll' \in [Worker -> BOOLEAN] /\ skipChosen' \subseteq Job /\ silenced' \subseteq Job
      BY <1>6, EntriesAssumption DEF AnswerAbort, RequestCancel
    <2> QED  BY <1>0, <1>2, <1>6, <2>1, <2>2 DEF AnswerAbort, Steps, poolVars
  <1> QED  BY <1>1, <1>3, <1>4, <1>5, <1>6 DEF Answer

LEMMA LoopTyped ==
  ASSUME TypeOK, LeftInv, JobInv, Talk,
         HandleDone \/ HandleDoneWarned \/ DismissWarning \/ HandleAsk \/ Join \/ JoinDone
  PROVE  TypeOK' /\ LeftInv' /\ JobInv'
  <1> USE DEF TypeOK
  <1>1. CASE HandleDone
    <2> DEFINE w == Head(events).worker
    <2>1. w \in Worker /\ events' \in Seq(Event)
      BY <1>1, HeadFacts DEF HandleDone, Posted
    <2>2. /\ [pc EXCEPT ![w] = "idle"] \in [Worker -> Steps]
          /\ [fate EXCEPT ![job[w]] = "done"] \in [Job -> Fates]
          /\ busy \ {w} \in SUBSET Worker
      BY DEF Steps, Fates
    <2>3. \A v \in Worker : [pc EXCEPT ![w] = "idle"][v] = pc[v] \/ [pc EXCEPT ![w] = "idle"][v] = "idle"
      BY <2>1
    <2>4. RunTypeOK'
      <3>1. CASE w = 0
        BY <1>1, <2>1, <2>2, <2>3, <3>1, LocalTyped DEF HandleDone
      <3>2. CASE w # 0
        BY <1>1, <2>1, <2>2, <2>3, <3>2, TransfersTyped DEF HandleDone
      <3> QED  BY <3>1, <3>2
    <2>5. toldEarly' \in [Worker -> BOOLEAN] /\ toldLeft' \in [Worker -> -1 .. Entries]
      <3>1. -1 \in -1 .. Entries
        BY EntriesAssumption
      <3> QED  BY <1>1, <3>1 DEF HandleDone
    <2>6. abortRequested' \in BOOLEAN
      BY <1>1 DEF HandleDone, FinishedSlot
    <2> QED  BY <1>1, <2>1, <2>4, <2>5, <2>6 DEF HandleDone, RunTypeOK, Steps, Fates, poolVars, flagVars
  <1>5. CASE HandleDoneWarned
    <2> DEFINE w == Head(events).worker
    <2>1. w \in Worker /\ events' \in Seq(Event)
      BY <1>5, HeadFacts DEF HandleDoneWarned, Posted
    <2>2. [is |-> "warning", worker |-> w] \in Prompt
      BY <2>1 DEF Prompt
    <2>3. prompts' \in Seq(Prompt)
      BY <1>5, <2>2, AppendProperties DEF HandleDoneWarned
    <2>4. pc' = [pc EXCEPT ![w] = "idle"] /\ LeftInv' /\ JobInv'
      BY <1>5, <2>1 DEF HandleDoneWarned, LeftInv, JobInv
    <2>5. toldEarly' \in [Worker -> BOOLEAN] /\ toldLeft' \in [Worker -> -1 .. Entries]
      <3>1. -1 \in -1 .. Entries
        BY EntriesAssumption
      <3> QED  BY <1>5, <3>1 DEF HandleDoneWarned
    <2> QED  BY <1>5, <2>1, <2>3, <2>4, <2>5 DEF HandleDoneWarned, queueVars, poolVars, flagVars
  <1>6. CASE DismissWarning
    <2>1. Top.worker \in Worker /\ prompts' \in Seq(Prompt) /\ UNCHANGED <<gui, joined>>
      BY <1>6, TopFacts DEF DismissWarning, AnswerTo, CloseTop
    <2>2. pc \in [Worker -> Steps] /\ fate \in [Job -> Fates]
      BY DEF Steps, Fates
    <2>3. RunTypeOK'
      <3>1. CASE Top.worker = 0
        BY <1>6, <2>2, <3>1, LocalTyped DEF DismissWarning
      <3>2. CASE Top.worker # 0
        BY <1>6, <2>2, <3>2, TransfersTyped DEF DismissWarning
      <3> QED  BY <3>1, <3>2
    <2> QED  BY <1>6, <2>1, <2>3 DEF DismissWarning, RunTypeOK, Steps, Fates, poolVars, flagVars, historyVars
  <1>2. CASE HandleAsk
    <2>1. Head(events) \in Event /\ events' \in Seq(Event)
      BY <1>2, HeadFacts DEF HandleAsk, Posted
    <2>2. prompts' \in Seq(Prompt)
      <3>1. Head(events) \in Prompt
        BY <1>2, <2>1 DEF HandleAsk, Posted, Event, Prompt
      <3> QED  BY <1>2, <3>1, AppendProperties DEF HandleAsk
    <2> QED
      BY <1>2, <2>1, <2>2
      DEF HandleAsk, LeftInv, JobInv, queueVars, poolVars, runVars, flagVars, historyVars
  <1>3. CASE Join
    <2>1. joined' \subseteq Worker
      <3>1. Unjoined \subseteq Worker
        BY PoolAssumption, SMTT(30) DEF Unjoined, Created, Worker
      <3>2. \E v \in Unjoined : \A u \in Unjoined : v <= u
        <4>1. Unjoined # {}
          BY <1>3 DEF Join
        <4> QED  BY <3>1, <4>1, FirstWorker
      <3>3. (CHOOSE v \in Unjoined : \A u \in Unjoined : v <= u) \in Worker
        BY <3>1, <3>2
      <3> QED  BY <1>3, <3>3 DEF Join
    <2> QED
      BY <1>3, <2>1 DEF Join, LeftInv, JobInv, queueVars, poolVars, runVars, flagVars, historyVars
  <1>4. CASE JoinDone
    BY <1>4 DEF JoinDone, LeftInv, JobInv, queueVars, poolVars, runVars, flagVars, historyVars
  <1> QED  BY <1>1, <1>2, <1>3, <1>4, <1>5, <1>6

-----------------------------------------------------------------------------
(* How the steps move the workers                                          *)

\* The busy flags tell which workers are at work on a job.
BusyWorks == \A w \in Worker : w \in busy <=> pc[w] # "idle"

\* The free workers that get a job were idle, and now wait to begin it.
LEMMA StartMoves ==
  ASSUME NEW ws \in SUBSET Worker, NEW J, J \subseteq Job, NEW q \in Seq(J),
         NEW b, NEW p, NEW jb, NEW f, StartNext(ws, q, b, p, jb, f),
         ws \cap b = {}, \A w \in Worker : w \in b <=> p[w] # "idle"
  PROVE  /\ BusyWorks'
         /\ \A w \in Worker : pc'[w] = p[w] \/ (p[w] = "idle" /\ pc'[w] = "posted")
  <1>1. HandedOutBy(ws, J, q, b, p, jb, f, Served(ws, q), Cardinality(Served(ws, q)))
    BY Hands
  <1>2. PICK s \in SUBSET ws : /\ busy' = b \cup s /\ \A w \in s : pc'[w] = "posted"
                               /\ \A w \in Worker : w \notin s => pc'[w] = p[w]
    BY <1>1, ZenonT(60) DEF HandedOutBy
  <1> QED  BY <1>2 DEF BusyWorks

LEMMA FreeIsIdle ==
  /\ \A b : FreeLocal(b) \cap b = {}
  /\ \A n, m, b : FreeTransfer(n, m, b) \cap b = {}
  BY DEF FreeLocal, FreeTransfer

\* What a step of worker w itself does to what the queue sees of it.
WorkerMove(w) ==
  /\ pc[w] \in {"posted", "check", "unit"}
  /\ \A v \in Worker : v # w => pc'[v] = pc[v]
  /\ UNCHANGED <<busy, job, fate, prompts, gui, limit, pool, localStarted, localQueue, transferQueue>>
  /\ \/ pc'[w] \in {"check", "unit"} /\ events' = events
     \/ pc'[w] = "asking" /\ \E question \in Question : events' = Append(events, [is |-> question, worker |-> w])
     \/ pc'[w] = "reported" /\ events' = Append(events, [is |-> "done", worker |-> w])

\* What the end of an entry does, whether the worker or an answer brings it about.
LEMMA EndEntryMoves ==
  ASSUME TypeOK, NEW w \in Worker, EndEntry(w, TRUE) \/ EndEntry(w, FALSE)
  PROVE  /\ \A v \in Worker : v # w => pc'[v] = pc[v]
         /\ \/ pc'[w] = "check" /\ events' = events
            \/ pc'[w] = "reported" /\ events' = Append(events, [is |-> "done", worker |-> w])
  <1>1. CASE Report(w)
    BY <1>1 DEF Report, TypeOK
  <1>2. CASE pc' = [pc EXCEPT ![w] = "check"] /\ UNCHANGED events
    BY <1>2 DEF TypeOK
  <1> QED  BY <1>1, <1>2 DEF EndEntry

LEMMA WorkerMoves ==
  ASSUME TypeOK, NEW w \in Worker, WorkerStep(w) PROVE WorkerMove(w)
  <1> USE DEF queueVars, poolVars, guiVars
  <1>1. CASE Begin(w)
    BY <1>1 DEF Begin, WorkerMove, TypeOK
  <1>2. CASE Checkpoint(w)
    BY <1>2 DEF Checkpoint, Report, WorkerMove, TypeOK
  <1>3. CASE EntryDone(w)
    <2>1. EndEntry(w, TRUE)
      BY <1>3 DEF EntryDone
    <2> QED  BY <1>3, <2>1, EndEntryMoves DEF EntryDone, WorkerMove
  <1>4. CASE Interrupted(w)
    BY <1>4 DEF Interrupted, Report, WorkerMove, TypeOK
  <1>5. ASSUME NEW question \in Question, Ask(w, question) PROVE WorkerMove(w)
    BY <1>5 DEF Ask, WorkerMove, TypeOK
  <1>6. CASE ErrorSilenced(w)
    <2>1. EndEntry(w, FALSE)
      BY <1>6 DEF ErrorSilenced
    <2> QED  BY <1>6, <2>1, EndEntryMoves DEF ErrorSilenced, WorkerMove
  <1> QED
    BY <1>1, <1>2, <1>3, <1>4, <1>5, <1>6 DEF WorkerStep, AskConflict, AskError, Question

\* What an answer does to the worker that asked.
AnswerMove(w) ==
  /\ prompts # << >> /\ w = Top.worker /\ Top.is \in Question /\ pc[w] = "asking"
  /\ prompts' = SubSeq(prompts, 1, Len(prompts) - 1)
  /\ \A v \in Worker : v # w => pc'[v] = pc[v]
  /\ UNCHANGED <<busy, job, gui, limit, pool, localStarted>>
  /\ UNCHANGED <<localQueue, transferQueue, fate>> \/ DropQueued
  /\ \/ pc'[w] \in {"check", "unit"} /\ events' = events
     \/ pc'[w] = "reported" /\ events' = Append(events, [is |-> "done", worker |-> w])

LEMMA AnswerMoves ==
  ASSUME TypeOK, Talk, Answer PROVE \E w \in Worker : AnswerMove(w)
  <1> USE DEF queueVars, poolVars
  <1>0. PICK w \in Worker : /\ w = Top.worker /\ Top.is \in Question /\ pc[w] = "asking"
                            /\ CloseTop /\ prompts # << >>
    BY TopFacts DEF Question, Answer, AnswerGoOn, AnswerSkip, AnswerSkipAll, AnswerCancel, AnswerAbort, AnswerTo
  <1>1. CASE AnswerGoOn
    <2>1. pc'[w] = "unit" /\ \A v \in Worker : v # w => pc'[v] = pc[v]
      BY <1>0, <1>1 DEF AnswerGoOn, TypeOK
    <2> QED  BY <1>0, <1>1, <2>1 DEF AnswerGoOn, AnswerMove, CloseTop
  <1>2. CASE EndEntry(w, FALSE)
    <2>1. /\ \A v \in Worker : v # w => pc'[v] = pc[v]
          /\ \/ pc'[w] = "check" /\ events' = events
             \/ pc'[w] = "reported" /\ events' = Append(events, [is |-> "done", worker |-> w])
      BY <1>2, EndEntryMoves
    <2>2. CASE AnswerSkip
      BY <1>0, <2>1, <2>2 DEF AnswerSkip, AnswerMove, CloseTop
    <2>3. CASE AnswerSkipAll
      BY <1>0, <2>1, <2>3 DEF AnswerSkipAll, AnswerMove, CloseTop
    <2>4. CASE AnswerCancel
      BY <1>0, <2>1, <2>4 DEF AnswerCancel, AnswerMove, CloseTop
    <2>5. CASE AnswerAbort
      BY <1>0, <2>1, <2>5 DEF AnswerAbort, AnswerMove, CloseTop
    <2>6. CASE AnswerGoOn
      BY <1>1, <2>6
    <2> QED  BY <2>2, <2>3, <2>4, <2>5, <2>6 DEF Answer
  <1>3. AnswerGoOn \/ EndEntry(w, FALSE)
    BY <1>0 DEF Answer, AnswerSkip, AnswerSkipAll, AnswerCancel, AnswerAbort
  <1> QED  BY <1>1, <1>2, <1>3

-----------------------------------------------------------------------------
(* No worker is forgotten                                                  *)

Fits(e, w, kinds) == e.worker = w /\ e.is \in kinds

\* r holds what q holds, and e besides.
Gains(q, r, e) ==
  \A w \in Worker, kinds \in {Question, {"done"}} :
    /\ Some(r, w, kinds) <=> Some(q, w, kinds) \/ Fits(e, w, kinds)
    /\ Single(r, w, kinds) <=> Single(q, w, kinds) /\ ~(Some(q, w, kinds) /\ Fits(e, w, kinds))

LEMMA AppendGains ==
  ASSUME NEW S, NEW q \in Seq(S), NEW e \in S PROVE Gains(q, Append(q, e), e)
  <1> DEFINE r == Append(q, e)
             n == Len(q)
  <1>1. n \in Nat /\ Len(r) = n + 1 /\ r[n + 1] = e /\ \A i \in 1 .. n : r[i] = q[i]
    BY AppendProperties, LenProperties
  <1> HIDE DEF r
  <1>2. 1 .. Len(r) = 1 .. n \cup {n + 1} /\ n + 1 \notin 1 .. n
    BY <1>1
  <1>3. \A w \in Worker, kinds \in {Question, {"done"}} : Some(r, w, kinds) <=> Some(q, w, kinds) \/ Fits(e, w, kinds)
    BY <1>1, <1>2 DEF Some, Fits
  <1>4. \A w \in Worker, kinds \in {Question, {"done"}} :
          Single(r, w, kinds) <=> Single(q, w, kinds) /\ ~(Some(q, w, kinds) /\ Fits(e, w, kinds))
    BY <1>1, <1>2 DEF Single, Some, Fits
  <1> QED  BY <1>3, <1>4 DEF Gains, r

LEMMA FrontGains ==
  ASSUME NEW S, NEW q \in Seq(S), q # << >>
  PROVE  Gains(SubSeq(q, 1, Len(q) - 1), q, q[Len(q)])
  <1> DEFINE r == SubSeq(q, 1, Len(q) - 1)
  <1>1. PICK n \in Nat \ {0} : n = Len(q)
    BY EmptySeq, LenProperties
  <1>2. Len(r) = n - 1 /\ \A i \in 1 .. n - 1 : r[i] = q[i]
    <2>1. 1 \in Int /\ n - 1 \in Int /\ (\A i \in 1 .. n - 1 : q[i] \in S) /\ r = SubSeq(q, 1, n - 1)
      BY <1>1, ElementOfSeq
    <2>2. /\ Len(r) = IF 1 <= n - 1 THEN (n - 1) - 1 + 1 ELSE 0
          /\ \A i \in 1 .. (n - 1) - 1 + 1 : r[i] = q[1 + i - 1]
      BY <2>1, SubSeqProperties
    <2>3. /\ (n - 1) - 1 + 1 = n - 1 /\ \A i \in 1 .. n - 1 : 1 + i - 1 = i
          /\ (IF 1 <= n - 1 THEN (n - 1) - 1 + 1 ELSE 0) = n - 1
      OBVIOUS
    <2> QED  BY <2>2, <2>3
  <1> HIDE DEF r
  <1>3. 1 .. n = 1 .. Len(r) \cup {n} /\ n \notin 1 .. Len(r)
    BY <1>1, <1>2
  <1>4. \A w \in Worker, kinds \in {Question, {"done"}} : Some(q, w, kinds) <=> Some(r, w, kinds) \/ Fits(q[n], w, kinds)
    BY <1>1, <1>2, <1>3 DEF Some, Fits
  <1>5. \A w \in Worker, kinds \in {Question, {"done"}} :
          Single(q, w, kinds) <=> Single(r, w, kinds) /\ ~(Some(r, w, kinds) /\ Fits(q[n], w, kinds))
    BY <1>1, <1>2, <1>3, SMTT(30) DEF Single, Some, Fits
  <1> QED  BY <1>1, <1>4, <1>5 DEF Gains, r

LEMMA TailGains ==
  ASSUME NEW S, NEW q \in Seq(S), q # << >> PROVE Gains(Tail(q), q, Head(q))
  <1> DEFINE r == Tail(q)
             n == Len(r)
  <1>1. /\ n \in Nat /\ Len(q) = n + 1 /\ Head(q) = q[1]
        /\ \A i \in 1 .. n : r[i] = q[i + 1]
    BY HeadTailProperties, LenProperties
  <1> HIDE DEF r
  <1>2. /\ \A i \in 1 .. Len(q) : i = 1 \/ \E k \in 1 .. n : i = k + 1
        /\ \A k \in 1 .. n : k + 1 \in 1 .. Len(q) /\ k + 1 # 1
        /\ 1 \in 1 .. Len(q)
    <2>1. ASSUME NEW i \in 1 .. Len(q), i # 1 PROVE \E k \in 1 .. n : i = k + 1
      <3>1. i - 1 \in 1 .. n /\ i = (i - 1) + 1
        BY <1>1, <2>1
      <3> QED  BY <3>1
    <2> QED  BY <1>1, <2>1
  <1>3. ASSUME NEW w \in Worker, NEW kinds \in {Question, {"done"}}
        PROVE  /\ Some(q, w, kinds) <=> Some(r, w, kinds) \/ Fits(q[1], w, kinds)
               /\ Single(q, w, kinds) <=> Single(r, w, kinds) /\ ~(Some(r, w, kinds) /\ Fits(q[1], w, kinds))
    <2> DEFINE M(i) == q[i].worker = w /\ q[i].is \in kinds
    <2>1. \A i \in 1 .. n : (r[i].worker = w /\ r[i].is \in kinds) <=> M(i + 1)
      BY <1>1
    <2>2. Single(q, w, kinds) <=> \A i, k \in 1 .. Len(q) : M(i) /\ M(k) => i = k
      BY DEF Single
    <2>3. Single(r, w, kinds) <=> \A i, k \in 1 .. n : M(i + 1) /\ M(k + 1) => i = k
      BY <2>1 DEF Single
    <2>4. Some(r, w, kinds) <=> \E i \in 1 .. n : M(i + 1)
      BY <2>1 DEF Some
    <2>5. Some(q, w, kinds) <=> \E i \in 1 .. Len(q) : M(i)
      BY DEF Some
    <2>6. Fits(q[1], w, kinds) <=> M(1)
      BY DEF Fits
    <2> HIDE DEF M
    <2>7. (\E i \in 1 .. Len(q) : M(i)) <=> (\E i \in 1 .. n : M(i + 1)) \/ M(1)
      BY <1>2
    <2>8. ASSUME \A i, k \in 1 .. Len(q) : M(i) /\ M(k) => i = k
          PROVE  /\ \A i, k \in 1 .. n : M(i + 1) /\ M(k + 1) => i = k
                 /\ ~((\E i \in 1 .. n : M(i + 1)) /\ M(1))
      BY <1>1, <1>2, <2>8
    <2>9. ASSUME \A i, k \in 1 .. n : M(i + 1) /\ M(k + 1) => i = k,
                 ~((\E i \in 1 .. n : M(i + 1)) /\ M(1)),
                 NEW i \in 1 .. Len(q), NEW k \in 1 .. Len(q), M(i), M(k)
          PROVE  i = k
      BY <1>2, <2>9
    <2> QED  BY <2>2, <2>3, <2>4, <2>5, <2>6, <2>7, <2>8, <2>9
  <1> QED  BY <1>1, <1>3 DEF Gains, r

\* Every worker that begins, ends or is answered keeps its own account straight.
LEMMA TalkWorker == ASSUME TypeOK, Talk, NEW w \in Worker, WorkerMove(w) PROVE Talk'
  <1>0. events \in Seq(Event) /\ "done" \notin Question
    BY DEF TypeOK, Question
  <1>2. ~Some(events, w, Question) /\ ~Some(prompts, w, Question) /\ ~Some(events, w, {"done"})
    BY DEF Talk, WorkerMove
  <1>3. CASE pc'[w] \in {"check", "unit"} /\ events' = events
    BY <1>3 DEF Talk, WorkerMove
  <1>4. ASSUME pc'[w] = "asking", NEW question \in Question,
               events' = Append(events, [is |-> question, worker |-> w])
        PROVE  Talk'
    <2>1. [is |-> question, worker |-> w] \in Event
      BY DEF Event, Question
    <2>2. Gains(events, events', [is |-> question, worker |-> w])
      BY <1>0, <1>4, <2>1, AppendGains
    <2>3. ASSUME NEW v \in Worker
          PROVE  /\ pc'[v] = "asking" <=> v = w \/ pc[v] = "asking"
                 /\ pc'[v] = "reported" <=> pc[v] = "reported"
                 /\ Some(events', v, Question) <=> v = w \/ Some(events, v, Question)
                 /\ Some(events', v, {"done"}) <=> Some(events, v, {"done"})
                 /\ Single(events', v, Question) <=> Single(events, v, Question) /\ ~(Some(events, v, Question) /\ v = w)
                 /\ Single(events', v, {"done"}) <=> Single(events, v, {"done"})
      BY <1>0, <1>4, <2>2 DEF Gains, Fits, WorkerMove
    <2>4. prompts' = prompts
      BY DEF WorkerMove
    <2> QED  BY <1>2, <2>3, <2>4 DEF Talk
  <1>5. CASE pc'[w] = "reported" /\ events' = Append(events, [is |-> "done", worker |-> w])
    <2>1. [is |-> "done", worker |-> w] \in Event
      BY DEF Event
    <2>2. Gains(events, events', [is |-> "done", worker |-> w])
      BY <1>0, <1>5, <2>1, AppendGains
    <2>3. ASSUME NEW v \in Worker
          PROVE  /\ pc'[v] = "asking" <=> pc[v] = "asking"
                 /\ pc'[v] = "reported" <=> v = w \/ pc[v] = "reported"
                 /\ Some(events', v, Question) <=> Some(events, v, Question)
                 /\ Some(events', v, {"done"}) <=> v = w \/ Some(events, v, {"done"})
                 /\ Single(events', v, Question) <=> Single(events, v, Question)
                 /\ Single(events', v, {"done"}) <=> Single(events, v, {"done"}) /\ ~(Some(events, v, {"done"}) /\ v = w)
      BY <1>0, <1>5, <2>2 DEF Gains, Fits, WorkerMove
    <2>4. prompts' = prompts
      BY DEF WorkerMove
    <2> QED  BY <1>2, <2>3, <2>4 DEF Talk
  <1> QED  BY <1>3, <1>4, <1>5 DEF WorkerMove

LEMMA TalkAnswer == ASSUME TypeOK, Talk, NEW w \in Worker, AnswerMove(w) PROVE Talk'
  <1>0. events \in Seq(Event) /\ prompts \in Seq(Prompt) /\ "done" \notin Question
    BY DEF TypeOK, Question
  <1>1. /\ Gains(prompts', prompts, Top) /\ Top.worker = w /\ Top.is \in Question
    BY <1>0, FrontGains, TopFacts DEF AnswerMove, Top
  <1>3. ASSUME NEW v \in Worker
        PROVE  /\ Some(prompts, v, Question) <=> v = w \/ Some(prompts', v, Question)
               /\ Single(prompts, v, Question) <=> Single(prompts', v, Question) /\ ~(Some(prompts', v, Question) /\ v = w)
    BY <1>0, <1>1 DEF Gains, Fits
  <1>4. pc[w] = "asking" /\ ~Some(events, w, {"done"}) /\ ~Some(events, w, Question)
        /\ Single(prompts, w, Question) /\ ~Some(prompts', w, Question)
    BY <1>3 DEF AnswerMove, Talk
  <1>5. CASE pc'[w] \in {"check", "unit"} /\ events' = events
    <2>1. ASSUME NEW v \in Worker
          PROVE  /\ pc'[v] = "asking" <=> v # w /\ pc[v] = "asking"
                 /\ pc'[v] = "reported" <=> pc[v] = "reported"
      BY <1>4, <1>5 DEF AnswerMove
    <2> QED  BY <1>3, <1>4, <1>5, <2>1 DEF Talk
  <1>6. CASE pc'[w] = "reported" /\ events' = Append(events, [is |-> "done", worker |-> w])
    <2>1. [is |-> "done", worker |-> w] \in Event
      BY DEF Event
    <2>2. Gains(events, events', [is |-> "done", worker |-> w])
      BY <1>0, <1>6, <2>1, AppendGains
    <2>3. ASSUME NEW v \in Worker
          PROVE  /\ pc'[v] = "asking" <=> v # w /\ pc[v] = "asking"
                 /\ pc'[v] = "reported" <=> v = w \/ pc[v] = "reported"
                 /\ Some(events', v, Question) <=> Some(events, v, Question)
                 /\ Some(events', v, {"done"}) <=> v = w \/ Some(events, v, {"done"})
                 /\ Single(events', v, Question) <=> Single(events, v, Question)
                 /\ Single(events', v, {"done"}) <=> Single(events, v, {"done"}) /\ ~(Some(events, v, {"done"}) /\ v = w)
      BY <1>0, <1>4, <1>6, <2>2 DEF Gains, Fits, AnswerMove
    <2> QED  BY <1>3, <1>4, <2>3 DEF Talk
  <1> QED  BY <1>5, <1>6 DEF AnswerMove

\* Whom the questions on screen are for stays as it is.
AsksKept ==
  \A v \in Worker : /\ Some(prompts', v, Question) <=> Some(prompts, v, Question)
                    /\ Single(prompts', v, Question) <=> Single(prompts, v, Question)

LEMMA AsksKeptBy ==
  ASSUME TypeOK
  PROVE  /\ prompts' = prompts => AsksKept
         /\ \A w \in Worker : prompts' = Append(prompts, [is |-> "warning", worker |-> w]) => AsksKept
         /\ DismissWarning => AsksKept
  <1>0. prompts \in Seq(Prompt) /\ "warning" \notin Question
    BY DEF TypeOK, Question
  <1>1. prompts' = prompts => AsksKept
    BY DEF AsksKept
  <1>2. ASSUME NEW w \in Worker, prompts' = Append(prompts, [is |-> "warning", worker |-> w])
        PROVE  AsksKept
    <2>1. [is |-> "warning", worker |-> w] \in Prompt
      BY DEF Prompt
    <2>2. Gains(prompts, prompts', [is |-> "warning", worker |-> w])
      BY <1>0, <1>2, <2>1, AppendGains
    <2> QED  BY <1>0, <2>2 DEF AsksKept, Gains, Fits
  <1>3. ASSUME DismissWarning PROVE AsksKept
    <2>1. prompts # << >> /\ Top.is = "warning" /\ prompts' = SubSeq(prompts, 1, Len(prompts) - 1)
      BY <1>3 DEF DismissWarning, AnswerTo, CloseTop
    <2>2. Gains(prompts', prompts, Top)
      BY <1>0, <2>1, FrontGains DEF Top
    <2> QED  BY <1>0, <2>1, <2>2 DEF AsksKept, Gains, Fits
  <1> QED  BY <1>1, <1>2, <1>3

\* A result the window takes off its queue is that of a worker that is through,
\* which is then idle or posted to its next job.
LEMMA TalkDone ==
  ASSUME TypeOK, Talk, NEW w \in Worker, events # << >>,
         w = Head(events).worker, Head(events).is = "done",
         events' = Tail(events), AsksKept,
         pc'[w] \in {"idle", "posted"},
         \A v \in Worker : v # w => pc'[v] = pc[v] \/ (pc[v] = "idle" /\ pc'[v] = "posted")
  PROVE  Talk'
  <1>0. events \in Seq(Event) /\ "done" \notin Question
    BY DEF TypeOK, Question
  <1>1. Gains(events', events, Head(events))
    BY <1>0, TailGains
  <1>2. ASSUME NEW v \in Worker
        PROVE  /\ Some(events, v, {"done"}) <=> v = w \/ Some(events', v, {"done"})
               /\ Single(events, v, {"done"}) <=> Single(events', v, {"done"}) /\ ~(Some(events', v, {"done"}) /\ v = w)
               /\ Some(events, v, Question) <=> Some(events', v, Question)
               /\ Single(events, v, Question) <=> Single(events', v, Question)
    BY <1>0, <1>1 DEF Gains, Fits
  <1>3. pc[w] = "reported" /\ ~Some(events', w, {"done"})
    BY <1>2 DEF Talk
  <1>4. ASSUME NEW v \in Worker
        PROVE  /\ pc'[v] = "asking" <=> pc[v] = "asking"
               /\ pc'[v] = "reported" <=> v # w /\ pc[v] = "reported"
    BY <1>3
  <1> QED  BY <1>2, <1>3, <1>4 DEF Talk, AsksKept

LEMMA TalkAsk == ASSUME TypeOK, Talk, HandleAsk PROVE Talk'
  <1>0. events \in Seq(Event) /\ prompts \in Seq(Prompt) /\ "done" \notin Question /\ events # << >>
    BY DEF TypeOK, Question, HandleAsk, Posted
  <1>1. PICK e \in Event : e = Head(events) /\ e.is \in Question /\ e.worker \in Worker /\ e \in Prompt
    BY <1>0, HeadFacts DEF HandleAsk, Posted, Question, Event, Prompt
  <1>2. Gains(events', events, e) /\ Gains(prompts, prompts', e) /\ pc' = pc
    BY <1>0, <1>1, TailGains, AppendGains DEF HandleAsk, runVars
  <1>3. ASSUME NEW v \in Worker
        PROVE  /\ Some(events, v, Question) <=> v = e.worker \/ Some(events', v, Question)
               /\ Some(prompts', v, Question) <=> v = e.worker \/ Some(prompts, v, Question)
               /\ Single(events, v, Question) <=> Single(events', v, Question) /\ ~(Some(events', v, Question) /\ v = e.worker)
               /\ Single(prompts', v, Question) <=> Single(prompts, v, Question) /\ ~(Some(prompts, v, Question) /\ v = e.worker)
               /\ Some(events, v, {"done"}) <=> Some(events', v, {"done"})
               /\ Single(events, v, {"done"}) <=> Single(events', v, {"done"})
    BY <1>0, <1>1, <1>2 DEF Gains, Fits
  <1> QED  BY <1>2, <1>3 DEF Talk

LEMMA TalkIdle ==
  ASSUME Talk, events' = events, AsksKept,
         \A v \in Worker : pc'[v] = pc[v] \/ (pc[v] = "idle" /\ pc'[v] = "posted")
  PROVE  Talk'
  <1>1. ASSUME NEW v \in Worker
        PROVE  (pc'[v] = "asking" <=> pc[v] = "asking") /\ (pc'[v] = "reported" <=> pc[v] = "reported")
    OBVIOUS
  <1> QED  BY <1>1 DEF Talk, AsksKept

QueueInv == TypeOK /\ LeftInv /\ JobInv /\ BusyWorks /\ Talk

\* A new job, or a new limit, only wakes idle workers.
LEMMA StartsWake ==
  ASSUME QueueInv,
         \/ \E j \in Job : EnqueueLocal(j) \/ EnqueueTransfer(j)
         \/ \E n \in 0 .. PoolCap + 1 : SetLimit(n)
  PROVE  BusyWorks' /\ Talk'
  <1>0. \A w \in Worker : w \in busy <=> pc[w] # "idle"
    BY DEF QueueInv, BusyWorks
  <1>1. \/ BusyWorks' /\ \A v \in Worker : pc'[v] = pc[v] \/ (pc[v] = "idle" /\ pc'[v] = "posted")
    <2>1. ASSUME NEW j \in LocalJob, EnqueueLocal(j)
          PROVE  BusyWorks' /\ \A v \in Worker : pc'[v] = pc[v] \/ (pc[v] = "idle" /\ pc'[v] = "posted")
      <3>1. Append(localQueue, j) \in Seq(LocalJob) /\ LocalJob \subseteq Job
        BY AppendProperties DEF QueueInv, TypeOK, Job
      <3>2. FreeLocal(busy) \in SUBSET Worker /\ FreeLocal(busy) \cap busy = {}
        BY WorkerFacts, FreeIsIdle
      <3>3. ASSUME NEW ws \in SUBSET Worker, NEW q \in Seq(LocalJob), NEW f, ws \cap busy = {},
                   StartNext(ws, q, busy, pc, job, f)
            PROVE  BusyWorks' /\ \A v \in Worker : pc'[v] = pc[v] \/ (pc[v] = "idle" /\ pc'[v] = "posted")
        BY <1>0, <3>1, <3>3, StartMoves
      <3> QED  BY <2>1, <3>1, <3>2, <3>3 DEF EnqueueLocal, StartLocal
    <2>2. ASSUME NEW q \in Seq(TransferJob), NEW f, pool' \in 0 .. PoolCap,
                 StartTransfers(q, pool', limit', busy, pc, job, f)
          PROVE  BusyWorks' /\ \A v \in Worker : pc'[v] = pc[v] \/ (pc[v] = "idle" /\ pc'[v] = "posted")
      <3>1. TransferJob \subseteq Job
        BY DEF Job
      <3>2. FreeTransfer(pool', limit', busy) \in SUBSET Worker /\ FreeTransfer(pool', limit', busy) \cap busy = {}
        BY <2>2, WorkerFacts, FreeIsIdle
      <3>3. PICK ws \in SUBSET Worker : ws \cap busy = {} /\ StartNext(ws, q, busy, pc, job, f)
        BY <2>2, <3>2 DEF StartTransfers
      <3> QED  BY <1>0, <2>2, <3>1, <3>3, StartMoves, SMTT(30)
    <2>3. ASSUME NEW j \in TransferJob, EnqueueTransfer(j)
          PROVE  BusyWorks' /\ \A v \in Worker : pc'[v] = pc[v] \/ (pc[v] = "idle" /\ pc'[v] = "posted")
      <3>1. Append(transferQueue, j) \in Seq(TransferJob)
        BY AppendProperties DEF QueueInv, TypeOK
      <3>2. pool' \in 0 .. PoolCap
        BY <2>3, PoolAssumption DEF EnqueueTransfer, QueueInv, TypeOK
      <3>3. limit' = limit /\ StartTransfers(Append(transferQueue, j), pool', limit, busy, pc, job, [fate EXCEPT ![j] = "queued"])
        BY <2>3 DEF EnqueueTransfer
      <3> QED  BY <2>2, <3>1, <3>2, <3>3
    <2>4. ASSUME NEW n \in 0 .. PoolCap + 1, SetLimit(n)
          PROVE  BusyWorks' /\ \A v \in Worker : pc'[v] = pc[v] \/ (pc[v] = "idle" /\ pc'[v] = "posted")
      <3>1. limit' \in 1 .. PoolCap
        BY <2>4, PoolAssumption DEF SetLimit, Clamped
      <3>2. pool' \in 0 .. PoolCap /\ transferQueue \in Seq(TransferJob)
        BY <2>4, <3>1 DEF SetLimit, QueueInv, TypeOK
      <3> QED  BY <2>2, <2>4, <3>2 DEF SetLimit
    <2> QED  BY <2>1, <2>3, <2>4 DEF EnqueueLocal, EnqueueTransfer
  <1>2. events' = events /\ prompts' = prompts
    BY DEF EnqueueLocal, EnqueueTransfer, SetLimit, guiVars
  <1> QED  BY <1>1, <1>2, TalkIdle, AsksKeptBy DEF QueueInv

LEMMA DoneWakes == ASSUME QueueInv, HandleDone PROVE BusyWorks' /\ Talk'
  <1> USE DEF QueueInv
  <1>1. PICK w \in Worker : w = Head(events).worker
    BY HeadFacts DEF HandleDone, Posted
  <1> DEFINE p == [pc EXCEPT ![w] = "idle"]
             f == [fate EXCEPT ![job[w]] = "done"]
             b == busy \ {w}
  <1>2. p[w] = "idle" /\ \A v \in Worker : (v # w => p[v] = pc[v]) /\ (v \in b <=> p[v] # "idle")
    BY DEF BusyWorks, TypeOK
  <1>3. BusyWorks' /\ \A v \in Worker : pc'[v] = p[v] \/ (p[v] = "idle" /\ pc'[v] = "posted")
    <2>1. CASE w = 0
      <3>1. StartNext(FreeLocal(b), localQueue, b, p, job, f)
        BY <1>1, <2>1 DEF HandleDone, StartLocal
      <3>2. FreeLocal(b) \in SUBSET Worker /\ FreeLocal(b) \cap b = {}
        BY WorkerFacts, FreeIsIdle
      <3>3. localQueue \in Seq(LocalJob) /\ LocalJob \subseteq Job
        BY DEF TypeOK, Job
      <3> HIDE DEF p, f, b
      <3> QED  BY <1>2, <3>1, <3>2, <3>3, StartMoves
    <2>2. CASE w # 0
      <3>1. StartNext(FreeTransfer(pool, limit, b), transferQueue, b, p, job, f)
        BY <1>1, <2>2 DEF HandleDone, StartTransfers
      <3>2. FreeTransfer(pool, limit, b) \in SUBSET Worker /\ FreeTransfer(pool, limit, b) \cap b = {}
        BY WorkerFacts, FreeIsIdle, SMTT(30) DEF TypeOK
      <3>3. transferQueue \in Seq(TransferJob) /\ TransferJob \subseteq Job
        BY DEF TypeOK, Job
      <3> HIDE DEF p, f, b
      <3> QED  BY <1>2, <3>1, <3>2, <3>3, StartMoves
    <2> QED  BY <2>1, <2>2
  <1>4. /\ events # << >> /\ Head(events).is = "done" /\ events' = Tail(events) /\ prompts' = prompts
    BY DEF HandleDone, Posted
  <1>5. pc'[w] \in {"idle", "posted"} /\ \A v \in Worker : v # w => pc'[v] = pc[v] \/ (pc[v] = "idle" /\ pc'[v] = "posted")
    BY <1>2, <1>3
  <1> QED  BY <1>1, <1>3, <1>4, <1>5, TalkDone, AsksKeptBy

\* The warning leaves the worker idle; when it is read, idle workers may get jobs.
LEMMA WarnedRests == ASSUME QueueInv, HandleDoneWarned PROVE BusyWorks' /\ Talk'
  <1> USE DEF QueueInv
  <1>1. PICK w \in Worker : w = Head(events).worker
    BY HeadFacts DEF HandleDoneWarned, Posted
  <1>2. pc' = [pc EXCEPT ![w] = "idle"] /\ busy' = busy \ {w}
    BY <1>1 DEF HandleDoneWarned
  <1>3. pc'[w] = "idle" /\ \A v \in Worker : v # w => pc'[v] = pc[v]
    BY <1>2 DEF TypeOK
  <1>4. BusyWorks'
    BY <1>2, <1>3 DEF BusyWorks
  <1>5. /\ events # << >> /\ Head(events).is = "done" /\ events' = Tail(events)
        /\ prompts' = Append(prompts, [is |-> "warning", worker |-> w])
    BY <1>1 DEF HandleDoneWarned, Posted
  <1>6. AsksKept
    BY <1>5, AsksKeptBy
  <1> QED  BY <1>1, <1>3, <1>4, <1>5, <1>6, TalkDone

LEMMA ReadWakes == ASSUME QueueInv, DismissWarning PROVE BusyWorks' /\ Talk'
  <1> USE DEF QueueInv
  <1>0. PICK b \in SUBSET Worker : b = busy
    BY DEF TypeOK
  <1>a. PICK p, jb, f : p = pc /\ jb = job /\ f = fate
    OBVIOUS
  <1>1. \A v \in Worker : v \in b <=> p[v] # "idle"
    BY <1>0, <1>a DEF BusyWorks
  <1>2. BusyWorks' /\ \A v \in Worker : pc'[v] = p[v] \/ (p[v] = "idle" /\ pc'[v] = "posted")
    <2>1. CASE Top.worker = 0
      <3>1. StartNext(FreeLocal(b), localQueue, b, p, jb, f)
        BY <1>0, <1>a, <2>1 DEF DismissWarning, StartLocal
      <3>2. FreeLocal(b) \in SUBSET Worker /\ FreeLocal(b) \cap b = {}
        BY WorkerFacts, FreeIsIdle
      <3>3. localQueue \in Seq(LocalJob) /\ LocalJob \subseteq Job
        BY DEF TypeOK, Job
      <3> QED  BY <1>1, <3>1, <3>2, <3>3, StartMoves
    <2>2. CASE Top.worker # 0
      <3>1. StartNext(FreeTransfer(pool, limit, b), transferQueue, b, p, jb, f)
        BY <1>0, <1>a, <2>2 DEF DismissWarning, StartTransfers
      <3>2. FreeTransfer(pool, limit, b) \in SUBSET Worker /\ FreeTransfer(pool, limit, b) \cap b = {}
        BY WorkerFacts, FreeIsIdle, SMTT(30) DEF TypeOK
      <3>3. transferQueue \in Seq(TransferJob) /\ TransferJob \subseteq Job
        BY DEF TypeOK, Job
      <3> QED  BY <1>1, <3>1, <3>2, <3>3, StartMoves
    <2> QED  BY <2>1, <2>2
  <1>3. AsksKept /\ events' = events
    BY AsksKeptBy DEF DismissWarning
  <1> QED  BY <1>0, <1>a, <1>2, <1>3, TalkIdle

LEMMA QueueInit == Init => QueueInv
  <1> SUFFICES ASSUME Init PROVE QueueInv
    OBVIOUS
  <1>1. TypeOK /\ LeftInv /\ JobInv
    BY TypeInit
  <1>2. Len(events) = 0 /\ Len(prompts) = 0
    BY EmptySeq DEF Init
  <1>3. Talk /\ BusyWorks
    BY <1>2 DEF Init, Talk, Some, Single, BusyWorks
  <1> QED  BY <1>1, <1>3 DEF QueueInv

LEMMA QueueStep == QueueInv /\ [Next]_vars => QueueInv'
  <1> SUFFICES ASSUME QueueInv, [Next]_vars PROVE QueueInv'
    OBVIOUS
  <1>0. TypeOK /\ LeftInv /\ JobInv /\ BusyWorks /\ Talk
    BY DEF QueueInv
  <1>1. CASE UserStep
    <2>1. TypeOK' /\ LeftInv' /\ JobInv'
      BY <1>0, <1>1, UserTyped
    <2>2. ASSUME UNCHANGED <<busy, pc, events, prompts>> PROVE BusyWorks' /\ Talk'
      BY <1>0, <2>2, TalkIdle, AsksKeptBy DEF BusyWorks
    <2>3. \/ UNCHANGED <<busy, pc, events, prompts>>
          \/ \E j \in Job : EnqueueLocal(j) \/ EnqueueTransfer(j)
          \/ \E n \in 0 .. PoolCap + 1 : SetLimit(n)
      BY <1>1 DEF UserStep, CancelActiveJobs, AbortAll, PauseCurrent, ResumeCurrent, SetPaused, CloseWindow,
                  guiVars, runVars
    <2> QED  BY <2>1, <2>2, <2>3, StartsWake DEF QueueInv
  <1>2. ASSUME NEW w \in Worker, WorkerStep(w) PROVE QueueInv'
    <2>1. TypeOK' /\ LeftInv'
      BY <1>0, <1>2, WorkerTyped
    <2>2. WorkerMove(w)
      BY <1>0, <1>2, WorkerMoves
    <2>3. JobInv' /\ BusyWorks'
      BY <1>0, <2>2 DEF WorkerMove, JobInv, BusyWorks
    <2> QED  BY <1>0, <2>1, <2>2, <2>3, TalkWorker DEF QueueInv
  <1>3. CASE Answer
    <2>1. TypeOK' /\ LeftInv'
      BY <1>0, <1>3, AnswerTyped
    <2>2. PICK w \in Worker : AnswerMove(w)
      BY <1>0, <1>3, AnswerMoves
    <2>3. JobInv' /\ BusyWorks'
      BY <1>0, <2>2 DEF AnswerMove, JobInv, BusyWorks
    <2> QED  BY <1>0, <2>1, <2>2, <2>3, TalkAnswer DEF QueueInv
  <1>4. CASE HandleDone \/ HandleDoneWarned \/ DismissWarning \/ HandleAsk \/ Join \/ JoinDone
    <2>1. TypeOK' /\ LeftInv' /\ JobInv'
      BY <1>0, <1>4, LoopTyped
    <2>2. BusyWorks' /\ Talk'
      <3>1. CASE HandleDone
        BY <3>1, DoneWakes
      <3>2. CASE HandleAsk
        BY <1>0, <3>2, TalkAsk DEF HandleAsk, BusyWorks, runVars
      <3>3. CASE Join \/ JoinDone
        BY <1>0, <3>3, TalkIdle, AsksKeptBy DEF Join, JoinDone, BusyWorks, runVars
      <3>4. CASE HandleDoneWarned
        BY <3>4, WarnedRests
      <3>5. CASE DismissWarning
        BY <3>5, ReadWakes
      <3> QED  BY <1>4, <3>1, <3>2, <3>3, <3>4, <3>5
    <2> QED  BY <2>1, <2>2 DEF QueueInv
  <1>5. CASE UNCHANGED vars
    <2>1. UNCHANGED <<localQueue, transferQueue, limit, localStarted, pool, busy, gui, events, prompts, joined, abortRequested>>
      BY <1>5 DEF vars, queueVars, poolVars, guiVars
    <2>2. UNCHANGED <<pc, job, left, asks, cancelled, paused, skipAll, fate>>
      BY <1>5 DEF vars, runVars, flagVars
    <2>3. UNCHANGED <<skipChosen, silenced, toldEarly, toldLeft, requests>>
      BY <1>5 DEF vars, historyVars
    <2>4. TypeOK'
      BY <1>0, <2>1, <2>2, <2>3 DEF TypeOK
    <2> QED  BY <1>0, <2>1, <2>2, <2>4, TalkIdle, AsksKeptBy DEF QueueInv, LeftInv, JobInv, BusyWorks
  <1> QED  BY <1>1, <1>2, <1>3, <1>4, <1>5 DEF Next

LEMMA QueueInvariant == Spec => []QueueInv
  BY QueueInit, QueueStep, PTL DEF Spec

\* Every variable of the queue has its type (OperationQueue.h, FileOperations.h).
THEOREM TypeCorrect == Spec => []TypeOK
  <1>1. QueueInv => TypeOK
    BY DEF QueueInv
  <1> QED  BY <1>1, QueueInvariant, PTL

\* Nothing fits, or one thing does, and the count says so.
LEMMA CountIs ==
  ASSUME NEW q, NEW w, NEW kinds, Single(q, w, kinds)
  PROVE  Cardinality(Mentions(q, w, kinds)) = IF Some(q, w, kinds) THEN 1 ELSE 0
  <1>1. CASE Some(q, w, kinds)
    <2>1. PICK i \in 1 .. Len(q) : q[i].worker = w /\ q[i].is \in kinds
      BY <1>1 DEF Some
    <2>2. Mentions(q, w, kinds) = {i}
      BY <2>1 DEF Mentions, Single
    <2> QED  BY <1>1, <2>2, FS_Singleton
  <1>2. CASE ~Some(q, w, kinds)
    <2>1. Mentions(q, w, kinds) = {}
      BY <1>2 DEF Mentions, Some
    <2> QED  BY <1>2, <2>1, FS_EmptySet
  <1> QED  BY <1>1, <1>2

\* askConflict() and askError() block their worker on exactly one question that is
\* on its way to the user or on screen, however many workers ask, whichever dialog
\* is answered first and whatever is cancelled meanwhile; and each job's result is
\* taken exactly once (onWorkerJobDone).
THEOREM NobodyIsForgotten == Spec => []NobodyForgotten
  <1>1. QueueInv => NobodyForgotten
    <2> SUFFICES ASSUME QueueInv, NEW w \in Worker
                 PROVE  /\ Cardinality(Mentions(events, w, Question)) + Cardinality(Mentions(prompts, w, Question))
                             = IF pc[w] = "asking" THEN 1 ELSE 0
                        /\ Cardinality(Mentions(events, w, {"done"})) = IF pc[w] = "reported" THEN 1 ELSE 0
      BY DEF NobodyForgotten, Question
    <2>1. /\ Cardinality(Mentions(events, w, Question)) = IF Some(events, w, Question) THEN 1 ELSE 0
          /\ Cardinality(Mentions(prompts, w, Question)) = IF Some(prompts, w, Question) THEN 1 ELSE 0
          /\ Cardinality(Mentions(events, w, {"done"})) = IF Some(events, w, {"done"}) THEN 1 ELSE 0
      BY CountIs DEF QueueInv, Talk
    <2> QED  BY <2>1 DEF QueueInv, Talk
  <1> QED  BY <1>1, QueueInvariant, PTL

-----------------------------------------------------------------------------
(* The warnings on screen                                                  *)

\* The warnings among the dialogs q, for workers of P.
WarnsIn(q, P) == {i \in 1 .. Len(q) : q[i].is = "warning" /\ q[i].worker \in P}

Warns(x, P) == x.is = "warning" /\ x.worker \in P

\* r holds what q holds, and x on top.
Topped(q, r, x) ==
  /\ r[Len(q) + 1] = x /\ Len(r) = Len(q) + 1
  /\ \A i \in 1 .. Len(q) : r[i] = q[i]

LEMMA WarnsFinite ==
  ASSUME NEW q \in Seq(Prompt), NEW P
  PROVE  IsFiniteSet(WarnsIn(q, P)) /\ Cardinality(WarnsIn(q, P)) \in Nat
         /\ (Cardinality(WarnsIn(q, P)) = 0 <=> WarnsIn(q, P) = {})
  <1>1. Len(q) \in Nat
    BY LenProperties
  <1>2. IsFiniteSet(1 .. Len(q)) /\ WarnsIn(q, P) \subseteq 1 .. Len(q)
    BY <1>1, FS_Interval DEF WarnsIn
  <1>3. IsFiniteSet(WarnsIn(q, P))
    BY <1>2, FS_Subset
  <1> QED  BY <1>3, FS_EmptySet, FS_CardinalityType

\* A dialog on top of others counts if it is a warning for one of P.
LEMMA WarnsTopped ==
  ASSUME NEW q \in Seq(Prompt), NEW r \in Seq(Prompt), NEW x, NEW P, Topped(q, r, x)
  PROVE  /\ ~Warns(x, P) => WarnsIn(r, P) = WarnsIn(q, P)
         /\ Warns(x, P) => /\ Cardinality(WarnsIn(r, P)) = Cardinality(WarnsIn(q, P)) + 1
                           /\ WarnsIn(r, P) # {}
  <1>1. PICK n \in Nat : n = Len(q)
    BY LenProperties
  <1>2. 1 .. n + 1 = 1 .. n \cup {n + 1} /\ n + 1 \notin 1 .. n
    OBVIOUS
  <1>3. WarnsIn(r, P) = WarnsIn(q, P) \cup (IF Warns(x, P) THEN {n + 1} ELSE {}) /\ n + 1 \notin WarnsIn(q, P)
    BY <1>1, <1>2 DEF WarnsIn, Topped, Warns
  <1>4. IsFiniteSet(WarnsIn(q, P))
    BY WarnsFinite
  <1> QED  BY <1>3, <1>4, FS_AddElement

LEMMA AppendTops ==
  ASSUME NEW q \in Seq(Prompt), NEW x \in Prompt
  PROVE  Append(q, x) \in Seq(Prompt) /\ Topped(q, Append(q, x), x)
  BY AppendProperties, LenProperties DEF Topped

LEMMA CloseTops ==
  ASSUME TypeOK, Talk, prompts # << >>, CloseTop
  PROVE  prompts' \in Seq(Prompt) /\ Topped(prompts', prompts, Top)
  <1>1. PICK n \in Nat \ {0} : n = Len(prompts)
    BY EmptySeq DEF TypeOK
  <1>2. prompts' = SubSeq(prompts, 1, n - 1) /\ prompts' \in Seq(Prompt)
    BY <1>1, TopFacts DEF CloseTop
  <1>3. Len(prompts') = n - 1 /\ \A i \in 1 .. n - 1 : prompts'[i] = prompts[i]
    <2>1. 1 \in Int /\ n - 1 \in Int /\ (\A i \in 1 .. n - 1 : prompts[i] \in Prompt)
      <3>1. \A i \in 1 .. n - 1 : i \in 1 .. Len(prompts)
        BY <1>1
      <3> QED  BY <3>1, ElementOfSeq DEF TypeOK
    <2>2. /\ Len(SubSeq(prompts, 1, n - 1)) = IF 1 <= n - 1 THEN (n - 1) - 1 + 1 ELSE 0
          /\ \A i \in 1 .. (n - 1) - 1 + 1 : SubSeq(prompts, 1, n - 1)[i] = prompts[1 + i - 1]
      BY <2>1, SubSeqProperties
    <2>3. /\ (n - 1) - 1 + 1 = n - 1 /\ \A i \in 1 .. n - 1 : 1 + i - 1 = i
          /\ (IF 1 <= n - 1 THEN (n - 1) - 1 + 1 ELSE 0) = n - 1
      OBVIOUS
    <2> QED  BY <1>2, <2>2, <2>3
  <1> QED  BY <1>1, <1>2, <1>3 DEF Topped, Top

LEMMA WarningsAre == \A P : Warnings(P) = WarnsIn(prompts, P) /\ Warnings(P)' = WarnsIn(prompts', P)
  BY DEF Warnings, WarnsIn

\* How many results are held up for workers of P.
Held(P) == Cardinality(Warnings(P))

LEMMA HeldFacts ==
  ASSUME TypeOK
  PROVE  \A P : Held(P) \in Nat /\ (Held(P) = 0 <=> Warnings(P) = {})
  BY WarnsFinite, WarningsAre DEF TypeOK, Held

\* A step leaves the warnings as they are.
WarnsKept == \A P : Warnings(P)' = Warnings(P)

\* One for worker w comes, or goes.
WarnComes(w) ==
  \A P : /\ w \notin P => Warnings(P)' = Warnings(P)
         /\ w \in P => Held(P)' = Held(P) + 1 /\ Warnings(P)' # {}

WarnGoes(w) ==
  \A P : /\ w \notin P => Warnings(P)' = Warnings(P)
         /\ w \in P => Held(P) = Held(P)' + 1 /\ Warnings(P) # {}

LEMMA PromptsKept == prompts' = prompts => WarnsKept
  BY DEF WarnsKept, Warnings

LEMMA QuestionsDoNotWarn ==
  ASSUME TypeOK, Talk
  PROVE  (HandleAsk => WarnsKept /\ Asked') /\ (Answer => WarnsKept)
  <1>1. ASSUME HandleAsk PROVE WarnsKept /\ Asked'
    <2>1. events # << >> /\ Head(events).is \in Question /\ prompts' = Append(prompts, Head(events))
      BY <1>1 DEF HandleAsk, Posted, Question
    <2>2. Head(events) \in Prompt
      BY <2>1, HeadFacts DEF Event, Prompt, Question
    <2>3. prompts' \in Seq(Prompt) /\ Topped(prompts, prompts', Head(events)) /\ prompts \in Seq(Prompt)
      BY <2>1, <2>2, AppendTops DEF TypeOK
    <2>4. \A P : ~Warns(Head(events), P)
      BY <2>1 DEF Warns, Question
    <2>5. Asked'
      <3>1. Len(prompts) \in Nat
        BY <2>3, LenProperties
      <3>2. Len(prompts) + 1 \in 1 .. Len(prompts')
        BY <2>3, <3>1 DEF Topped
      <3> QED  BY <2>1, <2>3, <3>2 DEF Asked, Topped, Question
    <2> QED  BY <2>3, <2>4, <2>5, WarnsTopped, WarningsAre DEF WarnsKept
  <1>2. ASSUME Answer PROVE WarnsKept
    <2>1. prompts # << >> /\ CloseTop /\ Top.is \in Question
      BY <1>2 DEF Answer, AnswerGoOn, AnswerSkip, AnswerSkipAll, AnswerCancel, AnswerAbort, AnswerTo, Question
    <2>2. prompts' \in Seq(Prompt) /\ Topped(prompts', prompts, Top) /\ prompts \in Seq(Prompt)
      BY <2>1, CloseTops DEF TypeOK
    <2>3. \A P : ~Warns(Top, P)
      BY <2>1 DEF Warns, Question
    <2> QED  BY <2>2, <2>3, WarnsTopped, WarningsAre DEF WarnsKept
  <1> QED  BY <1>1, <1>2

LEMMA WarningComes ==
  ASSUME TypeOK, NEW w \in Worker, prompts' = Append(prompts, [is |-> "warning", worker |-> w])
  PROVE  WarnComes(w) /\ (Asked => Asked')
  <1>1. PICK x \in Prompt : x = [is |-> "warning", worker |-> w] /\ x.is = "warning" /\ x.worker = w
    BY DEF Prompt
  <1>2. prompts' \in Seq(Prompt) /\ Topped(prompts, prompts', x) /\ prompts \in Seq(Prompt)
    BY <1>1, AppendTops DEF TypeOK
  <1>3. \A P : Warns(x, P) <=> w \in P
    BY <1>1 DEF Warns
  <1>4. Asked => Asked'
    <2>1. Len(prompts) \in Nat /\ \A i \in 1 .. Len(prompts) : i \in 1 .. Len(prompts) + 1
      BY <1>2, LenProperties
    <2> QED  BY <1>2, <2>1 DEF Asked, Topped
  <1>5. PICK q \in Seq(Prompt), r \in Seq(Prompt) : q = prompts /\ r = prompts' /\ Topped(q, r, x)
    BY <1>2
  <1>6. ASSUME NEW P
        PROVE  /\ w \notin P => WarnsIn(r, P) = WarnsIn(q, P)
               /\ w \in P => Cardinality(WarnsIn(r, P)) = Cardinality(WarnsIn(q, P)) + 1 /\ WarnsIn(r, P) # {}
    <2>1. Warns(x, P) <=> w \in P
      BY <1>3
    <2>2. Topped(q, r, x)
      BY <1>5
    <2>3. /\ ~Warns(x, P) => WarnsIn(r, P) = WarnsIn(q, P)
          /\ Warns(x, P) => Cardinality(WarnsIn(r, P)) = Cardinality(WarnsIn(q, P)) + 1 /\ WarnsIn(r, P) # {}
      BY <2>2, WarnsTopped
    <2> QED  BY <2>1, <2>3
  <1>7. \A P : Warnings(P) = WarnsIn(q, P) /\ Warnings(P)' = WarnsIn(r, P)
    BY <1>5, WarningsAre
  <1> QED  BY <1>4, <1>6, <1>7 DEF WarnComes, Held

LEMMA WarningGoes ==
  ASSUME TypeOK, Talk, DismissWarning
  PROVE  \E w \in Worker : w = Top.worker /\ WarnGoes(w) /\ (Asked => Asked')
  <1>1. prompts # << >> /\ CloseTop /\ Top.is = "warning"
    BY DEF DismissWarning, AnswerTo
  <1>2. PICK w \in Worker : w = Top.worker
    BY <1>1, TopFacts
  <1>3. prompts' \in Seq(Prompt) /\ Topped(prompts', prompts, Top) /\ prompts \in Seq(Prompt)
    BY <1>1, CloseTops DEF TypeOK
  <1>4. \A P : Warns(Top, P) <=> w \in P
    BY <1>1, <1>2 DEF Warns
  <1>5. Asked => Asked'
    <2> SUFFICES ASSUME NEW i \in 1 .. Len(prompts), prompts[i].is # "warning" PROVE Asked'
      BY DEF Asked
    <2>1. Len(prompts') \in Nat /\ Len(prompts) = Len(prompts') + 1 /\ prompts[Len(prompts') + 1] = Top
      BY <1>3, LenProperties DEF Topped
    <2>2. i \in 1 .. Len(prompts')
      BY <1>1, <2>1
    <2> QED  BY <1>3, <2>2 DEF Asked, Topped
  <1> QED  BY <1>2, <1>3, <1>4, <1>5, WarnsTopped, WarningsAre DEF WarnGoes, Held

-----------------------------------------------------------------------------
(* The two lines and the workers they feed                                 *)

\* The jobs of a line wait, and each stands there once.
Line(q, f) ==
  /\ \A i \in 1 .. Len(q) : f[q[i]] = "queued"
  /\ \A i, k \in 1 .. Len(q) : q[i] = q[k] => i = k

Mine(w) == IF w = 0 THEN LocalJob ELSE TransferJob

\* The workers b at work have a started job of their own pipeline each, no two the same.
Handed(b, jb, f) ==
  /\ \A w \in b : jb[w] \in Mine(w) /\ f[jb[w]] = "started"
  /\ \A v, w \in b : jb[v] = jb[w] => v = w

\* No job waits beside an idle worker within the limit, unless a warning holds up the
\* end of the job before.
NoneIdle ==
  /\ pool = 0 \/ limit <= pool
  /\ localQueue # << >> => 0 \in busy \/ Warnings({0}) # {}
  /\ transferQueue # << >> => pool # 0 /\ (1 .. limit \subseteq busy \/ Warnings(1 .. PoolCap) # {})

PipeInv ==
  /\ Line(localQueue, fate) /\ Line(transferQueue, fate)
  /\ Handed(busy, job, fate) /\ NoneIdle

At(b, jb, P) == {jb[w] : w \in b \cap P}
First(q, k) == {q[i] : i \in 1 .. k}

\* What StartNext() keeps, and what it adds to the jobs of the workers P it serves.
Feeds(ws, J, q, b, jb, f) ==
  /\ Line(Remainder(ws, q), fate') /\ Handed(busy', job', fate')
  /\ \A j \in Job : fate'[j] = "new" <=> f[j] = "new"
  /\ \A r \in Seq(Job) : Line(r, f) /\ (\A i \in 1 .. Len(r) : r[i] \notin J) => Line(r, fate')
  /\ Remainder(ws, q) # << >> => ws \subseteq busy'
  /\ b \subseteq busy' /\ busy' \subseteq b \cup ws
  /\ q = << >> => Remainder(ws, q) = << >>
  /\ \A P \in SUBSET Worker : ws \cap P = {} => At(busy', job', P) = At(b, jb, P)
  /\ \E k \in 0 .. Len(q) :
       /\ Remainder(ws, q) = SubSeq(q, k + 1, Len(q))
       /\ \A P \in SUBSET Worker : ws \subseteq P => At(busy', job', P) = At(b, jb, P) \cup First(q, k)

LEMMA StartPipes ==
  ASSUME NEW ws \in SUBSET Worker, NEW J, J \subseteq Job, \A w \in ws : J = Mine(w),
         NEW q \in Seq(J), NEW b \in SUBSET Worker, ws \cap b = {}, NEW p, NEW jb, NEW f,
         Line(q, f), Handed(b, jb, f), StartNext(ws, q, b, p, jb, f)
  PROVE  Feeds(ws, J, q, b, jb, f)
  <1>a. PICK s : s = Served(ws, q)
    OBVIOUS
  <1>b. PICK k : k = Cardinality(s)
    OBVIOUS
  <1>c. PICK r : r = Remainder(ws, q)
    OBVIOUS
  <1>d. PICK n : n = Len(q)
    OBVIOUS
  <1>1. HandedOutBy(ws, J, q, b, p, jb, f, s, k)
    BY <1>a, <1>b, Hands
  <1>2. /\ k \in 0 .. n /\ n \in Nat /\ s \subseteq ws /\ s \subseteq Worker /\ busy' = b \cup s
        /\ \A w \in s : \E i \in 1 .. k : i = Rank(ws, w) /\ job'[w] = q[i]
        /\ \A i \in 1 .. k : \E w \in s : i = Rank(ws, w) /\ job'[w] = q[i]
        /\ \A v, w \in s : Rank(ws, v) = Rank(ws, w) => v = w
        /\ \A w \in b : job'[w] = jb[w]
        /\ \A j \in Job : \/ fate'[j] = "started" /\ \E i \in 1 .. k : j = q[i]
                          \/ fate'[j] = f[j] /\ ~ \E i \in 1 .. k : j = q[i]
        /\ r = SubSeq(q, k + 1, n) /\ r \in Seq(J) /\ Len(r) = n - k
        /\ \A i \in 1 .. n - k : r[i] = q[k + i]
        /\ r # << >> => s = ws
    BY <1>1, <1>c, <1>d DEF HandedOutBy
  <1>3. /\ \A i \in 1 .. k : i \in 1 .. n
        /\ \A i \in 1 .. n - k : k + i \in 1 .. n /\ k + i \notin 1 .. k
        /\ \A i, m \in 1 .. n - k : k + i = k + m => i = m
    BY <1>2
  <1>4. \A i \in 1 .. n : q[i] \in J /\ q[i] \in Job /\ f[q[i]] = "queued"
    BY <1>d, ElementOfSeq DEF Line
  <1>5. \A i, m \in 1 .. n : q[i] = q[m] => i = m
    BY <1>d DEF Line
  <1>6. Line(r, fate')
    <2>1. ASSUME NEW i \in 1 .. n - k PROVE fate'[r[i]] = "queued"
      <3>1. k + i \in 1 .. n /\ r[i] = q[k + i] /\ \A m \in 1 .. k : q[m] # q[k + i]
        BY <1>2, <1>3, <1>5
      <3> QED  BY <1>2, <1>4, <3>1
    <2>2. ASSUME NEW i \in 1 .. n - k, NEW m \in 1 .. n - k, r[i] = r[m] PROVE i = m
      <3>1. q[k + i] = q[k + m] /\ k + i \in 1 .. n /\ k + m \in 1 .. n
        BY <1>2, <1>3, <2>2
      <3>2. k + i = k + m
        BY <1>5, <3>1
      <3> QED  BY <1>3, <3>2
    <2> QED  BY <1>2, <2>1, <2>2 DEF Line
  <1>7. Handed(busy', job', fate')
    <2>1. ASSUME NEW w \in s PROVE job'[w] \in Mine(w) /\ fate'[job'[w]] = "started" /\ f[job'[w]] = "queued"
      <3>1. PICK i \in 1 .. k : job'[w] = q[i]
        BY <1>2
      <3>2. i \in 1 .. n
        BY <1>3
      <3>3. q[i] \in J /\ q[i] \in Job /\ f[q[i]] = "queued" /\ J = Mine(w)
        BY <1>2, <1>4, <3>2
      <3> QED  BY <1>2, <3>1, <3>3
    <2>2. ASSUME NEW w \in b
          PROVE  job'[w] \in Mine(w) /\ fate'[job'[w]] = "started" /\ f[job'[w]] = "started" /\ job'[w] = jb[w]
      <3>1. job'[w] = jb[w] /\ jb[w] \in Mine(w) /\ f[jb[w]] = "started"
        BY <1>2 DEF Handed
      <3>2. jb[w] \in Job /\ \A i \in 1 .. k : jb[w] # q[i]
        BY <1>3, <1>4, <3>1 DEF Mine, Job
      <3> QED  BY <1>2, <3>1, <3>2
    <2>3. ASSUME NEW v \in s, NEW w \in s, job'[v] = job'[w] PROVE v = w
      <3>1. PICK i \in 1 .. k : i = Rank(ws, v) /\ job'[v] = q[i]
        BY <1>2
      <3>2. PICK m \in 1 .. k : m = Rank(ws, w) /\ job'[w] = q[m]
        BY <1>2
      <3>3. i = m
        BY <1>3, <1>5, <2>3, <3>1, <3>2
      <3>4. Rank(ws, v) = Rank(ws, w)
        BY <3>1, <3>2, <3>3
      <3>5. \A x, y \in s : Rank(ws, x) = Rank(ws, y) => x = y
        BY <1>2
      <3> QED  BY <3>4, <3>5
    <2>4. ASSUME NEW v \in b, NEW w \in b, job'[v] = job'[w] PROVE v = w
      BY <2>2, <2>4 DEF Handed
    <2> QED  BY <1>2, <2>1, <2>2, <2>3, <2>4 DEF Handed
  <1>8. \A j \in Job : fate'[j] = "new" <=> f[j] = "new"
    BY <1>2, <1>3, <1>4
  <1>9. ASSUME NEW t \in Seq(Job), Line(t, f), \A i \in 1 .. Len(t) : t[i] \notin J PROVE Line(t, fate')
    <2>1. ASSUME NEW i \in 1 .. Len(t) PROVE fate'[t[i]] = "queued"
      <3>1. t[i] \in Job /\ t[i] \notin J
        BY <1>9, ElementOfSeq
      <3> QED  BY <1>2, <1>3, <1>4, <1>9, <3>1 DEF Line
    <2> QED  BY <1>9, <2>1 DEF Line
  <1>10. q = << >> => r = << >>
    <2> SUFFICES ASSUME q = << >> PROVE r = << >>
      OBVIOUS
    <2>1. n = 0
      BY <1>d, EmptySeq
    <2>2. k = 0
      BY <1>2, <2>1
    <2>3. Len(r) = 0
      BY <1>2, <2>1, <2>2
    <2> QED  BY <1>2, <2>3, EmptySeq
  <1>11. ASSUME NEW P \in SUBSET Worker, ws \cap P = {} PROVE At(busy', job', P) = At(b, jb, P)
    <2>1. busy' \cap P = b \cap P
      BY <1>2, <1>11
    <2> QED  BY <1>2, <2>1 DEF At
  <1>12. ASSUME NEW P \in SUBSET Worker, ws \subseteq P PROVE At(busy', job', P) = At(b, jb, P) \cup First(q, k)
    <2>1. busy' \cap P = (b \cap P) \cup s
      BY <1>2, <1>12
    <2>2. {job'[w] : w \in s} = First(q, k)
      BY <1>2 DEF First
    <2>3. {job'[w] : w \in b \cap P} = At(b, jb, P)
      BY <1>2 DEF At
    <2> QED  BY <2>1, <2>2, <2>3 DEF At
  <1> QED  BY <1>c, <1>d, <1>2, <1>6, <1>7, <1>8, <1>9, <1>10, <1>11, <1>12 DEF Feeds

\* As many jobs of a pipeline run as it has workers at work.
LEMMA Width ==
  ASSUME NEW b \in SUBSET Worker, NEW jb, NEW f, Handed(b, jb, f), NEW P \in SUBSET Worker
  PROVE  /\ IsFiniteSet(At(b, jb, P)) /\ Cardinality(At(b, jb, P)) = Cardinality(b \cap P)
         /\ Cardinality(b \cap P) <= Cardinality(P)
         /\ \A Q \in SUBSET (b \cap P) : Cardinality(Q) <= Cardinality(b \cap P)
  <1> DEFINE S == b \cap P
             T == At(b, jb, P)
             g == [w \in S |-> jb[w]]
  <1>1. IsFiniteSet(P) /\ IsFiniteSet(S)
    BY RankFacts, FS_Subset
  <1>2. g \in Bijection(S, T)
    BY DEF Bijection, Injection, Surjection, IsInjective, At, Handed
  <1>3. IsFiniteSet(T) /\ Cardinality(T) = Cardinality(S)
    BY <1>1, <1>2, FS_Bijection DEF ExistsBijection
  <1> QED  BY <1>1, <1>3, FS_Subset

-----------------------------------------------------------------------------
(* The lines implement JobPipeline                                         *)

LocalMen == {0}
TransferMen == 1 .. PoolCap

LEMMA MenFacts ==
  /\ LocalMen \in SUBSET Worker /\ TransferMen \in SUBSET Worker
  /\ \A w \in Worker : w \in LocalMen \/ w \in TransferMen
  /\ \A w \in LocalMen : w = 0 /\ Mine(w) = LocalJob
  /\ \A w \in TransferMen : w # 0 /\ Mine(w) = TransferJob
  /\ \A b : FreeLocal(b) \subseteq LocalMen
  /\ \A n \in 0 .. PoolCap : \A m, b : FreeTransfer(n, m, b) \subseteq TransferMen
  /\ IsFiniteSet(LocalMen) /\ Cardinality(LocalMen) = 1
  /\ IsFiniteSet(TransferMen) /\ Cardinality(TransferMen) = PoolCap
  <1>1. PoolCap \in Nat \ {0}
    BY PoolAssumption
  <1>2. /\ IsFiniteSet(LocalMen) /\ Cardinality(LocalMen) = 1
        /\ IsFiniteSet(TransferMen) /\ Cardinality(TransferMen) = PoolCap
    <2>1. IsFiniteSet(1 .. PoolCap) /\ Cardinality(1 .. PoolCap) = PoolCap
      BY <1>1, FS_Interval
    <2> QED  BY <2>1, FS_Singleton DEF LocalMen, TransferMen
  <1> QED  BY <1>1, <1>2 DEF LocalMen, TransferMen, Worker, Mine, FreeLocal, FreeTransfer

\* The pipelines count as this module does.
LEMMA SameCount ==
  ASSUME NEW S
  PROVE  LocalPipeline!Cardinality(S) = Cardinality(S) /\ TransferPipeline!Cardinality(S) = Cardinality(S)
  BY DEF LocalPipeline!Cardinality, TransferPipeline!Cardinality, Cardinality

\* The jobs of a line of one pipeline are not the other's.
LEMMA LinesApart ==
  /\ \A q \in Seq(LocalJob) : q \in Seq(Job) /\ \A i \in 1 .. Len(q) : q[i] \notin TransferJob
  /\ \A q \in Seq(TransferJob) : q \in Seq(Job) /\ \A i \in 1 .. Len(q) : q[i] \notin LocalJob
  <1>1. Seq(LocalJob) \subseteq Seq(Job) /\ Seq(TransferJob) \subseteq Seq(Job)
    BY DEF Job
  <1>2. LocalJob \cap TransferJob = {}
    BY JobAssumption
  <1> QED  BY <1>1, <1>2, ElementOfSeq

\* maybeStartNext() starts from the line q beside the workers b as the pipeline does.
LEMMA StartsLocal ==
  ASSUME NEW q \in Seq(LocalJob), transferQueue \in Seq(TransferJob),
         NEW b \in SUBSET Worker, NEW p, NEW f,
         Line(q, f), Line(transferQueue, f), Handed(b, job, f), StartLocal(q, b, p, job, f)
  PROVE  /\ LocalPipeline!StartFrom(q, At(b, job, LocalMen))
         /\ Line(localQueue', fate') /\ Line(transferQueue', fate') /\ Handed(busy', job', fate')
         /\ \A j \in Job : fate'[j] = "new" <=> f[j] = "new"
         /\ At(busy', job', TransferMen) = At(b, job, TransferMen)
         /\ transferQueue' = transferQueue /\ b \subseteq busy'
         /\ localQueue' # << >> => 0 \in busy'
  <1>1. PICK ws \in SUBSET Worker : ws = FreeLocal(b)
    BY WorkerFacts
  <1>2. /\ ws \subseteq LocalMen /\ ws \cap TransferMen = {} /\ ws \cap b = {} /\ \A w \in ws : LocalJob = Mine(w)
    BY <1>1, MenFacts, FreeIsIdle
  <1>3. StartNext(ws, q, b, p, job, f) /\ localQueue' = Remainder(ws, q) /\ transferQueue' = transferQueue
    BY <1>1 DEF StartLocal
  <1>4. LocalJob \subseteq Job
    BY DEF Job
  <1>5. /\ Line(Remainder(ws, q), fate') /\ Handed(busy', job', fate')
        /\ \A j \in Job : fate'[j] = "new" <=> f[j] = "new"
        /\ \A r \in Seq(Job) : Line(r, f) /\ (\A i \in 1 .. Len(r) : r[i] \notin LocalJob) => Line(r, fate')
        /\ Remainder(ws, q) # << >> => ws \subseteq busy'
        /\ b \subseteq busy' /\ busy' \subseteq b \cup ws
        /\ \A P \in SUBSET Worker : ws \cap P = {} => At(busy', job', P) = At(b, job, P)
        /\ \E k \in 0 .. Len(q) :
             /\ Remainder(ws, q) = SubSeq(q, k + 1, Len(q))
             /\ \A P \in SUBSET Worker : ws \subseteq P => At(busy', job', P) = At(b, job, P) \cup First(q, k)
    <2>1. PICK jb : jb = job
      OBVIOUS
    <2>2. Feeds(ws, LocalJob, q, b, jb, f)
      BY <1>2, <1>3, <1>4, <2>1, StartPipes
    <2> QED  BY <2>1, <2>2 DEF Feeds
  <1>6. Line(transferQueue', fate')
    BY <1>3, <1>5, LinesApart
  <1>7. localQueue' # << >> => 0 \in busy'
    BY <1>1, <1>3, <1>5 DEF FreeLocal
  <1>8. PICK k \in 0 .. Len(q) : /\ localQueue' = SubSeq(q, k + 1, Len(q))
                                 /\ At(busy', job', LocalMen) = At(b, job, LocalMen) \cup First(q, k)
    BY <1>2, <1>3, <1>5, MenFacts
  <1>9. /\ Cardinality(At(busy', job', LocalMen)) <= 1
        /\ 0 \in busy' => Cardinality(At(busy', job', LocalMen)) >= 1
    <2>1. PICK c \in SUBSET Worker : c = busy'
      BY <1>5
    <2>0. PICK jb, g : jb = job' /\ g = fate'
      OBVIOUS
    <2>2. Handed(c, jb, g)
      BY <1>5, <2>0, <2>1
    <2>3. /\ Cardinality(At(c, jb, LocalMen)) = Cardinality(c \cap LocalMen)
          /\ Cardinality(c \cap LocalMen) <= Cardinality(LocalMen)
          /\ \A Q \in SUBSET (c \cap LocalMen) : Cardinality(Q) <= Cardinality(c \cap LocalMen)
      BY <2>2, Width, MenFacts
    <2>4. 0 \in c => LocalMen \in SUBSET (c \cap LocalMen)
      BY DEF LocalMen
    <2> QED  BY <2>0, <2>1, <2>3, <2>4, MenFacts
  <1>10. LocalPipeline!StartFrom(q, At(b, job, LocalMen))
    <2>1. InFlight({0})' = At(busy', job', LocalMen)
      BY DEF InFlight, At, LocalMen
    <2>2. LocalPipeline!FirstOf(q, k) = First(q, k)
      BY DEF LocalPipeline!FirstOf, First
    <2>3. LocalPipeline!Cardinality(InFlight({0})') = Cardinality(At(busy', job', LocalMen))
      BY <2>1, SameCount
    <2> QED  BY <1>2, <1>5, <1>7, <1>8, <1>9, <2>1, <2>2, <2>3 DEF LocalPipeline!StartFrom
  <1> QED  BY <1>2, <1>3, <1>5, <1>6, <1>7, <1>10, MenFacts

\* maybeStartNextTransfer() does the same for the pool.
LEMMA StartsTransfers ==
  ASSUME NEW q \in Seq(TransferJob), localQueue \in Seq(LocalJob),
         NEW b \in SUBSET Worker, NEW p, NEW f, NEW n \in 0 .. PoolCap, NEW m \in 1 .. PoolCap,
         limit' = m, q # << >> => m <= n,
         Line(q, f), Line(localQueue, f), Handed(b, job, f), StartTransfers(q, n, m, b, p, job, f)
  PROVE  /\ TransferPipeline!StartFrom(q, At(b, job, TransferMen))
         /\ Line(localQueue', fate') /\ Line(transferQueue', fate') /\ Handed(busy', job', fate')
         /\ \A j \in Job : fate'[j] = "new" <=> f[j] = "new"
         /\ At(busy', job', LocalMen) = At(b, job, LocalMen)
         /\ localQueue' = localQueue /\ b \subseteq busy'
         /\ transferQueue' # << >> => 1 .. m \subseteq busy' /\ n # 0
  <1>1. PICK ws \in SUBSET Worker : ws = FreeTransfer(n, m, b)
    BY WorkerFacts
  <1>2. /\ ws \subseteq TransferMen /\ ws \cap LocalMen = {} /\ ws \cap b = {} /\ \A w \in ws : TransferJob = Mine(w)
    BY <1>1, MenFacts, FreeIsIdle
  <1>3. StartNext(ws, q, b, p, job, f) /\ transferQueue' = Remainder(ws, q) /\ localQueue' = localQueue
    BY <1>1 DEF StartTransfers
  <1>4. TransferJob \subseteq Job
    BY DEF Job
  <1>5. /\ Line(Remainder(ws, q), fate') /\ Handed(busy', job', fate')
        /\ \A j \in Job : fate'[j] = "new" <=> f[j] = "new"
        /\ \A r \in Seq(Job) : Line(r, f) /\ (\A i \in 1 .. Len(r) : r[i] \notin TransferJob) => Line(r, fate')
        /\ Remainder(ws, q) # << >> => ws \subseteq busy'
        /\ b \subseteq busy' /\ busy' \subseteq b \cup ws
        /\ q = << >> => Remainder(ws, q) = << >>
        /\ \A P \in SUBSET Worker : ws \cap P = {} => At(busy', job', P) = At(b, job, P)
        /\ \E k \in 0 .. Len(q) :
             /\ Remainder(ws, q) = SubSeq(q, k + 1, Len(q))
             /\ \A P \in SUBSET Worker : ws \subseteq P => At(busy', job', P) = At(b, job, P) \cup First(q, k)
    <2>1. PICK jb : jb = job
      OBVIOUS
    <2>2. Feeds(ws, TransferJob, q, b, jb, f)
      BY <1>2, <1>3, <1>4, <2>1, StartPipes
    <2> QED  BY <2>1, <2>2 DEF Feeds
  <1>6. Line(localQueue', fate')
    BY <1>3, <1>5, LinesApart
  <1>7. transferQueue' # << >> => 1 .. m \subseteq busy' /\ n # 0
    <2> SUFFICES ASSUME transferQueue' # << >> PROVE 1 .. m \subseteq busy' /\ n # 0
      OBVIOUS
    <2>1. ws \subseteq busy' /\ m <= n
      BY <1>3, <1>5
    <2>2. 1 .. m \subseteq ws \cup b
      BY <1>1, <2>1 DEF FreeTransfer
    <2> QED  BY <1>5, <2>1, <2>2
  <1>8. PICK k \in 0 .. Len(q) : /\ transferQueue' = SubSeq(q, k + 1, Len(q))
                                 /\ At(busy', job', TransferMen) = At(b, job, TransferMen) \cup First(q, k)
    BY <1>2, <1>3, <1>5, MenFacts
  <1>9. /\ Cardinality(At(busy', job', TransferMen)) <= PoolCap
        /\ 1 .. m \subseteq busy' => Cardinality(At(busy', job', TransferMen)) >= m
    <2>1. PICK c \in SUBSET Worker : c = busy'
      BY <1>5
    <2>0. PICK jb, g : jb = job' /\ g = fate'
      OBVIOUS
    <2>2. Handed(c, jb, g)
      BY <1>5, <2>0, <2>1
    <2>3. /\ IsFiniteSet(At(c, jb, TransferMen)) /\ Cardinality(At(c, jb, TransferMen)) = Cardinality(c \cap TransferMen)
          /\ Cardinality(c \cap TransferMen) <= Cardinality(TransferMen)
          /\ \A Q \in SUBSET (c \cap TransferMen) : Cardinality(Q) <= Cardinality(c \cap TransferMen)
      BY <2>2, Width, MenFacts
    <2>4. Cardinality(1 .. m) = m
      BY FS_Interval
    <2>5. 1 .. m \subseteq TransferMen
      BY PoolAssumption DEF TransferMen
    <2>6. Cardinality(c \cap TransferMen) \in Nat
      BY <2>3, FS_CardinalityType
    <2>7. 1 .. m \subseteq c => m <= Cardinality(c \cap TransferMen)
      BY <2>3, <2>4, <2>5
    <2> QED  BY <2>0, <2>1, <2>3, <2>6, <2>7, MenFacts
  <1>10. TransferPipeline!StartFrom(q, At(b, job, TransferMen))
    <2>1. InFlight(1 .. PoolCap)' = At(busy', job', TransferMen)
      BY DEF InFlight, At, TransferMen
    <2>2. TransferPipeline!FirstOf(q, k) = First(q, k)
      BY DEF TransferPipeline!FirstOf, First
    <2>3. TransferPipeline!Cardinality(InFlight(1 .. PoolCap)') = Cardinality(At(busy', job', TransferMen))
      BY <2>1, SameCount
    <2> QED  BY <1>2, <1>5, <1>7, <1>8, <1>9, <2>1, <2>2, <2>3 DEF TransferPipeline!StartFrom
  <1> QED  BY <1>2, <1>3, <1>5, <1>6, <1>7, <1>10, MenFacts

\* The local pipeline, or the transfers', do not see the step.
LocalRests == UNCHANGED LocalPipeline!vars
TransfersRest == UNCHANGED TransferPipeline!vars

LEMMA Rests ==
  /\ localQueue' = localQueue /\ At(busy', job', LocalMen) = At(busy, job, LocalMen)
       /\ Warnings({0})' = Warnings({0})
       /\ (\A j \in LocalJob : fate'[j] = "new" <=> fate[j] = "new") => LocalRests
  /\ transferQueue' = transferQueue /\ At(busy', job', TransferMen) = At(busy, job, TransferMen)
       /\ Warnings(1 .. PoolCap)' = Warnings(1 .. PoolCap)
       /\ (\A j \in TransferJob : fate'[j] = "new" <=> fate[j] = "new") /\ limit' = limit => TransfersRest
  <1>1. /\ InFlight({0}) = At(busy, job, LocalMen) /\ InFlight({0})' = At(busy', job', LocalMen)
        /\ InFlight(1 .. PoolCap) = At(busy, job, TransferMen) /\ InFlight(1 .. PoolCap)' = At(busy', job', TransferMen)
    BY DEF InFlight, At, LocalMen, TransferMen
  <1>2. /\ (\A j \in LocalJob : fate'[j] = "new" <=> fate[j] = "new") => Submitted(LocalJob)' = Submitted(LocalJob)
        /\ (\A j \in TransferJob : fate'[j] = "new" <=> fate[j] = "new") => Submitted(TransferJob)' = Submitted(TransferJob)
    BY DEF Submitted
  <1> QED
    BY <1>1, <1>2 DEF LocalRests, TransfersRest, LocalPipeline!vars, TransferPipeline!vars

LEMMA RunningFacts ==
  /\ InFlight({0}) = At(busy, job, LocalMen) /\ InFlight({0})' = At(busy', job', LocalMen)
  /\ InFlight(1 .. PoolCap) = At(busy, job, TransferMen) /\ InFlight(1 .. PoolCap)' = At(busy', job', TransferMen)
  BY DEF InFlight, At, LocalMen, TransferMen

\* A new job joins the end of its line.
LEMMA LineGrows ==
  ASSUME TypeOK, NEW q \in Seq(Job), Line(q, fate), NEW j \in Job, fate[j] = "new"
  PROVE  Line(Append(q, j), [fate EXCEPT ![j] = "queued"])
  <1>1. PICK f, r, n : f = [fate EXCEPT ![j] = "queued"] /\ r = Append(q, j) /\ n = Len(q)
    OBVIOUS
  <1>2. f[j] = "queued" /\ \A i \in Job : i # j => f[i] = fate[i]
    BY <1>1 DEF TypeOK
  <1>3. /\ n \in Nat /\ Len(r) = n + 1 /\ r[n + 1] = j /\ \A i \in 1 .. n : r[i] = q[i]
        /\ 1 .. n + 1 = 1 .. n \cup {n + 1}
    BY <1>1, AppendProperties, LenProperties
  <1>4. \A i \in 1 .. n : q[i] \in Job /\ fate[q[i]] = "queued" /\ q[i] # j
    BY <1>1, ElementOfSeq DEF Line
  <1>5. \A i \in 1 .. n + 1 : f[r[i]] = "queued"
    BY <1>2, <1>3, <1>4
  <1>6. \A i, k \in 1 .. n + 1 : r[i] = r[k] => i = k
    BY <1>1, <1>3, <1>4 DEF Line
  <1> QED  BY <1>1, <1>3, <1>5, <1>6 DEF Line

\* Nothing that waits or runs is disturbed when another job's fate changes.
LEMMA OthersKept ==
  ASSUME TypeOK, NEW j \in Job, NEW x
  PROVE  /\ \A q \in Seq(Job) : Line(q, fate) /\ fate[j] # "queued" => Line(q, [fate EXCEPT ![j] = x])
         /\ \A b \in SUBSET Worker : Handed(b, job, fate) /\ (\A w \in b : job[w] # j)
                                       => Handed(b, job, [fate EXCEPT ![j] = x])
         /\ \A i \in Job : i # j => [fate EXCEPT ![j] = x][i] = fate[i]
  <1>1. PICK f : f = [fate EXCEPT ![j] = x] /\ \A i \in Job : i # j => f[i] = fate[i]
    BY DEF TypeOK
  <1>2. ASSUME NEW q \in Seq(Job), Line(q, fate), fate[j] # "queued" PROVE Line(q, f)
    <2>1. \A i \in 1 .. Len(q) : q[i] \in Job
      BY ElementOfSeq
    <2> QED  BY <1>1, <1>2, <2>1 DEF Line
  <1>3. ASSUME NEW b \in SUBSET Worker, Handed(b, job, fate), \A w \in b : job[w] # j PROVE Handed(b, job, f)
    <2>1. \A w \in b : job[w] \in Job
      BY <1>3 DEF Handed, Mine, Job
    <2> QED  BY <1>1, <1>3, <2>1 DEF Handed
  <1> QED  BY <1>1, <1>2, <1>3

LEMMA LocalEnqueued ==
  ASSUME QueueInv, PipeInv, NEW j \in Job, EnqueueLocal(j)
  PROVE  PipeInv' /\ LocalPipeline!Submit(j) /\ j \in LocalJob /\ TransfersRest
  <1> DEFINE q == Append(localQueue, j)
             f == [fate EXCEPT ![j] = "queued"]
  <1>1. /\ TypeOK /\ j \in LocalJob /\ fate[j] = "new" /\ StartLocal(q, busy, pc, job, f)
        /\ UNCHANGED <<limit, pool>> /\ WarnsKept
    BY PromptsKept DEF EnqueueLocal, QueueInv, guiVars
  <1>2. q \in Seq(LocalJob) /\ transferQueue \in Seq(TransferJob) /\ busy \in SUBSET Worker
    BY <1>1, AppendProperties DEF TypeOK
  <1>3. Line(q, f) /\ Line(transferQueue, f) /\ Handed(busy, job, f)
    <2>1. localQueue \in Seq(Job) /\ transferQueue \in Seq(Job)
      BY <1>1, LinesApart DEF TypeOK
    <2>2. \A w \in busy : job[w] # j
      BY <1>1 DEF PipeInv, Handed
    <2> QED  BY <1>1, <1>2, <2>1, <2>2, LineGrows, OthersKept DEF PipeInv
  <1>4. f[j] = "queued" /\ \A i \in Job : i # j => f[i] = fate[i]
    BY <1>1, OthersKept DEF TypeOK
  <1>5. /\ LocalPipeline!StartFrom(q, At(busy, job, LocalMen))
        /\ Line(localQueue', fate') /\ Line(transferQueue', fate') /\ Handed(busy', job', fate')
        /\ \A i \in Job : fate'[i] = "new" <=> f[i] = "new"
        /\ At(busy', job', TransferMen) = At(busy, job, TransferMen)
        /\ transferQueue' = transferQueue /\ busy \subseteq busy'
        /\ localQueue' # << >> => 0 \in busy'
    <2> HIDE DEF q, f
    <2>1. PICK b, p : b = busy /\ p = pc
      OBVIOUS
    <2> QED  BY <1>1, <1>2, <1>3, <2>1, StartsLocal
  <1>6. PipeInv'
    BY <1>1, <1>5 DEF PipeInv, NoneIdle, WarnsKept
  <1>7. Submitted(LocalJob)' = Submitted(LocalJob) \cup {j} /\ j \notin Submitted(LocalJob)
    BY <1>1, <1>4, <1>5 DEF Submitted, Job
  <1>8. LocalPipeline!Submit(j)
    BY <1>1, <1>5, <1>7, RunningFacts DEF LocalPipeline!Submit, WarnsKept
  <1>9. TransfersRest
    <2>1. \A i \in TransferJob : fate'[i] = "new" <=> fate[i] = "new"
      BY <1>1, <1>4, <1>5, JobAssumption DEF Job
    <2> QED  BY <1>1, <1>5, <2>1, Rests DEF WarnsKept
  <1> QED  BY <1>1, <1>6, <1>8, <1>9

LEMMA TransferEnqueued ==
  ASSUME QueueInv, PipeInv, NEW j \in Job, EnqueueTransfer(j)
  PROVE  PipeInv' /\ TransferPipeline!Submit(j) /\ j \in TransferJob /\ LocalRests
  <1> DEFINE q == Append(transferQueue, j)
             f == [fate EXCEPT ![j] = "queued"]
  <1>1. /\ TypeOK /\ j \in TransferJob /\ fate[j] = "new" /\ limit' = limit
        /\ pool' = (IF pool = 0 THEN limit ELSE pool)
        /\ StartTransfers(q, pool', limit, busy, pc, job, f) /\ WarnsKept
    BY PromptsKept DEF EnqueueTransfer, QueueInv, guiVars
  <1>2. q \in Seq(TransferJob) /\ localQueue \in Seq(LocalJob) /\ busy \in SUBSET Worker
    BY <1>1, AppendProperties DEF TypeOK
  <1>3. Line(q, f) /\ Line(localQueue, f) /\ Handed(busy, job, f)
    <2>1. localQueue \in Seq(Job) /\ transferQueue \in Seq(Job)
      BY <1>1, LinesApart DEF TypeOK
    <2>2. \A w \in busy : job[w] # j
      BY <1>1 DEF PipeInv, Handed
    <2> QED  BY <1>1, <1>2, <2>1, <2>2, LineGrows, OthersKept DEF PipeInv
  <1>4. f[j] = "queued" /\ \A i \in Job : i # j => f[i] = fate[i]
    BY <1>1, OthersKept DEF TypeOK
  <1>5. PICK n, m : /\ n = pool' /\ m = limit /\ n \in 0 .. PoolCap /\ m \in 1 .. PoolCap /\ m <= n /\ n # 0
    BY <1>1, PoolAssumption DEF TypeOK, PipeInv, NoneIdle
  <1>6. /\ TransferPipeline!StartFrom(q, At(busy, job, TransferMen))
        /\ Line(localQueue', fate') /\ Line(transferQueue', fate') /\ Handed(busy', job', fate')
        /\ \A i \in Job : fate'[i] = "new" <=> f[i] = "new"
        /\ At(busy', job', LocalMen) = At(busy, job, LocalMen)
        /\ localQueue' = localQueue /\ busy \subseteq busy'
        /\ transferQueue' # << >> => 1 .. m \subseteq busy' /\ n # 0
    <2> HIDE DEF q, f
    <2>1. PICK b, p : b = busy /\ p = pc
      OBVIOUS
    <2>2. StartTransfers(q, n, m, b, p, job, f) /\ limit' = m
      BY <1>1, <1>5, <2>1
    <2> QED  BY <1>1, <1>2, <1>3, <1>5, <2>1, <2>2, StartsTransfers
  <1>7. PipeInv'
    <2>1. NoneIdle'
      BY <1>1, <1>5, <1>6 DEF PipeInv, NoneIdle, WarnsKept
    <2> QED  BY <1>6, <2>1 DEF PipeInv
  <1>8. Submitted(TransferJob)' = Submitted(TransferJob) \cup {j} /\ j \notin Submitted(TransferJob)
    BY <1>1, <1>4, <1>6 DEF Submitted, Job
  <1>9. TransferPipeline!Submit(j)
    BY <1>1, <1>6, <1>8, RunningFacts DEF TransferPipeline!Submit, WarnsKept
  <1>10. LocalRests
    <2>1. \A i \in LocalJob : fate'[i] = "new" <=> fate[i] = "new"
      BY <1>1, <1>4, <1>6, JobAssumption DEF Job
    <2> QED  BY <1>1, <1>6, <2>1, Rests DEF WarnsKept
  <1> QED  BY <1>1, <1>7, <1>9, <1>10

LEMMA LimitSet ==
  ASSUME QueueInv, PipeInv, NEW k \in 0 .. PoolCap + 1, SetLimit(k)
  PROVE  PipeInv' /\ LocalRests /\ \E m \in 1 .. PoolCap : TransferPipeline!SetLimit(m)
  <1>1. /\ TypeOK /\ localQueue \in Seq(LocalJob) /\ transferQueue \in Seq(TransferJob) /\ busy \in SUBSET Worker
        /\ Line(transferQueue, fate) /\ Line(localQueue, fate) /\ Handed(busy, job, fate) /\ WarnsKept
    BY PromptsKept DEF QueueInv, TypeOK, PipeInv, SetLimit, guiVars
  <1>2. PICK m \in 1 .. PoolCap : m = limit'
    BY PoolAssumption DEF SetLimit, Clamped
  <1>3. PICK n \in 0 .. PoolCap : /\ n = pool' /\ (n = 0 => pool = 0) /\ (n = 0 \/ m <= n)
    BY <1>1, <1>2, PoolAssumption DEF SetLimit, TypeOK
  <1>4. transferQueue # << >> => m <= n
    BY <1>2, <1>3 DEF PipeInv, NoneIdle
  <1>5. /\ TransferPipeline!StartFrom(transferQueue, At(busy, job, TransferMen))
        /\ Line(localQueue', fate') /\ Line(transferQueue', fate') /\ Handed(busy', job', fate')
        /\ \A i \in Job : fate'[i] = "new" <=> fate[i] = "new"
        /\ At(busy', job', LocalMen) = At(busy, job, LocalMen)
        /\ localQueue' = localQueue /\ busy \subseteq busy'
        /\ transferQueue' # << >> => 1 .. m \subseteq busy' /\ n # 0
    <2>1. PICK b, p, q, f : b = busy /\ p = pc /\ q = transferQueue /\ f = fate
      OBVIOUS
    <2>2. StartTransfers(q, n, m, b, p, job, f) /\ limit' = m
      BY <1>2, <1>3, <2>1 DEF SetLimit
    <2> QED  BY <1>1, <1>2, <1>3, <1>4, <2>1, <2>2, StartsTransfers
  <1>6. PipeInv'
    <2>1. NoneIdle'
      BY <1>1, <1>2, <1>3, <1>5 DEF PipeInv, NoneIdle, WarnsKept
    <2> QED  BY <1>5, <2>1 DEF PipeInv
  <1>7. Submitted(TransferJob)' = Submitted(TransferJob)
    BY <1>5 DEF Submitted, Job
  <1>8. TransferPipeline!SetLimit(m)
    BY <1>1, <1>2, <1>5, <1>7, RunningFacts DEF TransferPipeline!SetLimit, WarnsKept
  <1>9. LocalRests
    BY <1>1, <1>5, Rests DEF Job, WarnsKept
  <1> QED  BY <1>6, <1>8, <1>9

\* Worker w has come to the end of job j, and is idle: b work on, f is what became of
\* the jobs.
Released(w, j, b, f) ==
  /\ w = Head(events).worker /\ w \in busy /\ w \notin b
  /\ j = job[w] /\ j \in Mine(w)
  /\ Line(localQueue, f) /\ Line(transferQueue, f) /\ Handed(b, job, f)
  /\ \A i \in Job : f[i] = "new" <=> fate[i] = "new"
  /\ \A P \in SUBSET Worker : w \notin P => At(b, job, P) = At(busy, job, P)
  /\ \A P \in SUBSET Worker : w \in P => At(b, job, P) = At(busy, job, P) \ {j} /\ j \in At(busy, job, P)

LEMMA JobReleased ==
  ASSUME QueueInv, PipeInv, HandleDone \/ HandleDoneWarned
  PROVE  \E w \in Worker, j \in Job : Released(w, j, busy \ {w}, [fate EXCEPT ![job[w]] = "done"])
  <1>1. PICK w \in Worker : w = Head(events).worker /\ pc[w] = "reported" /\ w \in busy
    <2>1. PICK w \in Worker : w = Head(events).worker
      BY HeadFacts DEF HandleDone, HandleDoneWarned, Posted, QueueInv
    <2>2. Len(events) \in Nat \ {0} /\ Head(events) = events[1] /\ 1 \in 1 .. Len(events)
      BY EmptySeq, HeadTailProperties DEF HandleDone, HandleDoneWarned, Posted, QueueInv, TypeOK
    <2>3. pc[w] = "reported"
      BY <2>1, <2>2 DEF HandleDone, HandleDoneWarned, Posted, QueueInv, Talk, Some
    <2> QED  BY <2>1, <2>3 DEF QueueInv, BusyWorks
  <1>2. /\ TypeOK /\ localQueue \in Seq(LocalJob) /\ transferQueue \in Seq(TransferJob) /\ busy \in SUBSET Worker
        /\ Line(transferQueue, fate) /\ Line(localQueue, fate) /\ Handed(busy, job, fate)
        /\ localQueue \in Seq(Job) /\ transferQueue \in Seq(Job)
    BY LinesApart DEF QueueInv, TypeOK, PipeInv
  <1>3. PICK j \in Job : j = job[w] /\ j \in Mine(w) /\ fate[j] = "started"
    BY <1>1, <1>2 DEF Handed, Mine, Job
  <1>4. PICK b \in SUBSET Worker : b = busy \ {w}
    BY <1>2
  <1>5. PICK f : f = [fate EXCEPT ![j] = "done"]
    OBVIOUS
  <1>6. /\ Line(localQueue, f) /\ Line(transferQueue, f) /\ Handed(b, job, f)
        /\ \A i \in Job : f[i] = "new" <=> fate[i] = "new"
    <2>1. Handed(b, job, fate) /\ \A v \in b : job[v] # j
      BY <1>1, <1>2, <1>3, <1>4 DEF Handed
    <2>2. f[j] = "done" /\ \A i \in Job : i # j => f[i] = fate[i]
      BY <1>2, <1>5 DEF TypeOK
    <2> QED  BY <1>2, <1>3, <1>4, <1>5, <2>1, <2>2, OthersKept
  <1>7. /\ \A P \in SUBSET Worker : w \notin P => At(b, job, P) = At(busy, job, P)
        /\ \A P \in SUBSET Worker : w \in P => At(b, job, P) = At(busy, job, P) \ {j} /\ j \in At(busy, job, P)
    <2>1. ASSUME NEW P \in SUBSET Worker, w \notin P PROVE At(b, job, P) = At(busy, job, P)
      <3>1. b \cap P = busy \cap P
        BY <1>4, <2>1
      <3> QED  BY <3>1 DEF At
    <2>2. ASSUME NEW P \in SUBSET Worker, w \in P
          PROVE  At(b, job, P) = At(busy, job, P) \ {j} /\ j \in At(busy, job, P)
      <3>1. \A v \in busy : job[v] = j <=> v = w
        BY <1>1, <1>2, <1>3 DEF Handed
      <3> QED  BY <1>1, <1>3, <1>4, <2>2, <3>1 DEF At
    <2> QED  BY <2>1, <2>2
  <1>8. Released(w, j, b, f)
    BY <1>1, <1>3, <1>4, <1>6, <1>7 DEF Released
  <1> QED  BY <1>3, <1>4, <1>5, <1>8

LEMMA JobFinished ==
  ASSUME QueueInv, PipeInv, HandleDone
  PROVE  /\ PipeInv'
         /\ \/ TransfersRest /\ \E j \in LocalJob : LocalPipeline!Finish(j)
            \/ LocalRests /\ \E j \in TransferJob : TransferPipeline!Finish(j)
  <1>1. PICK w \in Worker, j \in Job : Released(w, j, busy \ {w}, [fate EXCEPT ![job[w]] = "done"])
    BY JobReleased
  <1>2. /\ TypeOK /\ localQueue \in Seq(LocalJob) /\ transferQueue \in Seq(TransferJob) /\ busy \in SUBSET Worker
        /\ UNCHANGED <<limit, pool>> /\ WarnsKept
    BY PromptsKept DEF QueueInv, TypeOK, HandleDone, poolVars
  <1>3. PICK b \in SUBSET Worker : b = busy \ {w}
    BY <1>2
  <1>4. PICK f, p : f = [fate EXCEPT ![job[w]] = "done"] /\ p = [pc EXCEPT ![w] = "idle"]
    OBVIOUS
  <1>5. w = Head(events).worker /\ w \in busy /\ j \in Mine(w)
    BY <1>1 DEF Released
  <1>6. /\ Line(localQueue, f) /\ Line(transferQueue, f) /\ Handed(b, job, f)
        /\ \A i \in Job : f[i] = "new" <=> fate[i] = "new"
    BY <1>1, <1>3, <1>4 DEF Released
  <1>7. /\ \A P \in SUBSET Worker : w \notin P => At(b, job, P) = At(busy, job, P)
        /\ \A P \in SUBSET Worker : w \in P => At(b, job, P) = At(busy, job, P) \ {j} /\ j \in At(busy, job, P)
    BY <1>1, <1>3, <1>4 DEF Released
  <1>8. CASE w = 0
    <2>1. StartLocal(localQueue, b, p, job, f)
      BY <1>3, <1>4, <1>5, <1>8 DEF HandleDone
    <2>2. /\ LocalPipeline!StartFrom(localQueue, At(b, job, LocalMen))
          /\ Line(localQueue', fate') /\ Line(transferQueue', fate') /\ Handed(busy', job', fate')
          /\ \A i \in Job : fate'[i] = "new" <=> f[i] = "new"
          /\ At(busy', job', TransferMen) = At(b, job, TransferMen)
          /\ transferQueue' = transferQueue /\ b \subseteq busy'
          /\ localQueue' # << >> => 0 \in busy'
      <3>1. PICK q : q = localQueue
        OBVIOUS
      <3> QED  BY <1>2, <1>6, <2>1, <3>1, StartsLocal
    <2>3. PipeInv'
      <3>1. 0 \notin 1 .. limit
        OBVIOUS
      <3>2. NoneIdle'
        BY <1>2, <1>3, <1>8, <2>2, <3>1 DEF PipeInv, NoneIdle, WarnsKept
      <3> QED  BY <2>2, <3>2 DEF PipeInv
    <2>4. w \in LocalMen /\ w \notin TransferMen /\ j \in LocalJob
      BY <1>5, <1>8, MenFacts DEF LocalMen, Mine
    <2>5. Submitted(LocalJob)' = Submitted(LocalJob)
      BY <1>6, <2>2 DEF Submitted, Job
    <2>6. LocalPipeline!Finish(j)
      BY <1>2, <1>7, <2>2, <2>4, <2>5, RunningFacts, MenFacts DEF LocalPipeline!Finish, WarnsKept
    <2>7. TransfersRest
      BY <1>2, <1>6, <1>7, <2>2, <2>4, Rests, MenFacts DEF Job, WarnsKept
    <2> QED  BY <2>3, <2>4, <2>6, <2>7
  <1>9. CASE w # 0
    <2>1. StartTransfers(transferQueue, pool, limit, b, p, job, f)
      BY <1>3, <1>4, <1>5, <1>9 DEF HandleDone
    <2>2. PICK n \in 0 .. PoolCap, m \in 1 .. PoolCap : n = pool /\ m = limit /\ limit' = m
      BY <1>2 DEF TypeOK
    <2>3. transferQueue # << >> => m <= n
      BY <2>2 DEF PipeInv, NoneIdle
    <2>4. /\ TransferPipeline!StartFrom(transferQueue, At(b, job, TransferMen))
          /\ Line(localQueue', fate') /\ Line(transferQueue', fate') /\ Handed(busy', job', fate')
          /\ \A i \in Job : fate'[i] = "new" <=> f[i] = "new"
          /\ At(busy', job', LocalMen) = At(b, job, LocalMen)
          /\ localQueue' = localQueue /\ b \subseteq busy'
          /\ transferQueue' # << >> => 1 .. m \subseteq busy' /\ n # 0
      <3>1. PICK q : q = transferQueue
        OBVIOUS
      <3>2. StartTransfers(q, n, m, b, p, job, f)
        BY <2>1, <2>2, <3>1
      <3> QED  BY <1>2, <1>6, <2>2, <2>3, <3>1, <3>2, StartsTransfers
    <2>5. PipeInv'
      <3>1. NoneIdle'
        BY <1>2, <1>3, <1>9, <2>2, <2>4 DEF PipeInv, NoneIdle, WarnsKept
      <3> QED  BY <2>4, <3>1 DEF PipeInv
    <2>6. w \notin LocalMen /\ w \in TransferMen /\ j \in TransferJob
      BY <1>5, <1>9, MenFacts DEF Mine
    <2>7. Submitted(TransferJob)' = Submitted(TransferJob)
      BY <1>6, <2>4 DEF Submitted, Job
    <2>8. TransferPipeline!Finish(j)
      BY <1>2, <1>7, <2>4, <2>6, <2>7, RunningFacts, MenFacts DEF TransferPipeline!Finish, WarnsKept
    <2>9. LocalRests
      BY <1>2, <1>6, <1>7, <2>4, <2>6, Rests, MenFacts DEF Job, WarnsKept
    <2> QED  BY <2>5, <2>6, <2>8, <2>9
  <1> QED  BY <1>8, <1>9

\* With a warning over it, the end of a job starts no other, and the pipeline of the
\* worker is held up.
LEMMA JobTold ==
  ASSUME QueueInv, PipeInv, HandleDoneWarned
  PROVE  /\ PipeInv'
         /\ \/ TransfersRest /\ \E j \in LocalJob : LocalPipeline!Tell(j)
            \/ LocalRests /\ \E j \in TransferJob : TransferPipeline!Tell(j)
  <1>1. PICK w \in Worker, j \in Job : Released(w, j, busy \ {w}, [fate EXCEPT ![job[w]] = "done"])
    BY JobReleased
  <1>2. /\ TypeOK /\ busy \in SUBSET Worker
        /\ UNCHANGED <<localQueue, transferQueue, limit, pool, job>>
    BY DEF QueueInv, TypeOK, HandleDoneWarned, poolVars, queueVars
  <1>3. w = Head(events).worker /\ w \in busy /\ j \in Mine(w)
    BY <1>1 DEF Released
  <1>4. busy' = busy \ {w} /\ fate' = [fate EXCEPT ![job[w]] = "done"]
        /\ prompts' = Append(prompts, [is |-> "warning", worker |-> w])
    BY <1>3 DEF HandleDoneWarned
  <1>5. WarnComes(w)
    BY <1>2, <1>4, WarningComes
  <1>6. /\ Line(localQueue', fate') /\ Line(transferQueue', fate') /\ Handed(busy', job', fate')
        /\ \A i \in Job : fate'[i] = "new" <=> fate[i] = "new"
    BY <1>1, <1>2, <1>4 DEF Released
  <1>7. /\ \A P \in SUBSET Worker : w \notin P => At(busy', job', P) = At(busy, job, P)
        /\ \A P \in SUBSET Worker : w \in P => At(busy', job', P) = At(busy, job, P) \ {j} /\ j \in At(busy, job, P)
    BY <1>1, <1>2, <1>4 DEF Released
  <1>8. Submitted(LocalJob)' = Submitted(LocalJob) /\ Submitted(TransferJob)' = Submitted(TransferJob)
    BY <1>6 DEF Submitted, Job
  <1>9. CASE w = 0
    <2>1. w \in {0} /\ w \notin 1 .. PoolCap /\ w \in LocalMen /\ w \notin TransferMen /\ j \in LocalJob
      BY <1>3, <1>9, MenFacts DEF LocalMen, Mine
    <2>2. /\ Warnings(1 .. PoolCap)' = Warnings(1 .. PoolCap)
          /\ Held({0})' = Held({0}) + 1 /\ Warnings({0})' # {}
      BY <1>5, <2>1 DEF WarnComes
    <2>3. PipeInv'
      <3>1. 1 .. limit \subseteq busy => 1 .. limit' \subseteq busy'
        BY <1>2, <1>4, <1>9
      <3> QED  BY <1>2, <1>6, <2>2, <3>1 DEF PipeInv, NoneIdle
    <2>4. LocalPipeline!Tell(j)
      BY <1>2, <1>7, <1>8, <2>1, <2>2, RunningFacts, MenFacts DEF LocalPipeline!Tell, Held
    <2>5. TransfersRest
      BY <1>2, <1>6, <1>7, <2>1, <2>2, Rests, MenFacts DEF Job
    <2> QED  BY <2>1, <2>3, <2>4, <2>5
  <1>10. CASE w # 0
    <2>1. w \notin {0} /\ w \in 1 .. PoolCap /\ w \notin LocalMen /\ w \in TransferMen /\ j \in TransferJob
      BY <1>3, <1>10, MenFacts DEF TransferMen, Mine
    <2>2. /\ Warnings({0})' = Warnings({0})
          /\ Held(1 .. PoolCap)' = Held(1 .. PoolCap) + 1 /\ Warnings(1 .. PoolCap)' # {}
      BY <1>5, <2>1 DEF WarnComes
    <2>3. PipeInv'
      <3>1. 0 \in busy => 0 \in busy'
        BY <1>4, <1>10
      <3> QED  BY <1>2, <1>6, <2>2, <3>1 DEF PipeInv, NoneIdle
    <2>4. TransferPipeline!Tell(j)
      BY <1>2, <1>7, <1>8, <2>1, <2>2, RunningFacts, MenFacts DEF TransferPipeline!Tell, Held
    <2>5. LocalRests
      BY <1>2, <1>6, <1>7, <2>1, <2>2, Rests, MenFacts DEF Job
    <2> QED  BY <2>1, <2>3, <2>4, <2>5
  <1> QED  BY <1>9, <1>10

\* When the warning is read, what it held up starts.
LEMMA JobHeard ==
  ASSUME QueueInv, PipeInv, DismissWarning
  PROVE  /\ PipeInv'
         /\ \/ TransfersRest /\ LocalPipeline!Told
            \/ LocalRests /\ TransferPipeline!Told
  <1>1. PICK w \in Worker : w = Top.worker /\ WarnGoes(w)
    BY WarningGoes DEF QueueInv
  <1>2. /\ TypeOK /\ localQueue \in Seq(LocalJob) /\ transferQueue \in Seq(TransferJob)
        /\ Line(transferQueue, fate) /\ Line(localQueue, fate) /\ Handed(busy, job, fate)
        /\ UNCHANGED <<limit, pool>>
    BY DEF QueueInv, TypeOK, PipeInv, DismissWarning, poolVars
  <1>0. PICK p, f : p = pc /\ f = fate
    OBVIOUS
  <1>3. PICK b \in SUBSET Worker, n \in 0 .. PoolCap, m \in 1 .. PoolCap :
          b = busy /\ n = pool /\ m = limit /\ p = pc /\ f = fate
    BY <1>0, <1>2 DEF TypeOK
  <1>4. \A P : Held(P) \in Nat
    BY <1>2, HeldFacts
  <1>5. CASE w = 0
    <2>1. /\ LocalPipeline!StartFrom(localQueue, At(b, job, LocalMen))
          /\ Line(localQueue', fate') /\ Line(transferQueue', fate') /\ Handed(busy', job', fate')
          /\ \A i \in Job : fate'[i] = "new" <=> f[i] = "new"
          /\ At(busy', job', TransferMen) = At(b, job, TransferMen)
          /\ transferQueue' = transferQueue /\ b \subseteq busy'
          /\ localQueue' # << >> => 0 \in busy'
      <3>1. PICK q : q = localQueue
        OBVIOUS
      <3>2. StartLocal(q, b, p, job, f)
        BY <1>1, <1>3, <1>5, <3>1 DEF DismissWarning
      <3> QED  BY <1>2, <1>3, <3>1, <3>2, StartsLocal
    <2>2. /\ Warnings(1 .. PoolCap)' = Warnings(1 .. PoolCap)
          /\ Held({0}) = Held({0})' + 1
      <3>1. w \in {0} /\ w \notin 1 .. PoolCap
        BY <1>5
      <3> QED  BY <1>1, <3>1 DEF WarnGoes
    <2>3. PipeInv'
      <3>1. NoneIdle'
        BY <1>2, <1>3, <2>1, <2>2 DEF PipeInv, NoneIdle
      <3> QED  BY <2>1, <3>1 DEF PipeInv
    <2>4. Submitted(LocalJob)' = Submitted(LocalJob)
      BY <1>3, <2>1 DEF Submitted, Job
    <2>5. Held({0})' \in Nat
      <3>1. TypeOK'
        BY QueueStep DEF QueueInv, Next
      <3> QED  BY <3>1, WarnsFinite, WarningsAre DEF TypeOK, Held
    <2>6. Held({0}) > 0 /\ Held({0})' = Held({0}) - 1
      BY <1>4, <2>2, <2>5
    <2>7. LocalPipeline!Told
      BY <1>3, <2>1, <2>4, <2>6, RunningFacts DEF LocalPipeline!Told, Held
    <2>8. TransfersRest
      BY <1>2, <1>3, <2>1, <2>2, Rests DEF Job
    <2> QED  BY <2>3, <2>7, <2>8
  <1>6. CASE w # 0
    <2>0. w \notin {0} /\ w \in 1 .. PoolCap
      BY <1>6 DEF Worker
    <2>1. /\ TransferPipeline!StartFrom(transferQueue, At(b, job, TransferMen))
          /\ Line(localQueue', fate') /\ Line(transferQueue', fate') /\ Handed(busy', job', fate')
          /\ \A i \in Job : fate'[i] = "new" <=> f[i] = "new"
          /\ At(busy', job', LocalMen) = At(b, job, LocalMen)
          /\ localQueue' = localQueue /\ b \subseteq busy'
          /\ transferQueue' # << >> => 1 .. m \subseteq busy' /\ n # 0
      <3>1. PICK q : q = transferQueue
        OBVIOUS
      <3>2. StartTransfers(q, n, m, b, p, job, f) /\ limit' = m
        BY <1>1, <1>2, <1>3, <1>6, <3>1 DEF DismissWarning
      <3>3. q # << >> => m <= n
        BY <1>3, <3>1 DEF PipeInv, NoneIdle
      <3> QED  BY <1>2, <1>3, <3>1, <3>2, <3>3, StartsTransfers
    <2>2. /\ Warnings({0})' = Warnings({0})
          /\ Held(1 .. PoolCap) = Held(1 .. PoolCap)' + 1
      BY <1>1, <2>0 DEF WarnGoes
    <2>3. PipeInv'
      <3>1. NoneIdle'
        BY <1>2, <1>3, <2>1, <2>2 DEF PipeInv, NoneIdle
      <3> QED  BY <2>1, <3>1 DEF PipeInv
    <2>4. Submitted(TransferJob)' = Submitted(TransferJob)
      BY <1>3, <2>1 DEF Submitted, Job
    <2>5. Held(1 .. PoolCap)' \in Nat
      <3>1. TypeOK'
        BY QueueStep DEF QueueInv, Next
      <3> QED  BY <3>1, WarnsFinite, WarningsAre DEF TypeOK, Held
    <2>6. Held(1 .. PoolCap) > 0 /\ Held(1 .. PoolCap)' = Held(1 .. PoolCap) - 1
      BY <1>4, <2>2, <2>5
    <2>7. TransferPipeline!Told
      BY <1>2, <1>3, <2>1, <2>4, <2>6, RunningFacts DEF TransferPipeline!Told, Held
    <2>8. LocalRests
      BY <1>2, <1>3, <2>1, <2>2, Rests DEF Job
    <2> QED  BY <2>3, <2>7, <2>8
  <1> QED  BY <1>5, <1>6

\* A step that hands out and takes back nothing.
LEMMA NothingHanded ==
  ASSUME QueueInv, PipeInv, UNCHANGED <<busy, job, limit, pool>>, WarnsKept,
         UNCHANGED <<localQueue, transferQueue, fate>> \/ DropQueued
  PROVE  /\ PipeInv'
         /\ LocalRests \/ LocalPipeline!Drop
         /\ TransfersRest \/ TransferPipeline!Drop
  <1>1. CASE UNCHANGED <<localQueue, transferQueue, fate>>
    <2>1. PipeInv'
      BY <1>1 DEF PipeInv, NoneIdle, WarnsKept
    <2>2. LocalRests /\ TransfersRest
      BY <1>1, Rests DEF WarnsKept
    <2> QED  BY <2>1, <2>2
  <1>2. CASE DropQueued
    <2>1. /\ localQueue' = << >> /\ transferQueue' = << >>
          /\ \A j \in Job : fate'[j] = IF fate[j] = "queued" THEN "dropped" ELSE fate[j]
      BY <1>2 DEF DropQueued
    <2>2. PipeInv'
      <3>1. Line(localQueue', fate') /\ Line(transferQueue', fate')
        BY <2>1, EmptySeq DEF Line
      <3>2. \A w \in busy : job[w] \in Job
        BY DEF PipeInv, Handed, Mine, Job
      <3>3. Handed(busy', job', fate')
        BY <2>1, <3>2 DEF PipeInv, Handed
      <3> QED  BY <2>1, <3>1, <3>3 DEF PipeInv, NoneIdle
    <2>3. Submitted(LocalJob)' = Submitted(LocalJob) /\ Submitted(TransferJob)' = Submitted(TransferJob)
      BY <2>1 DEF Submitted, Job
    <2>4. InFlight({0})' = InFlight({0}) /\ InFlight(1 .. PoolCap)' = InFlight(1 .. PoolCap)
      BY DEF InFlight
    <2> QED  BY <2>1, <2>2, <2>3, <2>4 DEF LocalPipeline!Drop, TransferPipeline!Drop, WarnsKept
  <1> QED  BY <1>1, <1>2

LEMMA PipeInit == Init => PipeInv /\ LocalPipeline!Init /\ TransferPipeline!Init
  <1> SUFFICES ASSUME Init PROVE PipeInv /\ LocalPipeline!Init /\ TransferPipeline!Init
    OBVIOUS
  <1>1. /\ localQueue = << >> /\ transferQueue = << >> /\ busy = {} /\ pool = 0 /\ limit \in 1 .. PoolCap
        /\ \A j \in Job : fate[j] = "new"
    BY PoolAssumption DEF Init
  <1>2. Line(localQueue, fate) /\ Line(transferQueue, fate)
    BY <1>1, EmptySeq DEF Line
  <1>3. PipeInv
    BY <1>1, <1>2 DEF PipeInv, Handed, NoneIdle
  <1>4. InFlight({0}) = {} /\ InFlight(1 .. PoolCap) = {} /\ Submitted(LocalJob) = {} /\ Submitted(TransferJob) = {}
    BY <1>1 DEF InFlight, Submitted, Job
  <1>5. 1 \in 1 .. 1
    OBVIOUS
  <1>6. \A P : Cardinality(Warnings(P)) = 0
    <2>1. \A P : Warnings(P) = {}
      BY EmptySeq DEF Init, Warnings
    <2> QED  BY <2>1, FS_EmptySet
  <1> QED  BY <1>1, <1>3, <1>4, <1>5, <1>6 DEF LocalPipeline!Init, TransferPipeline!Init

LEMMA PipeStep ==
  ASSUME QueueInv, PipeInv, [Next]_vars
  PROVE  PipeInv' /\ [LocalPipeline!Next]_(LocalPipeline!vars) /\ [TransferPipeline!Next]_(TransferPipeline!vars)
  <1>1. ASSUME NEW j \in Job, EnqueueLocal(j)
        PROVE  PipeInv' /\ (LocalRests \/ LocalPipeline!Next) /\ (TransfersRest \/ TransferPipeline!Next)
    <2>1. PipeInv' /\ LocalPipeline!Submit(j) /\ j \in LocalJob /\ TransfersRest
      BY <1>1, LocalEnqueued
    <2> QED  BY <2>1 DEF LocalPipeline!Next
  <1>2. ASSUME NEW j \in Job, EnqueueTransfer(j)
        PROVE  PipeInv' /\ (LocalRests \/ LocalPipeline!Next) /\ (TransfersRest \/ TransferPipeline!Next)
    <2>1. PipeInv' /\ TransferPipeline!Submit(j) /\ j \in TransferJob /\ LocalRests
      BY <1>2, TransferEnqueued
    <2> QED  BY <2>1 DEF TransferPipeline!Next
  <1>3. ASSUME NEW k \in 0 .. PoolCap + 1, SetLimit(k)
        PROVE  PipeInv' /\ (LocalRests \/ LocalPipeline!Next) /\ (TransfersRest \/ TransferPipeline!Next)
    <2>1. PipeInv' /\ LocalRests /\ \E m \in 1 .. PoolCap : TransferPipeline!SetLimit(m)
      BY <1>3, LimitSet
    <2> QED  BY <2>1 DEF TransferPipeline!Next
  <1>4. ASSUME HandleDone
        PROVE  PipeInv' /\ (LocalRests \/ LocalPipeline!Next) /\ (TransfersRest \/ TransferPipeline!Next)
    <2>1. /\ PipeInv'
          /\ \/ TransfersRest /\ \E j \in LocalJob : LocalPipeline!Finish(j)
             \/ LocalRests /\ \E j \in TransferJob : TransferPipeline!Finish(j)
      BY <1>4, JobFinished
    <2> QED  BY <2>1 DEF LocalPipeline!Next, TransferPipeline!Next
  <1>8. ASSUME HandleDoneWarned
        PROVE  PipeInv' /\ (LocalRests \/ LocalPipeline!Next) /\ (TransfersRest \/ TransferPipeline!Next)
    <2>1. /\ PipeInv'
          /\ \/ TransfersRest /\ \E j \in LocalJob : LocalPipeline!Tell(j)
             \/ LocalRests /\ \E j \in TransferJob : TransferPipeline!Tell(j)
      BY <1>8, JobTold
    <2> QED  BY <2>1 DEF LocalPipeline!Next, TransferPipeline!Next
  <1>9. ASSUME DismissWarning
        PROVE  PipeInv' /\ (LocalRests \/ LocalPipeline!Next) /\ (TransfersRest \/ TransferPipeline!Next)
    BY <1>9, JobHeard DEF LocalPipeline!Next, TransferPipeline!Next
  <1>5. ASSUME UNCHANGED <<busy, job, limit, pool>>, UNCHANGED <<localQueue, transferQueue, fate>> \/ DropQueued,
               WarnsKept
        PROVE  PipeInv' /\ (LocalRests \/ LocalPipeline!Next) /\ (TransfersRest \/ TransferPipeline!Next)
    BY <1>5, NothingHanded DEF LocalPipeline!Next, TransferPipeline!Next
  <1>6. \/ \E j \in Job : EnqueueLocal(j) \/ EnqueueTransfer(j)
        \/ \E k \in 0 .. PoolCap + 1 : SetLimit(k)
        \/ HandleDone \/ HandleDoneWarned \/ DismissWarning
        \/ UNCHANGED <<busy, job, limit, pool>> /\ (UNCHANGED <<localQueue, transferQueue, fate>> \/ DropQueued) /\ WarnsKept
    <2>1. CASE CancelActiveJobs \/ AbortAll \/ PauseCurrent \/ ResumeCurrent \/ CloseWindow
      BY <2>1, PromptsKept DEF CancelActiveJobs, AbortAll, PauseCurrent, ResumeCurrent, SetPaused, CloseWindow,
                  queueVars, poolVars, runVars, guiVars
    <2>2. CASE Answer
      BY <2>2, AnswerMoves, QuestionsDoNotWarn DEF AnswerMove, QueueInv
    <2>3. CASE \E w \in Worker : WorkerStep(w)
      BY <2>3, WorkerMoves, PromptsKept DEF WorkerMove, QueueInv
    <2>4. CASE HandleAsk \/ Join \/ JoinDone
      BY <2>4, QuestionsDoNotWarn, PromptsKept
      DEF HandleAsk, Join, JoinDone, queueVars, poolVars, runVars, QueueInv
    <2>5. CASE UNCHANGED vars
      BY <2>5, PromptsKept DEF vars, queueVars, poolVars, runVars, guiVars
    <2> QED  BY <2>1, <2>2, <2>3, <2>4, <2>5 DEF Next, UserStep
  <1>7. PipeInv' /\ (LocalRests \/ LocalPipeline!Next) /\ (TransfersRest \/ TransferPipeline!Next)
    BY <1>1, <1>2, <1>3, <1>4, <1>5, <1>6, <1>8, <1>9
  <1> QED  BY <1>7 DEF LocalRests, TransfersRest

\* OperationQueue runs its local jobs one at a time in the order they were queued,
\* and its transfers in order on at most PoolCap workers, whatever questions,
\* cancellations, pauses, aborts and changes of the limit come between: every job is
\* started at most once, none waits beside an idle worker within the limit except while
\* the main window's slot for finished() holds up the end of an earlier job with a
\* warning (OperationQueue.cpp:346-350), and an abort drops what has not started and
\* nothing else.
THEOREM PipelinesAreKept == Spec => PipelinesRefine
  <1>1. Init => QueueInv /\ PipeInv /\ LocalPipeline!Init /\ TransferPipeline!Init
    BY QueueInit, PipeInit
  <1>2. QueueInv /\ PipeInv /\ [Next]_vars => QueueInv' /\ PipeInv'
    BY QueueStep, PipeStep
  <1>3. QueueInv /\ PipeInv /\ [Next]_vars
          => [LocalPipeline!Next]_(LocalPipeline!vars) /\ [TransferPipeline!Next]_(TransferPipeline!vars)
    BY PipeStep
  <1> QED
    BY <1>1, <1>2, <1>3, PTL
    DEF Spec, PipelinesRefine, LocalRefines, TransfersRefine, LocalPipeline!Spec, TransferPipeline!Spec

-----------------------------------------------------------------------------
(* The queue goes on as it does alone                                      *)

LEMMA WindowSteps == [WNext]_wvars => [Next]_vars
  <1> SUFFICES ASSUME [WNext]_wvars PROVE [Next]_vars
    OBVIOUS
  <1> USE DEF Next, UserStep, Answer
  <1>1. CASE Enqueue \/ Resize \/ JobDone \/ JobDoneWarned \/ WarningRead \/ OpenQuestion
    BY <1>1 DEF Enqueue, Resize, JobDone, JobDoneWarned, WarningRead, OpenQuestion
  <1>2. CASE AnswerQuestion \/ AnswerWithAbort
    BY <1>2 DEF AnswerQuestion, AnswerWithAbort
  <1>3. CASE ClickAbort \/ ClickPause
    BY <1>3 DEF ClickAbort, ClickPause
  <1>4. CASE CloseProgress \/ BigProgress \/ ErrorMessage \/ ShowTimerFires \/ HideTimerFires
    BY <1>4 DEF CloseProgress, BigProgress, ErrorMessage, ShowTimerFires, HideTimerFires
  <1>5. CASE Close \/ Destroy \/ \E w \in Worker : ThreadStep(w)
    BY <1>5 DEF Close, Destroy, ThreadStep
  <1>6. CASE UNCHANGED wvars
    BY <1>6 DEF wvars
  <1> QED  BY <1>1, <1>2, <1>3, <1>4, <1>5, <1>6 DEF WNext

\* What the queue hands out, counted.
LEMMA HandsCounted ==
  ASSUME NEW ws \in SUBSET Worker, NEW J, J \subseteq Job, NEW q \in Seq(J),
         NEW b \in SUBSET Worker, NEW p, NEW jb, NEW f, StartNext(ws, q, b, p, jb, f), ws \cap b = {}
  PROVE  /\ HandedOut(b) \in 0 .. Len(q) /\ b \subseteq busy' /\ busy' \subseteq Worker
         /\ Len(Remainder(ws, q)) = Len(q) - HandedOut(b)
  <1>1. HandedOutBy(ws, J, q, b, p, jb, f, Served(ws, q), Cardinality(Served(ws, q)))
    BY Hands
  <1>2. PICK s, k : /\ k = Cardinality(s) /\ busy' = b \cup s /\ s \subseteq ws /\ k \in 0 .. Len(q)
                    /\ Len(Remainder(ws, q)) = Len(q) - k
    BY <1>1 DEF HandedOutBy
  <1>3. busy' \ b = s
    BY <1>2
  <1> QED  BY <1>2, <1>3 DEF HandedOut

LEMMA WorkersCounted ==
  ASSUME NEW b \in SUBSET Worker
  PROVE  /\ IsFiniteSet(b) /\ Cardinality(b) \in Nat /\ (Cardinality(b) = 0 <=> b = {})
         /\ \A c \in SUBSET Worker : b \subseteq c => Cardinality(c) = Cardinality(b) + Cardinality(c \ b)
                                                       /\ Cardinality(c \ b) \in Nat
                                                       /\ (Cardinality(c \ b) = 0 <=> c = b)
         /\ \A w \in b : Cardinality(b \ {w}) = Cardinality(b) - 1
  <1>1. \A c \in SUBSET Worker : IsFiniteSet(c) /\ Cardinality(c) \in Nat /\ (Cardinality(c) = 0 <=> c = {})
    BY RankFacts, FS_EmptySet
  <1>2. ASSUME NEW c \in SUBSET Worker, b \subseteq c
        PROVE  Cardinality(c) = Cardinality(b) + Cardinality(c \ b) /\ Cardinality(c \ b) \in Nat
               /\ (Cardinality(c \ b) = 0 <=> c = b)
    <2>1. c \ b \in SUBSET Worker /\ b \cap (c \ b) = {} /\ b \cup (c \ b) = c
      BY <1>2
    <2>2. Cardinality(b \cup (c \ b)) = Cardinality(b) + Cardinality(c \ b) - Cardinality(b \cap (c \ b))
      BY <1>1, <2>1, FS_Union
    <2>3. Cardinality(b \cap (c \ b)) = 0
      BY <2>1, FS_EmptySet
    <2>4. Cardinality(b) \in Nat /\ Cardinality(c \ b) \in Nat
      BY <1>1, <2>1
    <2>5. c \ b = {} <=> c = b
      BY <1>2
    <2>6. Cardinality(c \ b) = 0 <=> c \ b = {}
      BY <1>1, <2>1
    <2> QED  BY <2>1, <2>2, <2>3, <2>4, <2>5, <2>6
  <1>3. ASSUME NEW w \in b PROVE Cardinality(b \ {w}) = Cardinality(b) - 1
    BY <1>1, FS_RemoveElement
  <1> QED  BY <1>1, <1>2, <1>3

OutOf(b, q) == Cardinality(b) + Cardinality(WarnsIn(q, Worker))

LEMMA OutIs == Out = OutOf(busy, prompts) /\ Out' = OutOf(busy', prompts')
  BY WarningsAre DEF Out, OutOf

\* The jobs that are out, before and after a step.
LEMMA OutFacts ==
  ASSUME QueueInv, [Next]_vars
  PROVE  /\ Out \in Nat /\ (Out = 0 <=> busy = {} /\ Warnings(Worker) = {})
         /\ Out' \in Nat /\ (Out' = 0 <=> busy' = {} /\ Warnings(Worker)' = {})
         /\ busy' = busy /\ WarnsKept => Out' = Out
  <1>1. ASSUME NEW b \in SUBSET Worker, NEW q \in Seq(Prompt)
        PROVE  OutOf(b, q) \in Nat /\ (OutOf(b, q) = 0 <=> b = {} /\ WarnsIn(q, Worker) = {})
    <2>1. Cardinality(b) \in Nat /\ (Cardinality(b) = 0 <=> b = {})
      BY WorkersCounted
    <2>2. Cardinality(WarnsIn(q, Worker)) \in Nat /\ (Cardinality(WarnsIn(q, Worker)) = 0 <=> WarnsIn(q, Worker) = {})
      BY WarnsFinite
    <2> QED  BY <2>1, <2>2 DEF OutOf
  <1>2. /\ busy \in SUBSET Worker /\ prompts \in Seq(Prompt)
        /\ busy' \in SUBSET Worker /\ prompts' \in Seq(Prompt)
    BY QueueStep DEF QueueInv, TypeOK
  <1>3. busy' = busy /\ WarnsKept => Out' = Out
    BY DEF Out, WarnsKept
  <1> QED  BY <1>1, <1>2, <1>3, OutIs, WarningsAre

LEMMA StartsCounted ==
  ASSUME QueueInv, \/ \E j \in Job : EnqueueLocal(j) \/ EnqueueTransfer(j)
                   \/ \E n \in 0 .. PoolCap + 1 : SetLimit(n)
  PROVE  /\ HandedOut(busy) \in Nat /\ busy \subseteq busy'
         /\ Out' = Out + HandedOut(busy)
         /\ HandedOut(busy) = 0 => busy' = busy
         /\ Out \in Nat /\ (busy # {} => Out # 0) /\ (Asked' <=> Asked)
  <1>1. Next /\ prompts' = prompts
    BY DEF Next, UserStep, EnqueueLocal, EnqueueTransfer, SetLimit, guiVars
  <1>2. busy \subseteq busy'
    BY DEF EnqueueLocal, EnqueueTransfer, SetLimit, StartLocal, StartTransfers, StartNext
  <1>3. busy \in SUBSET Worker /\ busy' \in SUBSET Worker
    BY <1>1, QueueStep DEF QueueInv, TypeOK
  <1>4. /\ Cardinality(busy') = Cardinality(busy) + HandedOut(busy) /\ HandedOut(busy) \in Nat
        /\ HandedOut(busy) = 0 => busy' = busy
    BY <1>2, <1>3, WorkersCounted DEF HandedOut
  <1>5. Out = Cardinality(busy) + Held(Worker) /\ Out' = Cardinality(busy') + Held(Worker)
    BY <1>1, PromptsKept DEF Out, Held, WarnsKept
  <1>6. Held(Worker) \in Nat /\ Cardinality(busy) \in Nat
    BY <1>3, HeldFacts, WorkersCounted DEF QueueInv
  <1>7. Out \in Nat /\ (busy # {} => Out # 0) /\ (Asked' <=> Asked)
    BY <1>1, OutFacts DEF Asked
  <1> QED  BY <1>2, <1>4, <1>5, <1>6, <1>7

\* What the window must know of a step in which it hears of a result and n jobs start.
Ends(n) ==
  /\ n \in 0 .. Pending /\ Pending \in Nat
  /\ Out \in Nat \ {0} /\ Out' \in Nat /\ Out' = Out - 1 + n /\ (Out' = 0 => Pending = 0)
  /\ busy' # {} => Out' # 0
  /\ n = 0 /\ busy' # {} => busy # {}
  /\ Asked => Asked'

\* Nothing is queued once nothing is out.
LEMMA NothingLeft ==
  ASSUME TypeOK', PipeInv', busy' = {}, Warnings(Worker)' = {}
  PROVE  localQueue' = << >> /\ transferQueue' = << >>
  <1>1. limit' \in 1 .. PoolCap
    BY DEF TypeOK
  <1>2. 1 \in 1 .. limit'
    BY <1>1
  <1>3. Warnings({0})' = {} /\ Warnings(1 .. PoolCap)' = {}
    <2>1. {0} \subseteq Worker /\ 1 .. PoolCap \subseteq Worker
      BY MenFacts DEF LocalMen, TransferMen
    <2> QED  BY <2>1 DEF Warnings
  <1> QED  BY <1>2, <1>3 DEF PipeInv, NoneIdle

LEMMA DoneCounted ==
  ASSUME QueueInv, PipeInv, HandleDone
  PROVE  Ends(HandedOut(busy \ {Head(events).worker}))
  <1>1. PICK w \in Worker : w = Head(events).worker /\ w \in busy
    <2>1. PICK w \in Worker : w = Head(events).worker
      BY HeadFacts DEF HandleDone, Posted, QueueInv
    <2>2. Len(events) \in Nat \ {0} /\ Head(events) = events[1] /\ 1 \in 1 .. Len(events)
      BY EmptySeq, HeadTailProperties DEF HandleDone, Posted, QueueInv, TypeOK
    <2>3. pc[w] = "reported"
      BY <2>1, <2>2 DEF HandleDone, Posted, QueueInv, Talk, Some
    <2> QED  BY <2>1, <2>3 DEF QueueInv, BusyWorks
  <1>2. QueueInv' /\ PipeInv'
    BY QueueStep, JobFinished DEF Next
  <1>3. PICK b \in SUBSET Worker : b = busy \ {w}
    BY DEF QueueInv, TypeOK
  <1>0. PICK f, p : f = [fate EXCEPT ![job[w]] = "done"] /\ p = [pc EXCEPT ![w] = "idle"]
    OBVIOUS
  <1>4. PICK m \in Nat, n \in Nat : m = Len(localQueue) /\ n = Len(transferQueue)
    BY LenProperties DEF QueueInv, TypeOK
  <1>5. /\ HandedOut(b) \in 0 .. m + n /\ b \subseteq busy' /\ busy' \subseteq Worker
        /\ Len(localQueue') + Len(transferQueue') = m + n - HandedOut(b)
    <2>1. CASE w = 0
      <3>1. StartNext(FreeLocal(b), localQueue, b, p, job, f) /\ localQueue' = Remainder(FreeLocal(b), localQueue)
            /\ transferQueue' = transferQueue
        BY <1>0, <1>1, <1>3, <2>1 DEF HandleDone, StartLocal
      <3>2. FreeLocal(b) \in SUBSET Worker /\ FreeLocal(b) \cap b = {}
        BY WorkerFacts, FreeIsIdle
      <3>3. PICK q \in Seq(LocalJob) : q = localQueue
        BY DEF QueueInv, TypeOK
      <3>4. LocalJob \subseteq Job
        BY DEF Job
      <3>5. /\ HandedOut(b) \in 0 .. Len(q) /\ b \subseteq busy' /\ busy' \subseteq Worker
            /\ Len(Remainder(FreeLocal(b), q)) = Len(q) - HandedOut(b)
        BY <3>1, <3>2, <3>3, <3>4, HandsCounted
      <3> QED  BY <1>4, <3>1, <3>3, <3>5
    <2>2. CASE w # 0
      <3>1. /\ StartNext(FreeTransfer(pool, limit, b), transferQueue, b, p, job, f)
            /\ transferQueue' = Remainder(FreeTransfer(pool, limit, b), transferQueue)
            /\ localQueue' = localQueue
        BY <1>0, <1>1, <1>3, <2>2 DEF HandleDone, StartTransfers
      <3>2. FreeTransfer(pool, limit, b) \in SUBSET Worker /\ FreeTransfer(pool, limit, b) \cap b = {}
        BY WorkerFacts, FreeIsIdle DEF QueueInv, TypeOK
      <3>3. PICK q \in Seq(TransferJob) : q = transferQueue
        BY DEF QueueInv, TypeOK
      <3>4. TransferJob \subseteq Job
        BY DEF Job
      <3>5. /\ HandedOut(b) \in 0 .. Len(q) /\ b \subseteq busy' /\ busy' \subseteq Worker
            /\ Len(Remainder(FreeTransfer(pool, limit, b), q)) = Len(q) - HandedOut(b)
        BY <3>1, <3>2, <3>3, <3>4, HandsCounted
      <3> QED  BY <1>4, <3>1, <3>3, <3>5
    <2> QED  BY <2>1, <2>2
  <1>6. Cardinality(busy') = Cardinality(busy) - 1 + HandedOut(b)
    <2>1. busy \in SUBSET Worker /\ busy' \in SUBSET Worker
      BY <1>5 DEF QueueInv, TypeOK
    <2>2. Cardinality(busy') = Cardinality(b) + Cardinality(busy' \ b)
      BY <1>5, <2>1, WorkersCounted
    <2>3. Cardinality(b) = Cardinality(busy) - 1
      BY <1>1, <1>3, <2>1, WorkersCounted
    <2> QED  BY <2>2, <2>3 DEF HandedOut
  <1>7. Next /\ prompts' = prompts /\ WarnsKept
    BY PromptsKept DEF Next, HandleDone
  <1>8. /\ Out \in Nat /\ Out' \in Nat /\ (busy # {} => Out # 0) /\ (busy' # {} => Out' # 0)
        /\ Out' = 0 => busy' = {} /\ Warnings(Worker)' = {}
    BY <1>7, OutFacts
  <1>9. Out' = Out - 1 + HandedOut(b)
    <2>1. Out = Cardinality(busy) + Held(Worker) /\ Out' = Cardinality(busy') + Held(Worker)
      BY <1>7 DEF Out, Held, WarnsKept
    <2>2. Held(Worker) \in Nat /\ Cardinality(busy) \in Nat
      BY HeldFacts, WorkersCounted DEF QueueInv, TypeOK
    <2> QED  BY <1>5, <1>6, <2>1, <2>2
  <1>10. Out' = 0 => m + n = 0
    <2> SUFFICES ASSUME Out' = 0 PROVE m + n = 0
      OBVIOUS
    <2>1. HandedOut(b) = 0
      <3>1. busy' \ b = {}
        BY <1>8
      <3> QED  BY <3>1, FS_EmptySet DEF HandedOut
    <2>2. localQueue' = << >> /\ transferQueue' = << >>
      BY <1>2, <1>8, NothingLeft DEF QueueInv
    <2>3. Len(localQueue') = 0 /\ Len(transferQueue') = 0
      BY <2>2, EmptySeq
    <2> QED  BY <1>4, <1>5, <2>1, <2>3
  <1>11. Pending = m + n /\ (Asked => Asked')
    BY <1>4, <1>7 DEF Pending, Asked
  <1>12. busy # {} /\ HandedOut(b) = HandedOut(busy \ {Head(events).worker})
    BY <1>1, <1>3
  <1> QED  BY <1>4, <1>5, <1>8, <1>9, <1>10, <1>11, <1>12 DEF Ends

LEMMA ReadCounted ==
  ASSUME QueueInv, PipeInv, DismissWarning
  PROVE  Ends(HandedOut(busy))
  <1>1. PICK w \in Worker : w = Top.worker /\ WarnGoes(w) /\ (Asked => Asked')
    BY WarningGoes DEF QueueInv
  <1>2. QueueInv' /\ PipeInv' /\ Next
    BY QueueStep, JobHeard DEF Next
  <1>3. PICK b \in SUBSET Worker : b = busy
    BY DEF QueueInv, TypeOK
  <1>a. PICK p, f : p = pc /\ f = fate
    OBVIOUS
  <1>4. PICK m \in Nat, n \in Nat : m = Len(localQueue) /\ n = Len(transferQueue)
    BY LenProperties DEF QueueInv, TypeOK
  <1>5. /\ HandedOut(b) \in 0 .. m + n /\ b \subseteq busy' /\ busy' \subseteq Worker
        /\ Len(localQueue') + Len(transferQueue') = m + n - HandedOut(b)
    <2>1. CASE w = 0
      <3>1. StartNext(FreeLocal(b), localQueue, b, p, job, f) /\ localQueue' = Remainder(FreeLocal(b), localQueue)
            /\ transferQueue' = transferQueue
        BY <1>1, <1>3, <1>a, <2>1 DEF DismissWarning, StartLocal
      <3>2. FreeLocal(b) \in SUBSET Worker /\ FreeLocal(b) \cap b = {}
        BY WorkerFacts, FreeIsIdle
      <3>3. PICK q \in Seq(LocalJob) : q = localQueue
        BY DEF QueueInv, TypeOK
      <3>4. LocalJob \subseteq Job
        BY DEF Job
      <3>5. /\ HandedOut(b) \in 0 .. Len(q) /\ b \subseteq busy' /\ busy' \subseteq Worker
            /\ Len(Remainder(FreeLocal(b), q)) = Len(q) - HandedOut(b)
        BY <3>1, <3>2, <3>3, <3>4, HandsCounted
      <3> QED  BY <1>4, <3>1, <3>3, <3>5
    <2>2. CASE w # 0
      <3>1. /\ StartNext(FreeTransfer(pool, limit, b), transferQueue, b, p, job, f)
            /\ transferQueue' = Remainder(FreeTransfer(pool, limit, b), transferQueue)
            /\ localQueue' = localQueue
        BY <1>1, <1>3, <1>a, <2>2 DEF DismissWarning, StartTransfers
      <3>2. FreeTransfer(pool, limit, b) \in SUBSET Worker /\ FreeTransfer(pool, limit, b) \cap b = {}
        BY WorkerFacts, FreeIsIdle DEF QueueInv, TypeOK
      <3>3. PICK q \in Seq(TransferJob) : q = transferQueue
        BY DEF QueueInv, TypeOK
      <3>4. TransferJob \subseteq Job
        BY DEF Job
      <3>5. /\ HandedOut(b) \in 0 .. Len(q) /\ b \subseteq busy' /\ busy' \subseteq Worker
            /\ Len(Remainder(FreeTransfer(pool, limit, b), q)) = Len(q) - HandedOut(b)
        BY <3>1, <3>2, <3>3, <3>4, HandsCounted
      <3> QED  BY <1>4, <3>1, <3>3, <3>5
    <2> QED  BY <2>1, <2>2
  <1>6. Cardinality(busy') = Cardinality(b) + HandedOut(b) /\ (HandedOut(b) = 0 => busy' = b)
    <2>1. busy' \in SUBSET Worker
      BY <1>5
    <2> QED  BY <1>5, <2>1, WorkersCounted DEF HandedOut
  <1>7. /\ Out \in Nat /\ Out' \in Nat /\ (busy' # {} => Out' # 0)
        /\ Out' = 0 => busy' = {} /\ Warnings(Worker)' = {}
    BY <1>2, OutFacts
  <1>8. Out' = Out - 1 + HandedOut(b) /\ Out # 0
    <2>1. Out = Cardinality(busy) + Held(Worker) /\ Out' = Cardinality(busy') + Held(Worker)'
      BY DEF Out, Held
    <2>2. Held(Worker) = Held(Worker)' + 1
      BY <1>1 DEF WarnGoes
    <2>3. Held(Worker)' \in Nat
      BY <1>2, WarnsFinite, WarningsAre DEF QueueInv, TypeOK, Held
    <2>4. Cardinality(b) \in Nat
      BY WorkersCounted
    <2> QED  BY <1>3, <1>a, <1>5, <1>6, <2>1, <2>2, <2>3, <2>4
  <1>9. Out' = 0 => m + n = 0
    <2> SUFFICES ASSUME Out' = 0 PROVE m + n = 0
      OBVIOUS
    <2>1. HandedOut(b) = 0
      <3>1. busy' \ b = {}
        BY <1>7
      <3> QED  BY <3>1, FS_EmptySet DEF HandedOut
    <2>2. localQueue' = << >> /\ transferQueue' = << >>
      BY <1>2, <1>7, NothingLeft DEF QueueInv
    <2>3. Len(localQueue') = 0 /\ Len(transferQueue') = 0
      BY <2>2, EmptySeq
    <2> QED  BY <1>4, <1>5, <2>1, <2>3
  <1>10. Pending = m + n
    BY <1>4 DEF Pending
  <1> QED  BY <1>1, <1>3, <1>a, <1>4, <1>5, <1>6, <1>7, <1>8, <1>9, <1>10 DEF Ends

-----------------------------------------------------------------------------
(* The window's slots                                                      *)

\* What a slot leaves as it is.
SameFace(d, e) ==
  /\ e.shown = d.shown /\ e.visible = d.visible
  /\ e.suppressed = d.suppressed /\ e.wants = d.wants

SameTally(d, e) == e.activeJobs = d.activeJobs /\ e.batchActive = d.batchActive

LEMMA StartedFacts ==
  ASSUME NEW d \in Window, NEW n \in Nat
  PROVE  /\ Started(d, n) \in Window /\ SameFace(d, Started(d, n))
         /\ Started(d, n).activeJobs = d.activeJobs + n
         /\ Started(d, n).batchActive <=> d.batchActive \/ n > 0
         /\ d.showTimer => Started(d, n).showTimer
         /\ n > 0 /\ ~d.shown => Started(d, n).showTimer
  <1>1. CASE n = 0
    BY <1>1 DEF Started, SameFace, Window
  <1>2. CASE n # 0
    <2>1. Opened(d) \in Window /\ SameFace(d, Opened(d)) /\ Opened(d).batchActive
          /\ Opened(d).activeJobs = d.activeJobs /\ Opened(d).showTimer = d.showTimer
      BY DEF Opened, SameFace, Window
    <2>2. Started(d, n) = [Opened(d) EXCEPT !.activeJobs = @ + n, !.showTimer = @ \/ ~d.shown]
      BY <1>2 DEF Started
    <2>3. PICK o, e : o \in Window /\ o = Opened(d) /\ e = Started(d, n)
      BY <2>1
    <2>4. n > 0 /\ o.activeJobs + n \in Nat /\ (o.showTimer \/ ~d.shown) \in BOOLEAN
      BY <1>2, <2>3 DEF Window
    <2>5. /\ e \in Window /\ e.activeJobs = o.activeJobs + n /\ e.showTimer = (o.showTimer \/ ~d.shown)
          /\ e.batchActive = o.batchActive /\ SameFace(o, e)
      BY <2>2, <2>3, <2>4 DEF SameFace, Window
    <2> QED  BY <2>1, <2>3, <2>4, <2>5 DEF SameFace
  <1> QED  BY <1>1, <1>2

LEMMA FinishedFacts ==
  ASSUME NEW d \in Window, NEW pending \in Nat
  PROVE  /\ Finished(d, pending) \in Window /\ SameFace(d, Finished(d, pending))
         /\ Finished(d, pending).activeJobs = (IF d.activeJobs > 0 THEN d.activeJobs - 1 ELSE 0)
         /\ d.activeJobs > 1 \/ pending > 0
              => /\ Finished(d, pending).batchActive = d.batchActive
                 /\ Finished(d, pending).showTimer = d.showTimer
         /\ ~(d.activeJobs > 1 \/ pending > 0) => ~Finished(d, pending).batchActive
  <1>1. d.activeJobs \in Nat
    BY DEF Window
  <1>2. PICK n \in Nat : n = IF d.activeJobs > 0 THEN d.activeJobs - 1 ELSE 0
    BY <1>1
  <1>3. n > 0 <=> d.activeJobs > 1
    BY <1>1, <1>2
  <1>4. CASE n > 0 \/ pending > 0
    <2>1. Finished(d, pending) = [d EXCEPT !.activeJobs = n]
      BY <1>2, <1>4 DEF Finished
    <2> QED  BY <1>2, <1>3, <1>4, <2>1 DEF SameFace, Window
  <1>5. CASE ~(n > 0 \/ pending > 0)
    <2>1. Finished(d, pending) = [d EXCEPT !.activeJobs = 0, !.batchActive = FALSE, !.showTimer = FALSE,
                                           !.hideTimer = @ \/ (d.shown /\ ~d.hasError)]
      BY <1>2, <1>5 DEF Finished
    <2>2. n = 0
      BY <1>5
    <2> QED  BY <1>2, <1>3, <1>5, <2>1, <2>2 DEF SameFace, Window
  <1> QED  BY <1>4, <1>5

LEMMA RevealedFacts ==
  ASSUME NEW d \in Window
  PROVE  /\ Revealed(d) \in Window /\ SameTally(d, Revealed(d))
         /\ Revealed(d).suppressed = d.suppressed
         /\ d.shown = d.visible => Revealed(d).shown = Revealed(d).visible
         /\ d.visible => Revealed(d).visible
         /\ Revealed(d).showTimer = d.showTimer
         /\ Revealed(d).wants => d.wants \/ d.suppressed
         /\ d.shown = d.visible => Revealed(d).visible \/ (Revealed(d).wants /\ d.suppressed)
         /\ d.wants => Revealed(d).wants
  BY DEF Revealed, SameTally, Window

LEMMA UnsuppressedFacts ==
  ASSUME NEW d \in Window
  PROVE  /\ Unsuppressed(d) \in Window /\ SameTally(d, Unsuppressed(d))
         /\ ~Unsuppressed(d).suppressed /\ ~Unsuppressed(d).wants
         /\ Unsuppressed(d).shown = d.shown /\ Unsuppressed(d).visible = d.visible
         /\ d.showTimer \/ (d.wants /\ d.batchActive) => Unsuppressed(d).showTimer
  BY DEF Unsuppressed, SameTally, Window

LEMMA DismissedFacts ==
  ASSUME NEW d \in Window
  PROVE  /\ Dismissed(d) \in Window /\ Dismissed(d).activeJobs = 0
         /\ ~Dismissed(d).shown /\ ~Dismissed(d).visible
         /\ Dismissed(d).suppressed = d.suppressed /\ Dismissed(d).wants = d.wants
         /\ ~Dismissed(d).batchActive
  BY DEF Dismissed, Window

-----------------------------------------------------------------------------
(* The count, and the promise to show                                      *)

DialogTyped == win \in Window /\ hid \in BOOLEAN /\ miscounted \in BOOLEAN

\* The window never counts more jobs than are out, and has lost count only while one is.
Counts ==
  /\ win.activeJobs <= Out
  /\ miscounted => Out # 0

\* The window is on screen when it believes it is, and waits only behind a question.
Face ==
  /\ win.shown = win.visible
  /\ win.wants => win.suppressed
  /\ win.suppressed => Asked

WindowInv == DialogTyped /\ Counts /\ BatchTracksQueue /\ Face /\ WorkWillShow

WorkInv == QueueInv /\ PipeInv /\ WindowInv

LEMMA EnqueueWindow ==
  ASSUME QueueInv, WindowInv, Enqueue \/ Resize PROVE WindowInv'
  <1> USE DEF WindowInv
  <1>1. /\ HandedOut(busy) \in Nat /\ busy \subseteq busy'
        /\ Out' = Out + HandedOut(busy)
        /\ HandedOut(busy) = 0 => busy' = busy
        /\ Out \in Nat /\ (busy # {} => Out # 0) /\ (Asked' <=> Asked)
    BY StartsCounted DEF Enqueue, Resize
  <1>2. PICK n \in Nat, c \in Nat : n = HandedOut(busy) /\ c = Out
    BY <1>1
  <1>3. win' = Started(win, n) /\ hid' = (hid /\ (win'.batchActive => win.batchActive))
        /\ miscounted' = (miscounted /\ Out' # 0)
    BY <1>2 DEF Enqueue, Resize, Sets
  <1>4. /\ win' \in Window /\ SameFace(win, win')
        /\ win'.activeJobs = win.activeJobs + n
        /\ win'.batchActive <=> win.batchActive \/ n > 0
        /\ win.showTimer => win'.showTimer
        /\ n > 0 /\ ~win.shown => win'.showTimer
    BY <1>3, StartedFacts DEF DialogTyped
  <1>5. Out' = c + n
    BY <1>1, <1>2
  <1>6. DialogTyped'
    BY <1>3, <1>4 DEF DialogTyped
  <1>7. /\ win.activeJobs \in Nat /\ win.batchActive \in BOOLEAN /\ win'.batchActive \in BOOLEAN
        /\ miscounted \in BOOLEAN
    BY <1>4 DEF DialogTyped, Window
  <1>8. miscounted' = miscounted
    BY <1>2, <1>3, <1>5, <1>7 DEF Counts
  <1>9. Counts'
    <2>1. PICK a \in Nat : a = win.activeJobs /\ a <= c
      BY <1>2, <1>7 DEF Counts
    <2>2. win'.activeJobs <= Out'
      BY <1>4, <1>5, <2>1
    <2>3. miscounted' => Out' # 0
      BY <1>3
    <2> QED  BY <2>2, <2>3 DEF Counts
  <1>10. BatchTracksQueue'
    <2> SUFFICES ASSUME ~miscounted' PROVE win'.activeJobs = Out' /\ win'.batchActive = (Out' # 0)
      BY DEF BatchTracksQueue
    <2>1. win.activeJobs = c /\ (win.batchActive <=> c # 0)
      BY <1>2, <1>7, <1>8 DEF BatchTracksQueue
    <2>2. win'.activeJobs = c + n /\ (win'.batchActive <=> c + n # 0)
      BY <1>4, <2>1
    <2> QED  BY <1>5, <1>7, <2>2
  <1>11. Face'
    BY <1>1, <1>4 DEF Face, SameFace
  <1>12. WorkWillShow'
    <2> SUFFICES ASSUME busy' # {}, ~win'.visible, ~hid', ~miscounted'
                 PROVE  win'.showTimer \/ (win'.wants /\ Asked')
      BY DEF WorkWillShow
    <2>1. ~win.visible /\ ~win.shown /\ win'.wants = win.wants
      BY <1>4 DEF SameFace, Face
    <2>2. CASE n > 0
      BY <1>4, <2>1, <2>2
    <2>3. CASE n = 0
      <3>0. win'.batchActive => win.batchActive
        BY <1>4, <2>3
      <3>1. ~hid /\ busy # {} /\ ~miscounted
        <4>1. ~hid
          BY <1>3, <3>0
        <4>2. busy # {}
          BY <1>1, <1>2, <2>3
        <4>3. ~miscounted
          BY <1>8
        <4> QED  BY <4>1, <4>2, <4>3
      <3> QED  BY <1>1, <1>4, <2>1, <3>1 DEF WorkWillShow
    <2> QED  BY <2>2, <2>3
  <1> QED  BY <1>6, <1>9, <1>10, <1>11, <1>12

\* The window hears of a result, and of the jobs that start after it.
LEMMA EndsWindow ==
  ASSUME WindowInv, NEW k, Ends(k), Sets(Started(Finished(win, Pending), k)) PROVE WindowInv'
  <1> USE DEF WindowInv
  <1>1. PICK m \in Nat, n \in Nat : m = Pending /\ n = k /\ n <= m
    BY DEF Ends
  <1>2. PICK c \in Nat \ {0}, c2 \in Nat :
          /\ c = Out /\ c2 = Out' /\ c2 = c - 1 + n /\ (c2 = 0 => m = 0)
          /\ busy' # {} => c2 # 0
          /\ n = 0 /\ busy' # {} => busy # {}
          /\ Asked => Asked'
    BY <1>1 DEF Ends
  <1>3. PICK d : d = Finished(win, m)
    OBVIOUS
  <1>4. win' = Started(d, n) /\ hid' = (hid /\ (win'.batchActive => win.batchActive))
        /\ miscounted' = (miscounted /\ c2 # 0)
    BY <1>1, <1>2, <1>3 DEF Sets
  <1>5. /\ d \in Window /\ SameFace(win, d)
        /\ d.activeJobs = (IF win.activeJobs > 0 THEN win.activeJobs - 1 ELSE 0)
        /\ win.activeJobs > 1 \/ m > 0 => d.batchActive = win.batchActive /\ d.showTimer = win.showTimer
        /\ ~(win.activeJobs > 1 \/ m > 0) => ~d.batchActive
    BY <1>3, FinishedFacts DEF DialogTyped
  <1>6. /\ win' \in Window /\ SameFace(d, win')
        /\ win'.activeJobs = d.activeJobs + n
        /\ win'.batchActive <=> d.batchActive \/ n > 0
        /\ d.showTimer => win'.showTimer
        /\ n > 0 /\ ~d.shown => win'.showTimer
    <2>1. n \in Nat
      OBVIOUS
    <2> QED  BY <1>4, <1>5, <2>1, StartedFacts
  <1>8. PICK a \in Nat : a = win.activeJobs /\ a <= c
    BY <1>2 DEF DialogTyped, Window, Counts
  <1>9. /\ win.batchActive \in BOOLEAN /\ win'.batchActive \in BOOLEAN /\ d.batchActive \in BOOLEAN
        /\ miscounted \in BOOLEAN
    BY <1>5, <1>6 DEF DialogTyped, Window
  <1>10. DialogTyped'
    BY <1>4, <1>6 DEF DialogTyped
  <1>11. Counts'
    <2>1. d.activeJobs = IF a > 0 THEN a - 1 ELSE 0
      BY <1>5, <1>8
    <2>2. win'.activeJobs <= c2
      BY <1>2, <1>6, <1>8, <2>1
    <2>3. miscounted' => c2 # 0
      BY <1>4
    <2> QED  BY <1>2, <2>2, <2>3 DEF Counts
  <1>12. ~miscounted' => win'.activeJobs = c2 /\ (win'.batchActive <=> c2 # 0)
    <2>1. CASE c2 = 0
      <3>1. c = 1 /\ n = 0 /\ m = 0
        BY <1>2, <2>1
      <3> QED  BY <1>5, <1>6, <1>8, <2>1, <3>1
    <2>2. CASE c2 # 0 /\ ~miscounted'
      <3>1. ~miscounted
        BY <1>4, <2>2
      <3>2. a = c /\ win.batchActive
        BY <1>2, <1>8, <3>1 DEF BatchTracksQueue
      <3>3. c > 1 \/ n > 0
        BY <1>2, <2>2
      <3>4. d.activeJobs = c - 1 /\ (c > 1 => d.batchActive)
        <4>1. d.activeJobs = IF a > 0 THEN a - 1 ELSE 0
          BY <1>5, <1>8
        <4>2. d.activeJobs = c - 1
          BY <3>2, <4>1
        <4>3. c > 1 => win.activeJobs > 1
          BY <1>8, <3>2
        <4>4. c > 1 => d.batchActive
          BY <1>5, <3>2, <4>3
        <4> QED  BY <4>2, <4>4
      <3> QED  BY <1>2, <1>6, <2>2, <3>3, <3>4
    <2> QED  BY <2>1, <2>2
  <1>13. BatchTracksQueue'
    BY <1>2, <1>9, <1>12 DEF BatchTracksQueue
  <1>14. Face'
    BY <1>2, <1>5, <1>6 DEF Face, SameFace
  <1>15. WorkWillShow'
    <2> SUFFICES ASSUME busy' # {}, ~win'.visible, ~hid', ~miscounted'
                 PROVE  win'.showTimer \/ (win'.wants /\ Asked')
      BY DEF WorkWillShow
    <2>1. ~win.visible /\ ~win.shown /\ ~d.shown /\ win'.wants = win.wants
      BY <1>5, <1>6 DEF SameFace, Face
    <2>2. CASE n > 0
      BY <1>6, <2>1, <2>2
    <2>3. CASE n = 0
      <3>1. ~miscounted
        BY <1>2, <1>4, <1>9
      <3>2. a = c /\ win.batchActive
        BY <1>2, <1>8, <3>1 DEF BatchTracksQueue
      <3>3. c > 1
        BY <1>2, <2>3
      <3>4. d.showTimer = win.showTimer
        BY <1>5, <1>8, <3>2, <3>3
      <3>5. ~hid
        BY <1>4, <3>2
      <3>6. win.showTimer \/ (win.wants /\ Asked)
        BY <1>2, <2>1, <2>3, <3>1, <3>5 DEF WorkWillShow
      <3> QED  BY <1>2, <1>6, <2>1, <3>4, <3>6
    <2> QED  BY <2>2, <2>3
  <1> QED  BY <1>10, <1>11, <1>13, <1>14, <1>15

\* A step after which as many jobs are out and the count is as it was. What is left
\* to show is that the work it leaves unseen will be shown.
LEMMA CalmWindow ==
  ASSUME WindowInv, win' \in Window, hid' \in BOOLEAN, SameTally(win, win'), busy' \subseteq busy,
         Out' = Out, busy # {} => Out # 0,
         miscounted' = miscounted \/ miscounted' = (miscounted /\ Out' # 0),
         Face',
         busy # {} /\ ~miscounted /\ win.batchActive /\ ~win'.visible /\ ~hid'
           => win'.showTimer \/ (win'.wants /\ Asked')
  PROVE  WindowInv'
  <1>1. miscounted' = miscounted /\ miscounted' \in BOOLEAN
    BY DEF WindowInv, DialogTyped, Counts
  <1>2. DialogTyped' /\ Counts' /\ BatchTracksQueue'
    BY <1>1 DEF WindowInv, DialogTyped, Counts, BatchTracksQueue, SameTally
  <1>3. WorkWillShow'
    <2> SUFFICES ASSUME busy' # {}, ~win'.visible, ~hid', ~miscounted'
                 PROVE  win'.showTimer \/ (win'.wants /\ Asked')
      BY DEF WorkWillShow
    <2>1. busy # {} /\ ~miscounted
      BY <1>1
    <2>2. win.batchActive
      BY <2>1 DEF WindowInv, BatchTracksQueue
    <2> QED  BY <2>1, <2>2
  <1> QED  BY <1>2, <1>3 DEF WindowInv

\* What WorkWillShow says of a batch that goes on.
LEMMA Unseen ==
  ASSUME WindowInv, busy # {}, ~miscounted, ~hid, ~win.visible
  PROVE  win.showTimer \/ (win.wants /\ Asked)
  BY DEF WindowInv, WorkWillShow

LEMMA DoneWindow ==
  ASSUME QueueInv, PipeInv, WindowInv, JobDone \/ WarningRead PROVE WindowInv'
  <1>1. CASE JobDone
    <2>1. PICK k : k = HandedOut(busy \ {Head(events).worker})
      OBVIOUS
    <2>2. Ends(k) /\ Sets(Started(Finished(win, Pending), k))
      BY <1>1, <2>1, DoneCounted DEF JobDone
    <2> QED  BY <2>2, EndsWindow
  <1>2. CASE WarningRead
    <2>1. PICK k : k = HandedOut(busy)
      OBVIOUS
    <2>2. Ends(k) /\ Sets(Started(Finished(win, Pending), k))
      BY <1>2, <2>1, ReadCounted DEF WarningRead
    <2> QED  BY <2>2, EndsWindow
  <1> QED  BY <1>1, <1>2

\* While the main window warns, this one counts on: the job is still out.
LEMMA WarnedWindow ==
  ASSUME QueueInv, PipeInv, WindowInv, JobDoneWarned PROVE WindowInv'
  <1>1. PICK w \in Worker, j \in Job : Released(w, j, busy \ {w}, [fate EXCEPT ![job[w]] = "done"])
    BY JobReleased DEF JobDoneWarned
  <1>2. w = Head(events).worker /\ w \in busy
    BY <1>1 DEF Released
  <1>3. busy' = busy \ {w} /\ prompts' = Append(prompts, [is |-> "warning", worker |-> w])
    BY <1>2 DEF JobDoneWarned, HandleDoneWarned
  <1>4. WarnComes(w) /\ (Asked => Asked') /\ TypeOK /\ busy \in SUBSET Worker
    BY <1>3, WarningComes DEF QueueInv, TypeOK
  <1>5. Out' = Out
    <2>1. Out = Cardinality(busy) + Held(Worker) /\ Out' = Cardinality(busy') + Held(Worker)'
      BY DEF Out, Held
    <2>2. Held(Worker)' = Held(Worker) + 1 /\ Held(Worker) \in Nat
      BY <1>4, HeldFacts DEF WarnComes
    <2>3. Cardinality(busy') = Cardinality(busy) - 1 /\ Cardinality(busy) \in Nat
      BY <1>2, <1>3, <1>4, WorkersCounted
    <2> QED  BY <2>1, <2>2, <2>3
  <1>6. busy # {} => Out # 0
    BY OutFacts DEF JobDoneWarned, Next
  <1>7. win' = win /\ hid' = (hid /\ (win'.batchActive => win.batchActive)) /\ miscounted' = (miscounted /\ Out' # 0)
    BY DEF JobDoneWarned, Sets
  <1>8. win' \in Window /\ SameTally(win, win') /\ hid' = hid /\ hid' \in BOOLEAN
    BY <1>7 DEF WindowInv, DialogTyped, SameTally
  <1>9. Face'
    BY <1>4, <1>7 DEF WindowInv, Face
  <1>10. busy # {} /\ ~miscounted /\ win.batchActive /\ ~win'.visible /\ ~hid'
           => win'.showTimer \/ (win'.wants /\ Asked')
    BY <1>4, <1>7, <1>8, Unseen
  <1> QED  BY <1>3, <1>5, <1>6, <1>7, <1>8, <1>9, <1>10, CalmWindow

\* A step of the queue that is none of the above has as many jobs out.
LEMMA OutStays ==
  ASSUME QueueInv, [Next]_vars, busy' = busy, WarnsKept
  PROVE  Out' = Out /\ (busy # {} => Out # 0) /\ Out \in Nat
  BY OutFacts

LEMMA QuestionWindow ==
  ASSUME QueueInv, WindowInv, OpenQuestion \/ AnswerQuestion PROVE WindowInv'
  <1>1. CASE OpenQuestion
    <2>1. win' = [win EXCEPT !.suppressed = TRUE] /\ hid' = (hid /\ (win'.batchActive => win.batchActive))
          /\ miscounted' = (miscounted /\ Out' # 0)
      BY <1>1 DEF OpenQuestion, Sets
    <2>2. /\ win' \in Window /\ SameTally(win, win') /\ win'.shown = win.shown /\ win'.visible = win.visible
          /\ win'.wants = win.wants /\ win'.showTimer = win.showTimer /\ win'.suppressed
      BY <2>1 DEF WindowInv, DialogTyped, Window, SameTally
    <2>3. busy' = busy /\ WarnsKept /\ Asked' /\ Next
      BY <1>1, QuestionsDoNotWarn DEF OpenQuestion, HandleAsk, Next, QueueInv
    <2>4. Out' = Out /\ (busy # {} => Out # 0)
      BY <2>3, OutStays
    <2>5. hid' = hid
      BY <2>1, <2>2 DEF SameTally, WindowInv, DialogTyped
    <2>6. Face'
      BY <2>2, <2>3 DEF WindowInv, Face
    <2>7. hid' \in BOOLEAN
      BY <2>5 DEF WindowInv, DialogTyped
    <2>8. busy # {} /\ ~miscounted /\ win.batchActive /\ ~win'.visible /\ ~hid'
            => win'.showTimer \/ (win'.wants /\ Asked')
      BY <2>2, <2>3, <2>5, Unseen
    <2> QED  BY <2>1, <2>2, <2>3, <2>4, <2>6, <2>7, <2>8, CalmWindow
  <1>2. CASE AnswerQuestion
    <2>1. win' = Unsuppressed(win) /\ hid' = (hid /\ (win'.batchActive => win.batchActive))
          /\ miscounted' = (miscounted /\ Out' # 0)
      BY <1>2 DEF AnswerQuestion, Sets
    <2>2. /\ win' \in Window /\ SameTally(win, win') /\ win'.shown = win.shown /\ win'.visible = win.visible
          /\ ~win'.wants /\ ~win'.suppressed
          /\ win.showTimer \/ (win.wants /\ win.batchActive) => win'.showTimer
      BY <2>1, UnsuppressedFacts DEF WindowInv, DialogTyped
    <2>3. busy' = busy /\ WarnsKept /\ Next
      <3>1. Answer
        BY <1>2 DEF AnswerQuestion, Answer
      <3>2. busy' = busy
        BY <1>2 DEF AnswerQuestion, AnswerGoOn, AnswerSkip, AnswerSkipAll, AnswerCancel
      <3> QED  BY <3>1, <3>2, QuestionsDoNotWarn DEF Next, QueueInv
    <2>8. Out' = Out /\ (busy # {} => Out # 0)
      BY <2>3, OutStays
    <2>4. hid' = hid
      BY <2>1, <2>2 DEF SameTally, WindowInv, DialogTyped
    <2>5. Face'
      BY <2>2 DEF WindowInv, Face
    <2>6. hid' \in BOOLEAN
      BY <2>4 DEF WindowInv, DialogTyped
    <2>7. busy # {} /\ ~miscounted /\ win.batchActive /\ ~win'.visible /\ ~hid'
            => win'.showTimer \/ (win'.wants /\ Asked')
      BY <2>2, <2>4, Unseen
    <2> QED  BY <2>1, <2>2, <2>3, <2>5, <2>6, <2>7, <2>8, CalmWindow
  <1> QED  BY <1>1, <1>2

\* An abort empties the window's count, and leaves the workers that run uncounted.
LEMMA AbortWindow ==
  ASSUME QueueInv, WindowInv, AnswerWithAbort \/ ClickAbort PROVE WindowInv'
  <1>1. PICK d \in Window : /\ win' = Dismissed(d) /\ hid' = FALSE /\ miscounted' = (Out # 0)
                            /\ ~d.suppressed /\ ~d.wants
    <2>1. CASE AnswerWithAbort
      <3>1. Unsuppressed(win) \in Window /\ ~Unsuppressed(win).suppressed /\ ~Unsuppressed(win).wants
        BY UnsuppressedFacts DEF WindowInv, DialogTyped
      <3> QED  BY <2>1, <3>1 DEF AnswerWithAbort, Abandon
    <2>2. CASE ClickAbort
      <3>1. prompts = << >>
        BY <2>2 DEF ClickAbort, Reachable, UserFree
      <3>2. ~Asked
        BY <3>1, EmptySeq DEF Asked
      <3> QED  BY <2>2, <3>2 DEF ClickAbort, Abandon, WindowInv, DialogTyped, Face, Window
    <2> QED  BY <2>1, <2>2
  <1>2. busy' = busy /\ WarnsKept /\ Next
    <2>1. CASE AnswerWithAbort
      BY <2>1, QuestionsDoNotWarn DEF AnswerWithAbort, AnswerAbort, Answer, Next, QueueInv
    <2>2. CASE ClickAbort
      BY <2>2, PromptsKept DEF ClickAbort, AbortAll, guiVars, Next, UserStep
    <2> QED  BY <2>1, <2>2
  <1>3. /\ win' \in Window /\ win'.activeJobs = 0 /\ ~win'.shown /\ ~win'.visible /\ ~win'.batchActive
        /\ win'.suppressed = d.suppressed /\ win'.wants = d.wants
    BY <1>1, DismissedFacts
  <1>4. Out' = Out /\ Out \in Nat /\ (busy # {} => Out # 0)
    BY <1>2, OutStays
  <1>5. DialogTyped'
    BY <1>1, <1>3 DEF DialogTyped
  <1>6. Counts'
    <2>1. win'.activeJobs <= Out'
      BY <1>3, <1>4
    <2>2. miscounted' => Out' # 0
      BY <1>1, <1>4
    <2> QED  BY <2>1, <2>2 DEF Counts
  <1>7. win'.batchActive \in BOOLEAN
    BY <1>3 DEF Window
  <1>8. BatchTracksQueue'
    BY <1>1, <1>3, <1>4, <1>7 DEF BatchTracksQueue
  <1>9. Face'
    <2>1. win'.shown = win'.visible
      BY <1>3 DEF Window
    <2> QED  BY <1>1, <1>3, <2>1 DEF Face
  <1>10. WorkWillShow'
    BY <1>1, <1>2, <1>4 DEF WorkWillShow
  <1> QED  BY <1>5, <1>6, <1>8, <1>9, <1>10 DEF WindowInv

\* The user's clicks, the reports and the timers.
LEMMA DialogWindow ==
  ASSUME QueueInv, WindowInv,
         ClickPause \/ CloseProgress \/ BigProgress \/ ErrorMessage \/ ShowTimerFires \/ HideTimerFires
  PROVE  WindowInv'
  <1> USE DEF SameTally
  <1>0. busy' = busy /\ Out' = Out /\ (busy # {} => Out # 0) /\ (Asked' <=> Asked)
    <2>1. busy' = busy /\ prompts' = prompts /\ [Next]_vars
      <3>1. CASE ClickPause
        BY <3>1 DEF ClickPause, ResumeCurrent, PauseCurrent, SetPaused, guiVars, Next, UserStep
      <3>2. CASE CloseProgress \/ BigProgress \/ ErrorMessage \/ ShowTimerFires \/ HideTimerFires
        BY <3>2 DEF CloseProgress, BigProgress, ErrorMessage, ShowTimerFires, HideTimerFires, vars, guiVars
      <3> QED  BY <3>1, <3>2
    <2> QED  BY <2>1, OutStays, PromptsKept DEF Asked
  <1>8. win \in Window /\ hid \in BOOLEAN /\ win.batchActive \in BOOLEAN /\ Face
    BY DEF WindowInv, DialogTyped, Window
  <1>1. CASE ClickPause
    <2>1. /\ win' = [win EXCEPT !.paused = ~@] /\ hid' = (hid /\ (win'.batchActive => win.batchActive))
          /\ miscounted' = (miscounted /\ Out' # 0) /\ win.visible
      BY <1>1 DEF ClickPause, Sets, Reachable
    <2>2. /\ win' \in Window /\ SameTally(win, win') /\ win'.shown = win.shown /\ win'.visible = win.visible
          /\ win'.wants = win.wants /\ win'.suppressed = win.suppressed
      BY <1>0, <1>8, <2>1 DEF Window
    <2>3. busy' = busy /\ prompts' = prompts
      BY <1>1 DEF ClickPause, ResumeCurrent, PauseCurrent, SetPaused, guiVars
    <2>4. hid' \in BOOLEAN /\ Face'
      BY <1>0, <1>8, <2>1, <2>2, <2>3 DEF Face
    <2> QED  BY <1>0, <2>1, <2>2, <2>3, <2>4, CalmWindow
  <1>2. CASE CloseProgress
    <2>1. /\ win' = [win EXCEPT !.visible = FALSE, !.shown = FALSE] /\ hid' = win.batchActive
          /\ UNCHANGED <<busy, prompts, miscounted>>
      BY <1>2 DEF CloseProgress, vars, guiVars
    <2>2. /\ win' \in Window /\ SameTally(win, win') /\ ~win'.shown /\ ~win'.visible /\ win'.shown = win'.visible
          /\ win'.wants = win.wants /\ win'.suppressed = win.suppressed
      BY <1>0, <1>8, <2>1 DEF Window
    <2>3. hid' \in BOOLEAN /\ Face'
      BY <1>0, <1>8, <2>1, <2>2 DEF Face
    <2> QED  BY <1>0, <2>1, <2>2, <2>3, CalmWindow
  <1>3. CASE BigProgress
    <2>1. win' = Revealed(win) /\ UNCHANGED <<busy, prompts, hid, miscounted>>
      BY <1>3 DEF BigProgress, vars, guiVars
    <2>2. /\ win' \in Window /\ SameTally(win, win') /\ win'.suppressed = win.suppressed
          /\ win'.shown = win'.visible /\ (win'.wants => win.wants \/ win.suppressed)
          /\ win'.visible \/ (win'.wants /\ win.suppressed)
      BY <1>0, <1>8, <2>1, RevealedFacts DEF Face
    <2>3. hid' \in BOOLEAN /\ Face'
      BY <1>0, <1>8, <2>1, <2>2 DEF Face
    <2>4. win.suppressed => Asked'
      BY <1>0, <1>8, <2>1 DEF Face
    <2> QED  BY <1>0, <2>1, <2>2, <2>3, <2>4, CalmWindow
  <1>4. CASE ErrorMessage
    <2>1. win' = [win EXCEPT !.hasError = TRUE] /\ win.shown /\ UNCHANGED <<busy, prompts, hid, miscounted>>
      BY <1>4 DEF ErrorMessage, vars, guiVars
    <2>2. /\ win' \in Window /\ SameTally(win, win') /\ win'.shown = win.shown /\ win'.visible = win.visible
          /\ win'.wants = win.wants /\ win'.suppressed = win.suppressed
      BY <1>0, <1>8, <2>1 DEF Window
    <2>3. hid' \in BOOLEAN /\ Face' /\ win'.visible
      BY <1>0, <1>8, <2>1, <2>2 DEF Face
    <2> QED  BY <1>0, <2>1, <2>2, <2>3, CalmWindow
  <1>5. CASE ShowTimerFires
    <2>1. PICK d : d = [win EXCEPT !.showTimer = FALSE]
      OBVIOUS
    <2>2. /\ d \in Window /\ SameTally(win, d) /\ d.shown = win.shown /\ d.visible = win.visible
          /\ d.wants = win.wants /\ d.suppressed = win.suppressed
      BY <1>0, <1>8, <2>1 DEF Window
    <2>3. /\ win' = (IF d.batchActive THEN Revealed(d) ELSE d) /\ UNCHANGED <<busy, prompts, hid, miscounted>>
      BY <1>5, <2>1 DEF ShowTimerFires, vars, guiVars
    <2>4. /\ Revealed(d) \in Window /\ SameTally(win, Revealed(d)) /\ Revealed(d).suppressed = win.suppressed
          /\ Revealed(d).shown = Revealed(d).visible /\ (Revealed(d).wants => win.wants \/ win.suppressed)
          /\ Revealed(d).visible \/ (Revealed(d).wants /\ win.suppressed)
      BY <1>0, <1>8, <2>2, RevealedFacts DEF Face
    <2>5. /\ win' \in Window /\ SameTally(win, win')
          /\ win'.suppressed = win.suppressed /\ win'.shown = win'.visible
          /\ (win'.wants => win.wants \/ win.suppressed)
          /\ win.batchActive => win'.visible \/ (win'.wants /\ win.suppressed)
      BY <1>0, <1>8, <2>2, <2>3, <2>4 DEF Face
    <2>6. hid' \in BOOLEAN /\ Face'
      BY <1>0, <1>8, <2>3, <2>5 DEF Face
    <2>7. win.suppressed => Asked'
      BY <1>0, <1>8, <2>3 DEF Face
    <2> QED  BY <1>0, <2>3, <2>5, <2>6, <2>7, CalmWindow
  <1>6. CASE HideTimerFires
    <2>1. PICK d : d = [win EXCEPT !.hideTimer = FALSE]
      OBVIOUS
    <2>2. /\ d \in Window /\ SameTally(win, d) /\ d.shown = win.shown /\ d.visible = win.visible
          /\ d.wants = win.wants /\ d.suppressed = win.suppressed /\ d.showTimer = win.showTimer
      BY <1>0, <1>8, <2>1 DEF Window
    <2>3. /\ win' = (IF ~d.batchActive /\ ~d.hasError /\ d.shown
                       THEN [d EXCEPT !.shown = FALSE, !.visible = FALSE] ELSE d)
          /\ UNCHANGED <<busy, prompts, hid, miscounted>>
      BY <1>6, <2>1 DEF HideTimerFires, vars, guiVars
    <2>4. CASE ~d.batchActive /\ ~d.hasError /\ d.shown
      <3>1. /\ win' \in Window /\ SameTally(win, win') /\ win'.shown = win'.visible
            /\ win'.wants = win.wants /\ win'.suppressed = win.suppressed
        BY <2>2, <2>3, <2>4 DEF Window
      <3>2. hid' \in BOOLEAN /\ Face' /\ ~win.batchActive
        BY <1>0, <1>8, <2>2, <2>3, <2>4, <3>1 DEF Face
      <3> QED  BY <1>0, <2>3, <3>1, <3>2, CalmWindow
    <2>5. CASE ~(~d.batchActive /\ ~d.hasError /\ d.shown)
      <3>1. win' = d
        BY <2>3, <2>5
      <3>2. hid' \in BOOLEAN /\ Face'
        BY <1>0, <1>8, <2>2, <2>3, <3>1 DEF Face
      <3>3. busy # {} /\ ~miscounted /\ win.batchActive /\ ~win'.visible /\ ~hid'
              => win'.showTimer \/ (win'.wants /\ Asked')
        BY <1>0, <2>2, <2>3, <3>1, Unseen
      <3> QED  BY <1>0, <2>2, <2>3, <3>1, <3>2, <3>3, CalmWindow
    <2> QED  BY <2>4, <2>5
  <1> QED  BY <1>1, <1>2, <1>3, <1>4, <1>5, <1>6

LEMMA WorkInit == WInit => WorkInv
  <1> SUFFICES ASSUME WInit PROVE WorkInv
    OBVIOUS
  <1>1. QueueInv /\ PipeInv
    BY QueueInit, PipeInit DEF WInit
  <1>2. busy = {} /\ Out = 0
    <2>1. busy = {} /\ Warnings(Worker) = {}
      BY EmptySeq DEF WInit, Init, Warnings
    <2> QED  BY <2>1, FS_EmptySet DEF Out
  <1>3. win \in Window
    BY DEF WInit, Window
  <1>4. DialogTyped /\ Face
    BY <1>3 DEF WInit, DialogTyped, Face
  <1>5. win.activeJobs = 0 /\ win.batchActive = FALSE /\ miscounted = FALSE
    BY DEF WInit
  <1>6. Counts /\ BatchTracksQueue /\ WorkWillShow
    <2>1. 0 <= 0
      OBVIOUS
    <2> QED  BY <1>2, <1>5, <2>1 DEF Counts, BatchTracksQueue, WorkWillShow
  <1> QED  BY <1>1, <1>4, <1>6 DEF WorkInv, WindowInv

LEMMA WorkStep == WorkInv /\ [WNext]_wvars => WorkInv'
  <1> SUFFICES ASSUME WorkInv, [WNext]_wvars PROVE WorkInv'
    OBVIOUS
  <1>0. QueueInv /\ PipeInv /\ WindowInv /\ TypeOK
    BY DEF WorkInv, QueueInv
  <1>1. QueueInv' /\ PipeInv'
    BY <1>0, WindowSteps, QueueStep, PipeStep
  <1>2. ASSUME UNCHANGED <<win, hid, miscounted, busy, prompts>> PROVE WindowInv'
    <2>1. Out' = Out /\ (Asked' <=> Asked)
      BY <1>2, PromptsKept DEF Out, WarnsKept, Asked
    <2> QED  BY <1>0, <1>2, <2>1 DEF WindowInv, DialogTyped, Counts, BatchTracksQueue, Face, WorkWillShow
  <1>3. CASE \E w \in Worker : ThreadStep(w)
    <2>1. UNCHANGED <<win, hid, miscounted, busy, prompts>>
      BY <1>0, <1>3, WorkerMoves DEF ThreadStep, Keep, WorkerMove
    <2> QED  BY <1>1, <1>2, <2>1 DEF WorkInv
  <1>4. CASE Close \/ Destroy
    <2>1. UNCHANGED <<win, hid, miscounted, busy, prompts>>
      BY <1>4 DEF Close, CloseWindow, Destroy, Join, JoinDone, Keep
    <2> QED  BY <1>1, <1>2, <2>1 DEF WorkInv
  <1>5. CASE UNCHANGED wvars
    <2>1. UNCHANGED <<win, hid, miscounted, busy, prompts>>
      BY <1>5 DEF wvars, vars, guiVars
    <2> QED  BY <1>1, <1>2, <2>1 DEF WorkInv
  <1>6. CASE \/ Enqueue \/ Resize \/ JobDone \/ JobDoneWarned \/ WarningRead
             \/ OpenQuestion \/ AnswerQuestion \/ AnswerWithAbort \/ ClickAbort
    BY <1>0, <1>1, <1>6, EnqueueWindow, DoneWindow, WarnedWindow, QuestionWindow, AbortWindow DEF WorkInv
  <1>7. CASE ClickPause \/ CloseProgress \/ BigProgress \/ ErrorMessage \/ ShowTimerFires \/ HideTimerFires
    BY <1>0, <1>1, <1>7, DialogWindow DEF WorkInv
  <1> QED  BY <1>3, <1>4, <1>5, <1>6, <1>7 DEF WNext

LEMMA WorkInvariant == WSpec => []WorkInv
  BY WorkInit, WorkStep, PTL DEF WSpec

-----------------------------------------------------------------------------

\* The members of TransferProgressDialog have their types: the count does not go
\* below nought (onFinished).
THEOREM WindowTypeCorrect == WSpec => []WTypeOK
  <1>1. WorkInv => WTypeOK
    BY DEF WorkInv, WindowInv, DialogTyped, WTypeOK
  <1> QED  BY <1>1, WorkInvariant, PTL

\* The window's count, kept from signals that come one by one in the middle of the
\* queue's own handlers, is the number of workers that hold a job and of results the
\* main window's warning still keeps from it, and the batch is over with the last of
\* them (TransferProgressDialog.cpp:529).
THEOREM CountIsTrue == WSpec => []BatchTracksQueue
  <1>1. WorkInv => BatchTracksQueue
    BY DEF WorkInv, WindowInv
  <1> QED  BY <1>1, WorkInvariant, PTL

\* A batch the user has not hidden does not go on unseen: the delay runs, or a
\* question is open whose answer starts it (showIfHidden, suppressAutoShow).
THEOREM WorkIsShown == WSpec => []WorkWillShow
  <1>1. WorkInv => WorkWillShow
    BY DEF WorkInv, WindowInv
  <1> QED  BY <1>1, WorkInvariant, PTL

\* The window takes nothing from the queue's promises.
THEOREM QueueIsKept == WSpec => Spec
  <1>1. WInit => Init
    BY DEF WInit
  <1> QED  BY <1>1, WindowSteps, PTL DEF WSpec, Spec

=============================================================================

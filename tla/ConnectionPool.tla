--------------------------- MODULE ConnectionPool ---------------------------
(***************************************************************************)
(* The pool of physical connections a network provider embeds so that each *)
(* transfer worker reads and writes on a connection of its own             *)
(* (core/network/ConnectionPool.h), and the process-wide registry of the   *)
(* detached reaper threads that close the pooled connections.              *)
(*                                                                         *)
(* A worker is a transfer thread: it borrows one connection to read, and,  *)
(* when source and destination are the same server, a second one to write. *)
(* A borrow that returns nothing makes the provider fall back to its       *)
(* shared session, so for the pool it is simply over.                      *)
(*                                                                         *)
(* Every block of code under m_mutex is one action; the condition variable *)
(* is the set of workers whose pc is "waiting", and a worker that was      *)
(* notified is "woken" until it has the mutex again.                       *)
(***************************************************************************)
EXTENDS Integers, Sequences, FiniteSets, SequencesExt, FiniteSetsExt

CONSTANTS
  Worker,         \* transfer threads
  Conn,           \* identities of physical connections
  Sizes,          \* the sizes configure() and setMaxSize() are called with
  BorrowTimeout,  \* m_borrowTimeoutMs, in ticks
  MaxBorrows,     \* bound: borrows each worker makes
  MaxOwnerOps     \* bound: calls the provider makes on its pool

ASSUME WorkerAssumption  == IsFiniteSet(Worker)
ASSUME ConnAssumption    == IsFiniteSet(Conn)
ASSUME SizesAssumption   == Sizes \subseteq Nat /\ Sizes # {}
ASSUME TimeoutAssumption == BorrowTimeout \in Nat \ {0}
ASSUME BoundsAssumption  == MaxBorrows \in Nat /\ MaxOwnerOps \in Nat

VARIABLES
  idle,       \* m_idle, oldest first
  live,       \* m_live
  max,        \* m_max
  factory,    \* m_factory is installed
  shutdown,   \* m_shutdown
  pc,         \* where each worker is in borrow()
  left,       \* ticks left of the wait a worker is in
  waited,     \* history: ticks its present borrow has spent waiting
  held,       \* connections each worker has borrowed and not given back
  doomed,     \* connections a worker has given up and is closing, off the lock
  borrows,    \* history: borrows each worker has made
  reapers,    \* the lists of connections the running reapers still have to close
  leaked,     \* connections nobody will close
  active,     \* ReaperRegistry::m_active
  draining,   \* ReaperRegistry::m_draining
  exit,       \* the process: running, in the exit-time drain, past it or killed
  ownerOps    \* history: calls the provider has made

poolVars   == <<idle, live, max, factory, shutdown>>
workerVars == <<pc, left, waited, held, borrows>>
reaperVars == <<reapers, leaked, active, draining, exit>>
vars == <<poolVars, workerVars, doomed, reaperVars, ownerOps>>

-----------------------------------------------------------------------------

\* A worker in a borrow that has not returned yet.
Borrowing(w) == pc[w] # "out"

Waiting  == {w \in Worker : pc[w] = "waiting"}
Woken    == {w \in Worker : pc[w] = "woken"}
Building == {w \in Worker : pc[w] = "building"}
Held     == UNION {held[w] : w \in Worker}
Reaping  == UNION reapers
IdleSet  == {idle[i] : i \in 1..Len(idle)}

\* A connection object that exists: somebody owns it, or nobody ever will.
Built == IdleSet \cup Held \cup doomed \cup Reaping \cup leaked

\* A pool has room for one connection at least.
Clamped(size) == IF size > 0 THEN size ELSE 1

\* m_cond.wakeAll()
WakeAll == pc' = [w \in Worker |-> IF pc[w] = "waiting" THEN "woken" ELSE pc[w]]

\* m_cond.wakeOne() by a thread that leaves its own pc at `next` (the pool's
\* methods other than borrow() are called by a worker that is "out").
WakeOneAfter(from) ==
  LET asleep == {w \in Worker : from[w] = "waiting"}
  IN  IF asleep = {} THEN pc' = from
      ELSE \E w \in asleep : pc' = [from EXCEPT ![w] = "woken"]

WakeOne == WakeOneAfter(pc)

Init ==
  /\ idle = << >> /\ live = 0 /\ max = 1
  /\ factory = FALSE /\ shutdown = FALSE
  /\ pc = [w \in Worker |-> "out"]
  /\ left = [w \in Worker |-> 0]
  /\ waited = [w \in Worker |-> 0]
  /\ held = [w \in Worker |-> {}]
  /\ borrows = [w \in Worker |-> 0]
  /\ doomed = {}
  /\ reapers = {} /\ leaked = {}
  /\ active = 0 /\ draining = FALSE /\ exit = "running"
  /\ ownerOps = 0

-----------------------------------------------------------------------------
(* borrow()                                                                *)

\* A transfer opens a handle: one for its source, one for its destination.
BeginBorrow(w) ==
  /\ exit = "running"
  /\ pc[w] = "out" /\ borrows[w] < MaxBorrows /\ Cardinality(held[w]) < 2
  /\ pc' = [pc EXCEPT ![w] = "woken"]
  /\ borrows' = [borrows EXCEPT ![w] = @ + 1]
  /\ waited' = [waited EXCEPT ![w] = 0]
  /\ UNCHANGED <<poolVars, left, held, doomed, reaperVars, ownerOps>>

\* borrow() finds the pool shut down and returns nothing.
BorrowRefused(w) ==
  /\ pc[w] = "woken" /\ shutdown
  /\ pc' = [pc EXCEPT ![w] = "out"]
  /\ UNCHANGED <<poolVars, left, waited, held, borrows, doomed, reaperVars, ownerOps>>

\* It takes the most recently returned idle connection.
BorrowIdle(w) ==
  /\ pc[w] = "woken" /\ ~shutdown /\ idle # << >>
  /\ held' = [held EXCEPT ![w] = @ \cup {Last(idle)}]
  /\ idle' = Front(idle)
  /\ pc' = [pc EXCEPT ![w] = "out"]
  /\ UNCHANGED <<live, max, factory, shutdown, left, waited, borrows, doomed,
                 reaperVars, ownerOps>>

\* It reserves a slot and goes on to build a connection with no lock held.
BorrowReserve(w) ==
  /\ pc[w] = "woken" /\ ~shutdown /\ idle = << >>
  /\ live < max /\ factory
  /\ live' = live + 1
  /\ pc' = [pc EXCEPT ![w] = "building"]
  /\ UNCHANGED <<idle, max, factory, shutdown, left, waited, held, borrows, doomed,
                 reaperVars, ownerOps>>

\* It is at capacity, or has no factory yet, and waits for the full timeout:
\* a worker that was notified in vain starts a whole new wait.
BorrowWait(w) ==
  /\ pc[w] = "woken" /\ ~shutdown /\ idle = << >>
  /\ ~(live < max /\ factory)
  /\ pc' = [pc EXCEPT ![w] = "waiting"]
  /\ left' = [left EXCEPT ![w] = BorrowTimeout]
  /\ UNCHANGED <<poolVars, waited, held, borrows, doomed, reaperVars, ownerOps>>

\* Time passes for a waiting worker. The history stops counting one tick past
\* the timeout, where a second wait is certain to have begun.
Tick(w) ==
  /\ pc[w] = "waiting" /\ left[w] > 0
  /\ left' = [left EXCEPT ![w] = @ - 1]
  /\ waited' = [waited EXCEPT ![w] = IF @ > BorrowTimeout THEN @ ELSE @ + 1]
  /\ UNCHANGED <<poolVars, pc, held, borrows, doomed, reaperVars, ownerOps>>

\* Mutant: the wait has no timeout.
UnboundedWait(w) == FALSE /\ UNCHANGED vars

\* m_cond.wait() times out: the borrow returns nothing.
BorrowTimedOut(w) ==
  /\ pc[w] = "waiting" /\ left[w] = 0
  /\ pc' = [pc EXCEPT ![w] = "out"]
  /\ UNCHANGED <<poolVars, left, waited, held, borrows, doomed, reaperVars, ownerOps>>

\* The factory returns a new connection. Nothing is checked on the way out: a
\* pool shut down or shrunk meanwhile still hands it to the borrower.
BuildSucceeds(w) ==
  /\ pc[w] = "building"
  /\ \E c \in Conn \ Built : held' = [held EXCEPT ![w] = @ \cup {c}]
  /\ pc' = [pc EXCEPT ![w] = "out"]
  /\ UNCHANGED <<poolVars, left, waited, borrows, doomed, reaperVars, ownerOps>>

\* Mutant: a failed build keeps its reserved slot.
BuildFailsKeepingSlot(w) ==
  /\ pc[w] = "building"
  /\ WakeOneAfter([pc EXCEPT ![w] = "out"])
  /\ UNCHANGED <<poolVars, left, waited, held, borrows, doomed, reaperVars, ownerOps>>

\* The factory fails: the reserved slot goes back and a waiter is told.
BuildFails(w) ==
  /\ pc[w] = "building"
  /\ live' = live - 1
  /\ WakeOneAfter([pc EXCEPT ![w] = "out"])
  /\ UNCHANGED <<idle, max, factory, shutdown, left, waited, held, borrows, doomed,
                 reaperVars, ownerOps>>

-----------------------------------------------------------------------------
(* release(), discard(), and the destroyer they run off the lock           *)

GiveUp(w, c) == held' = [held EXCEPT ![w] = @ \ {c}]

Release(w, c) ==
  /\ pc[w] = "out" /\ c \in held[w]
  /\ GiveUp(w, c)
  /\ \/ /\ shutdown \/ live > max
        /\ live' = live - 1
        /\ doomed' = doomed \cup {c}
        /\ UNCHANGED idle
     \/ /\ ~shutdown /\ live <= max
        /\ idle' = Append(idle, c)
        /\ UNCHANGED <<live, doomed>>
  /\ WakeOne
  /\ UNCHANGED <<max, factory, shutdown, left, waited, borrows, reaperVars, ownerOps>>

\* Mutant: the freed slot is not announced.
DiscardSilently(w, c) ==
  /\ pc[w] = "out" /\ c \in held[w]
  /\ GiveUp(w, c)
  /\ live' = live - 1
  /\ doomed' = doomed \cup {c}
  /\ UNCHANGED <<idle, max, factory, shutdown, pc, left, waited, borrows, reaperVars,
                 ownerOps>>

Discard(w, c) ==
  /\ pc[w] = "out" /\ c \in held[w]
  /\ GiveUp(w, c)
  /\ live' = live - 1
  /\ doomed' = doomed \cup {c}
  /\ WakeOne
  /\ UNCHANGED <<idle, max, factory, shutdown, left, waited, borrows, reaperVars, ownerOps>>

Destroy(c) ==
  /\ exit \in {"running", "draining"} /\ c \in doomed
  /\ doomed' = doomed \ {c}
  /\ UNCHANGED <<poolVars, workerVars, reaperVars, ownerOps>>

-----------------------------------------------------------------------------
(* The provider's calls                                                    *)

OwnerCall == ownerOps < MaxOwnerOps /\ ownerOps' = ownerOps + 1

\* configurePool(), after a connect: connections pooled before it stay pooled.
Configure(size) ==
  /\ exit = "running" /\ OwnerCall
  /\ factory' = TRUE /\ max' = Clamped(size) /\ shutdown' = FALSE
  /\ WakeAll
  /\ UNCHANGED <<idle, live, left, waited, held, borrows, doomed, reaperVars>>

SetMaxSize(size) ==
  /\ exit = "running" /\ OwnerCall
  /\ max' = Clamped(size)
  /\ WakeAll
  /\ UNCHANGED <<idle, live, factory, shutdown, left, waited, held, borrows, doomed,
                 reaperVars>>

\* Mutant: the reaped entries stay in m_idle.
ReapIdleKeepingEntries(n) ==
  /\ exit = "running" /\ OwnerCall
  /\ n \in 1..Len(idle)
  /\ live' = live - n
  /\ doomed' = doomed \cup {idle[i] : i \in 1..n}
  /\ UNCHANGED <<idle, max, factory, shutdown, workerVars, reaperVars>>

\* reapIdle(): entries are in the order they were returned, so the ones idle
\* for long enough are the first n of them. Nobody is notified. The calling
\* thread closes them itself.
ReapIdle(n) ==
  /\ exit = "running" /\ OwnerCall
  /\ n \in 1..Len(idle)
  /\ idle' = SubSeq(idle, n + 1, Len(idle))
  /\ live' = live - n
  /\ doomed' = doomed \cup {idle[i] : i \in 1..n}
  /\ UNCHANGED <<max, factory, shutdown, workerVars, reaperVars>>

\* Hand the idle connections to a reaper, if one may start.
HandOver(mayStart) ==
  \/ /\ idle = << >>
     /\ UNCHANGED <<reapers, leaked, active>>
  \/ /\ idle # << >> /\ mayStart             \* registry.enter(), thread started
     /\ active' = active + 1
     /\ reapers' = reapers \cup {IdleSet}
     /\ UNCHANGED leaked
  \/ /\ idle # << >>                         \* enter() refused, or no thread
     /\ leaked' = leaked \cup IdleSet
     /\ UNCHANGED <<reapers, active>>

\* Mutant: enter() admits reapers during the drain.
ShutdownDuringDrain ==
  /\ exit # "killed" /\ ~shutdown /\ OwnerCall
  /\ shutdown' = TRUE
  /\ live' = live - Len(idle)
  /\ idle' = << >>
  /\ WakeAll
  /\ HandOver(TRUE)
  /\ UNCHANGED <<max, factory, left, waited, held, borrows, doomed, draining, exit>>

\* Mutant: borrowers blocked at capacity are not released.
ShutdownWithoutWakeup ==
  /\ exit # "killed" /\ ~shutdown /\ OwnerCall
  /\ shutdown' = TRUE
  /\ live' = live - Len(idle)
  /\ idle' = << >>
  /\ HandOver(~draining)
  /\ UNCHANGED <<max, factory, pc, left, waited, held, borrows, doomed, draining, exit>>

\* shutdownAsync(), up to the hand-over: the idle connections go to a reaper
\* the registry has accepted, or, once the exit-time drain has begun or no
\* thread can be started, to nobody.
ShutdownAsync ==
  /\ exit # "killed" /\ ~shutdown /\ OwnerCall
  /\ shutdown' = TRUE
  /\ live' = live - Len(idle)
  /\ idle' = << >>
  /\ WakeAll
  /\ HandOver(~draining)
  /\ UNCHANGED <<max, factory, left, waited, held, borrows, doomed, draining, exit>>

-----------------------------------------------------------------------------
(* The reaper threads and the exit-time drain                              *)

\* A reaper closes one connection; closing the last one, it leaves the registry.
Reap(r, c) ==
  /\ exit # "killed" /\ r \in reapers /\ c \in r
  /\ \/ /\ r = {c}
        /\ reapers' = reapers \ {r}
        /\ active' = active - 1
     \/ /\ r # {c}
        /\ reapers' = (reapers \ {r}) \cup {r \ {c}}
        /\ UNCHANGED active
  /\ UNCHANGED <<poolVars, workerVars, doomed, leaked, draining, exit, ownerOps>>

\* main() has returned. The operation queue joined the transfer workers first,
\* so none of them is inside the pool or closing a connection.
BeginExit ==
  /\ exit = "running"
  /\ \A w \in Worker : ~Borrowing(w) /\ held[w] = {}
  /\ doomed = {}
  /\ exit' = "draining" /\ draining' = TRUE
  /\ UNCHANGED <<poolVars, workerVars, doomed, reapers, leaked, active, ownerOps>>

\* Every reaper is done: the remaining exit handlers (OpenSSL's) run.
DrainDone ==
  /\ exit = "draining" /\ active = 0
  /\ exit' = "handlers"
  /\ UNCHANGED <<poolVars, workerVars, doomed, reapers, leaked, active, draining, ownerOps>>

\* The budget ran out first: _Exit(0).
DrainTimedOut ==
  /\ exit = "draining" /\ active > 0
  /\ exit' = "killed"
  /\ UNCHANGED <<poolVars, workerVars, doomed, reapers, leaked, active, draining, ownerOps>>

-----------------------------------------------------------------------------

BorrowStep(w) ==
  \/ BorrowRefused(w) \/ BorrowIdle(w) \/ BorrowReserve(w) \/ BorrowWait(w)
  \/ BorrowTimedOut(w) \/ BuildSucceeds(w) \/ BuildFails(w)

Return(w) == \E c \in held[w] : Release(w, c) \/ Discard(w, c)

WorkerStep(w) == BeginBorrow(w) \/ BorrowStep(w) \/ Tick(w) \/ Return(w)

OwnerStep ==
  \/ \E size \in Sizes : Configure(size) \/ SetMaxSize(size)
  \/ \E n \in 1..Len(idle) : ReapIdle(n)
  \/ ShutdownAsync

ReaperStep == \E r \in reapers : \E c \in r : Reap(r, c)
ExitStep == BeginExit \/ DrainDone \/ DrainTimedOut

Next ==
  \/ \E w \in Worker : WorkerStep(w)
  \/ \E c \in doomed : Destroy(c)
  \/ OwnerStep
  \/ ReaperStep
  \/ ExitStep

Spec == Init /\ [][Next]_vars

\* Threads run, factories and destroyers come back (the protocol's own timeouts
\* bound them), time passes, and a worker closes the handles it opened. Nothing
\* obliges a worker to borrow again or the provider to call.
Fairness ==
  /\ \A w \in Worker : /\ WF_vars(BorrowStep(w))
                       /\ WF_vars(Tick(w))
                       /\ WF_vars(Return(w))
  /\ WF_vars(\E c \in doomed : Destroy(c))
  /\ WF_vars(ReaperStep)

FairSpec == Spec /\ Fairness

-----------------------------------------------------------------------------
(* Properties                                                              *)

TypeOK ==
  /\ idle \in Seq(Conn) /\ live \in Int /\ max \in Nat \ {0}
  /\ factory \in BOOLEAN /\ shutdown \in BOOLEAN
  /\ pc \in [Worker -> {"out", "woken", "waiting", "building"}]
  /\ left \in [Worker -> 0..BorrowTimeout]
  /\ waited \in [Worker -> 0..(BorrowTimeout + 1)]
  /\ held \in [Worker -> SUBSET Conn]
  /\ borrows \in [Worker -> 0..MaxBorrows]
  /\ doomed \subseteq Conn
  /\ reapers \subseteq SUBSET Conn /\ leaked \subseteq Conn
  /\ active \in Int /\ draining \in BOOLEAN
  /\ exit \in {"running", "draining", "handlers", "killed"}
  /\ ownerOps \in 0..MaxOwnerOps

\* Every connection has one owner: it is idle once, or in the hands of one
\* worker, or on its way to being closed by one thread; release(), discard(),
\* reapIdle() and shutdownAsync() never leave it in two places, so no
\* connection is lent twice or destroyed while it is lent.
OneOwner ==
  /\ \A i, j \in 1..Len(idle) : idle[i] = idle[j] => i = j
  /\ \A w, v \in Worker : w # v => held[w] \cap held[v] = {}
  /\ IdleSet \cap Held = {}
  /\ (IdleSet \cup Held) \cap (doomed \cup Reaping \cup leaked) = {}
  /\ doomed \cap (Reaping \cup leaked) = {}
  /\ Reaping \cap leaked = {}
  /\ \A r, s \in reapers : r # s => r \cap s = {}

\* m_live counts exactly the idle, the borrowed and the reserved connections,
\* whatever fails, times out, is reconfigured or is shut down in between: no
\* slot is lost and none is given back twice.
SlotsAccounted == live = Len(idle) + Cardinality(Held) + Cardinality(Building)

\* What a borrower could take at once.
Available == Len(idle) + (IF factory /\ live < max THEN max - live ELSE 0)

\* No wakeup is lost: while a worker sleeps at capacity, every connection or
\* slot it could have is already promised to a worker that was notified, or
\* that is about to look.
NoLostWakeup ==
  Waiting # {} /\ ~shutdown => Available <= Cardinality(Woken)

\* A pool that has been shut down keeps nothing: a connection released late is
\* destroyed, not pooled where no reaper would ever find it.
ShutPoolIsEmpty == shutdown => idle = << >> /\ Waiting = {}

\* The exit handlers that free the crypto globals never run under a reaper that
\* is still disconnecting, and the registry counts exactly the running reapers.
ReapersGoneBeforeHandlers ==
  /\ active = Cardinality(reapers)
  /\ exit = "handlers" => reapers = {}

\* Every borrow returns, even when two transfers each hold one connection of a
\* full pool and both ask for a second.
BorrowReturns == \A w \in Worker : Borrowing(w) ~> ~Borrowing(w)

\* A pool that is shut down, and not set up again, gets all its connections
\* closed: no borrower keeps one and no reaper is left with one, unless the
\* exit-time budget runs out and ends the process.
ShutdownCloses ==
  (shutdown /\ exit = "running")
    ~> \/ IdleSet \cup Held \cup doomed \cup Reaping = {}
       \/ ~shutdown \/ exit = "killed"

\* What ConnectionPool.h says of m_borrowTimeoutMs: it bounds how long borrow()
\* blocks waiting for a connection.
BorrowBlockIsBounded == \A w \in Worker : waited[w] <= BorrowTimeout

=============================================================================

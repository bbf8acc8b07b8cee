# Verification of FileCommander

FileCommander is a dual-pane file manager in C++17 and Qt 5 (`src/`), with an account and relay
server in Rust (`server/src/`). This directory holds TLA+ models of the parts of it in which
several threads or processes share state or an operation of many steps can fail half-way, TLC
configurations that check them on small instances, and proofs that TLAPS checks for every value
of the constants. Source paths below are relative to the repository's `src/core` or `src/ui`
unless they say otherwise; `PROJECT.json` maps each definition to the lines it translates.

1. [The system](#1-the-system)
2. [The modules and the code](#2-the-modules-and-the-code)
3. [What the runs check](#3-what-the-runs-check)
4. [Fairness](#4-fairness)
5. [What is proved](#5-what-is-proved)
6. [Where the code and its comments part](#6-where-the-code-and-its-comments-part)
7. [What is not modelled](#7-what-is-not-modelled)
8. [Plan](#8-plan)

## 1. The system

| Part | State it keeps | Operations | What is hard | What makes it correct |
|---|---|---|---|---|
| Job queue (`operations/OperationQueue`) | a queue of local jobs, a queue of transfers, the workers and their busy flags, the size of the pool | enqueue, cancel, abort, pause, resume, resize, take a result, ask the user | results and questions cross threads, dialogs nest, a modal one opens in the middle of a handler, and a worker's flags outlive the job they were set for | jobs start in order, at most once, as many at a time as allowed; no worker waits for an answer that cannot come; a job told to stop stops |
| File operations (`operations/FileOperations`) | per worker: cancel, pause and skip-all flags, progress | copy, move, delete, link, rename, transfers across providers | an operation of several steps that fails, is cancelled, retried or killed between two of them | nothing the user did not give up is lost; success means done |
| Connection pool (`network/ConnectionPool.h`) | idle connections, their count, waiting borrowers, reaper threads | borrow, release, discard, configure, resize, reap, shut down | a connect that blocks outside the lock, shutdown under borrowers, threads that outlive `main` | one owner per connection, slots exactly counted, no lost wakeup, every connection closed |
| Network session (`network/NetworkSession`) | state, attempts, credentials and directory of one server tab; its worker thread | start, list, retry, retry with credentials, stop | answers of an older cycle, retries that race the user, a session stopped in the middle of a step | a request is answered or superseded; credentials are asked for once per attempt |
| Tabs of a panel (`ui/FilePanel`, `ui/TabManager`) and the directory model (`filesystem/FileSystemModel`) | tabs with parked sessions, the model's session, root, request id | open a server, switch, open, close, navigate, and every signal of a session | signals of a session that is no longer the active one, dialogs that run an event loop of their own | a tab shows what it asked for, and keeps its connection |
| Providers (SFTP, SMB, FTP, WebDAV; `network/*Provider`) | handles, a pool | list, read, write, rename, remove | the connection drops in the middle of a stream; some remember a size, resolve links or remove recursively | external here: what the operations rely on, with these differences |
| Transfer window (`ui/dialogs/TransferProgressDialog`) | a count of jobs, the paused button, timers to show and to hide | handlers of the queue's signals, clicks | a second copy of the queue's state, kept by signals that come in the middle of the queue's own handlers | the batch it shows is what the queue holds and runs |
| Account session (`account/AccountClient`, `server/src/api.rs`) | the pair of tokens in memory, in the keyring and in the server's table | sign in, register, restore, authenticated request, refresh, logout | requests meet the expiry together, replies arrive after a logout, calls are given up and served all the same, the keyring refuses a change and nobody looks | a request is answered or superseded, nobody is signed in or out by a stale reply |
| Sending the clipboard (`ui/CloudClipboardController`) | the queue, the active send and its batch, the switch | send, capture, answer, encode a picture, remove, sign out | an answer does not say what it answers; a picture is ready long after it was copied; a session ends and the queue is not told | what was asked for is sent, what was ruled out is not |
| Delivering the clipboard (`server/src/clipboard.rs`, the same controller) | payloads, deliveries, tombstones; saved records and acknowledgements | announce, list, download, acknowledge, remove, expire | every call and every announcement can be lost or late | a delivery reaches a device that stays, is saved once, and counts only when it is saved |
| Device agent (`account/DeviceAgent`, `server/src/agent.rs`) | a socket per device, the server's table of sockets | connect, hello, heartbeat, push | the device replaces a socket the server still serves | a push finds a device that is there |
| Relay (`account/RelayTunnel`, `server/src/relay.rs`) | sockets parked per role, slots; on each device a pipe with queues each way | dial, park, join, pump, end | two tasks look and park under separate locks; a close overtakes data in three queues | two halves of one session meet; what was written before a close arrives |
| Thumbnails, previews, streams | bounded caches and registries, request generations | request, cancel, deliver, evict | results of a superseded request, a queue at its limit | the result shown is the one asked for |
| Directory monitor, directory sizes | pending events, running sums | start, settle, cancel | notifications in bursts | a change that happened is seen in the end |
| The rest (presentation, parsing, platform services, vendored code) | | | | see `PROJECT.json`, `components` |

How they interact. The panels enqueue jobs on the queue from the GUI thread. The queue posts each
job to a worker thread, whose own `FileOperations` runs it; results and questions are posted back
to the GUI thread, and for a question the worker blocks until the user has answered. A job on
network providers reads and writes through connections it borrows from the provider's pool, two
of them if source and destination are one server. A server tab has a `NetworkSession`, a thread
of its own, which lists; the model of the panel is subscribed to the session of the active tab
while the other tabs keep theirs parked. The main window and the transfer window follow the queue
by its signals only, on the GUI thread, so that its handlers run inside the queue's.
A signed-in device keeps a socket to the server (the agent), over which the server only tells it
that something is there; the device then asks with authenticated calls, which the account session
refreshes and replays when its access token has expired. A file share between two devices is carried by a tunnel: one
device dials a socket for each connection, the other keeps a few parked, and the relay joins them.

`PROJECT.json` lists under `hazards` what in this code a test hardly reaches, at the line where
it bites, with the properties that speak of it.

## 2. The modules and the code

Each module is one component. Its header says which functions it stands for and what it leaves
out; the comment of a variable names the member or the local it is. A definition that a comment
introduces with "Mutant:" is no part of a specification: it is a plausible wrong version of the
definition after it, and the property it is paired with in `PROJECT.json` fails when it takes
its place.

| Module | Code | A step is |
|---|---|---|
| `ConnectionPool` | `network/ConnectionPool.h`: the pool and `ReaperRegistry` | one critical section under `m_mutex`, or one connection built or closed |
| `JobPipeline` | none: what one pipeline of the queue promises | one submission, completion, resize or abort |
| `OperationQueue` | `operations/OperationQueue.cpp`; the flags of `FileOperations` | one handler of the GUI thread, one checkpoint or entry of a worker |
| `LocalCopy` | `FileOperations::copyPaths`, `movePaths`, `copyOne` and the functions under it | one call that touches the disk, or one answer |
| `StreamCopy` | `FileOperations::transferFile`, `streamCopy` | one block, one call of a provider, or one answer |
| `ProviderTransfer` | `FileOperations::copyAcrossProviders`, `transferEntry` | one file, one listing, one removal, or one answer |
| `Removal` | `FileOperations::deletePaths`, `deleteProviderPaths`, `removeProviderTree` | one node removed, one listing, or one answer |
| `NetworkSession` | `network/NetworkSession.cpp` | one slot of the worker, or one step of its connect cycle between two looks at `m_stopping` |
| `NetworkTabs` | `ui/FilePanel.cpp` (tabs and prompts), `filesystem/FileSystemModel.cpp` (listings) | one click, or one signal delivered |
| `TransferWindow` (extends `OperationQueue`) | `ui/dialogs/TransferProgressDialog.cpp`, the question handlers of `ui/MainWindow.cpp` | a step of the queue with the window's slots in it, a timer, a progress report, or a click |
| `AccountSession` | `account/AccountClient.cpp`; `server/src/api.rs` | one call of the application, one handler of the server, or one reply |
| `ClipboardSend` | `ui/CloudClipboardController.cpp` (sending) | one slot of the GUI thread, or one picture encoded |
| `AgentLink` | `account/DeviceAgent.cpp`; `server/src/agent.rs` | one socket opened, registered, cut, found dead or left |
| `ClipboardDelivery` (extends `AgentLink`) | `server/src/clipboard.rs`; `ui/CloudClipboardController.cpp` (receiving) | one handler of the server, one slot of the device, or one loss |
| `RelayPairing` | `server/src/relay.rs` (pairing) | one critical section of a socket's task |
| `RelayTunnel` (extends `RelayPairing`) | `account/RelayTunnel.cpp`; `pump()` in `relay.rs` | one event of a pipe, one frame moved by the pump, or one act of an application |
| `MC_*` | instances | |
| `LocalCopy_proofs`, `StreamCopy_proofs`, `ProviderTransfer_proofs`, `NetworkTabs_proofs` | the theorems of section 5; each extends the module it is named after | |
| `TransferWindow_proofs` | likewise, of the queue and of the window above it | |
| `PoolAndRemoval_proofs` | likewise, of `ConnectionPool` and of `Removal`, which have their lemmas about sequences in common | |
| `Clipboard_proofs` | likewise, of `ClipboardDelivery` with `AgentLink` and of `ClipboardSend` | |
| `AccountAndRelay_proofs` | likewise, of `AccountSession` and of `RelayTunnel` with `RelayPairing` | |

**ConnectionPool.** `borrow()` is split where it gives up the mutex: `BeginBorrow` makes the
call; `BorrowRefused`, `BorrowIdle`, `BorrowReserve` and `BorrowWait` are the branches of the loop; `BuildSucceeds`
and `BuildFails` are the factory, which runs unlocked on a reserved slot. The condition variable
is the set of workers in "waiting"; `notify_one` makes some waiter "woken", which then competes for
the mutex like anybody. `Tick` is the passing of time in `wait_for`, which restarts the whole
timeout after each wakeup. `HandOver` is what `reapIdle()` and `shutdownAsync()` do with the
connections they take: a detached reaper, or nobody if the registry no longer accepts threads.
`BeginExit`, `DrainDone` and `DrainTimedOut` are the wait at process exit.

**OperationQueue.** The GUI thread's queue of posted calls is `events`; a dialog runs a nested
event loop, so results and further questions are delivered while questions are on screen, and
only the newest dialog can be answered (`prompts`, `Top`). The queue emits `finished()` between freeing a worker and starting the next job, and the main
window's slot may open a modal warning there: `HandleDone` is the handler without it, `HandleDoneWarned` the handler as far as the
warning, and `DismissWarning` the rest of it. A job is a number of entries, each of
which may ask about a conflict or an error; before an entry the worker goes through its checkpoint
(`waitIfPaused`, `isCancelled`). `Kind` distinguishes the operations by the flags they
reset when they start, which is where they differ. The closing of the window is
`CloseWindow`, `Join` and `JoinDone`: the destructor joins one worker after the other.

**JobPipeline.** A pipeline starts jobs in the order of submission, each at most once, and
never lets one wait beside an idle worker, unless the end of an earlier one is still being told (`Tell`, `Told`). `OperationQueue` implements it twice, once per queue;
the refinement mappings (`LocalPipeline`, `TransferPipeline`) take the queue, the busy workers' jobs, the
history of submissions and the warnings on screen.

**LocalCopy.** What is on the disk is kept per entry and place: source, target, the free name
of "rename", the hidden file a replacement is staged in, the hidden name the occupant has
meanwhile, and hidden names left for good. A file is one piece, a directory a set of them. Each
system call of `copyOne()`, `copyDirectorySafely()` and `commitStagedPath()` is a step and has a failing
twin; the user's answers, the administrator's helper and cancellation come between. The helper is Linux', which refuses a target
that exists, or one that replaces it when the user chose to overwrite (`replaces`): macOS' removes the target before it runs `cp` or `mv`, Windows'
writes over it. One that fails may leave nothing or part of a copy at the target (`Partial`), and `helped` remembers it. Since a kill
leaves exactly the disk of the state it happens in, the invariants speak of every state and there is
no crash action.

**StreamCopy.** A file is a sequence of numbered blocks, and an edit changes a block's
sign, so that "the same content" is equality. The probe of the target, the verification of a
partial file, the loop with its two ways to end, the checks of the size, the commit with its lock
retries, and the answers are steps; the source is appended to, cut or edited by somebody else at
any time (`World`). A provider asks anew for the size of an open source each time it is asked and reads from the file (SFTP, SMB, the local disk), or it keeps the first answer and reads
ahead in a thread of its own (FTP, WebDAV): `fresh`, `Handed`, `ReadAhead`. `checked` is the source at the last look
the code takes at it: the size asked for once more, or, of a source that tells no size, the read that finds its end; `sure` says whether
that look could tell where the source ends. A second size that cannot be learnt passes (`FileOperations.cpp:1497`).

**ProviderTransfer.** One level up from `StreamCopy`: a file's transfer ends whole, partial or
with the target as it was. It adds the server-side move, the listing of directories, the removal
of sources, and answers that hold for the batch. `RecursiveRemove` says whether the provider's `remove()`
takes a directory that is not empty, as a WebDAV `DELETE` does.

**Removal.** The trees are a parent function; `Above` is what a node is in, taken from the least set closed under the
parent, and by `RootedAssumption` every node is under something selected. What lies beyond a link to a directory is a
node too, so that following the link shows. `stack` holds the calls of `removeProviderTree()`, each with
the children it has still to do. A local deletion (`QDir::removeRecursively`) is one call that
removes node after node and goes on past failures. `follows` says whether the provider's `isDir()` resolves links, as `FileProvider.h:127` allows and
`SftpProvider::isDir()` does.

**NetworkSession, NetworkTabs.** The session's slots run in the order of its calls; `doing` says
where the worker is in a slot that blocks. What it emits is put into `events`, one queue of the GUI
thread, if the model is subscribed then (`wired`), and is delivered by `NetworkTabs`: a signal that was
posted is delivered even if its sender has been replaced meanwhile, and `Sender` and `Mine` are the test on
`sender()` that is to catch it. A tab's connection is in its `TabState` while parked and in the model while
active; `Attach` and `DropUnowned` are `attachConnection()` with the deleter of the shared pointer.

**TransferWindow.** The queue emits `finished`, `started` and the rest from inside its own handlers, with
direct connections; so a step of the window is no step of its own but a conjunct of the queue's (`WNext`): the queue's action,
and what the window's slots make of it, in the order the signals are emitted. `win` holds the members of the
dialog. The deferred show, the terminal hide, a progress report large enough to show it at once, and the clicks are
actions of their own. A question suppresses the window until it is answered, as the main
window's two handlers do. The main window is connected first, so that its warning keeps a result from this window until it is read (`JobDoneWarned`, `WarningRead`).

**AccountSession.** A call is a record that travels by itself: to the server, where it is served or refused against
the table of tokens, and back. The client may give one up after its timeout; it may reach the server
all the same (`Strays`). An invalidation raises the generation, and the replies of older generations
are aborted. Tokens are numbered as they are issued; the keyring is written after the memory, in the same slot, and may refuse the
change (`Store`; the client ignores the result), which `behind` remembers.
A handler of the server that reads and then writes in two database calls is two steps.

**ClipboardSend.** The queue, the active send, the counters of the batch and the switch are the members of
the controller. The answer of a call carries nothing that names its send; `requests` are the calls under way, and the property is
that the answer that ends a send was the send's own. A picture waits in `encoding` with what was decided when it was copied.
A session can also end by itself (`SessionEnds`): a failed refresh clears the tokens and emits no `loggedOut`, so the queue keeps what it has. The
next `Login` then aborts the call of the active send without a word to the controller, which `stranded` remembers.

**AgentLink, ClipboardDelivery.** A device opens numbered sockets; the server's table names one per device, the one that was
registered last, and a socket that ends clears the place only if it is still its own. A path dies
without a word; the heartbeat or the server's send finds out. Over the link go announcements; the calls the device then makes
(list, download, acknowledge) are lost, served late, or served without the answer coming back. A device has an agent that is wanted
and a session with tokens (`wanted`, `tokens`); a failed refresh takes the second and leaves the first (`SessionLost`), and the sign-in after
it aborts the downloads whose entries stay (`stuck`). Of
the server's database the rows count: payload, deliveries, tombstones, each handler in the transaction the code gives it.

**RelayPairing, RelayTunnel.** A socket is admitted under the cap, looks for a live sender of the other role under one lock
(`Join`) and parks its own under another (`Park`). A parked socket that gives up leaves its sender behind, dead. `RelayTunnel` follows
one pair: on each side the queue to the socket, the queue to the local connection and the flags of `Pipe`, with the WebSocket's parser, the
network link and the relay's pump between them, each bounded; what the pump cannot place it holds, which is the
back-pressure.

## 3. What the runs check

`tlc -workers 2 -config <cfg> <module>` for each row; the runs of `PROJECT.json` are these.
Deadlock is not checked where the system may stop: every batch ends, the user may do nothing,
and the bounds end every history.

| Run | Instance | What it shows |
|---|---|---|
| `pool_all` | two workers that borrow twice each, three connections, a size that goes between one and two (0 is clamped), three calls of the provider, timeouts of one tick | `OneOwner`: no connection is lent twice or closed while lent. `SlotsAccounted`: the count is exact. `NoLostWakeup`. `ShutPoolIsEmpty`. `ReapersGoneBeforeHandlers`: the crypto globals are freed only once no reaper is left. `BorrowReturns`, also when two transfers hold one connection each and want a second |
| `queue_safety` | two local jobs, two transfers, a pool of up to two workers | `NobodyForgotten`: a blocked worker has exactly one question under way. `PipelinesRefine`: both pipelines implement `JobPipeline`, with nested dialogs, a warning in the middle of a handler, aborts and a limit that changes |
| `window_all` | two transfers, a limit that is one at first, one question per job, two requests | `BatchTracksQueue`: the count of jobs is what is with a worker or held up by a warning. `WorkWillShow`: work that lasts is shown or will be. `WindowGoesAway`. Of the queue under it, `CancelledJobEnds` and `JobsSettle` |
| `copy_safety` | a file and a directory of two files, copied and moved, two failing steps, four relations of target and source, a helper that refuses targets or replaces them | `SourceKept`, `OccupantKept`, `NoTruncatedFile` in every state, so also after a kill; the last two except for what a helper does that fails after it has begun |
| `stream_safety` | files of up to three blocks, one change of the source, one failing call, sizes known or not, asked for anew or remembered | `DoneIsWhole`: success means that as many blocks as were told are at the target, each the source's, and all of them where the provider could still tell. `CountedOnce`: progress. `Decides`: a lock does not hold the worker for ever |
| `tree_safety` | a file and a directory of two files and a link, two failing calls | `NothingDestroyed`, `ReportedIsThere` |
| `removal_safety` | a file, and a directory with a file and a directory that holds a file and a link to a directory elsewhere; a selected link to a directory; local, trash and a provider that resolves links or not; two failing calls | `OnlyThroughLinks`: there are two ways beyond the selection, both through a link, and no other. `TrueMeansGone` |
| `tabs_all` | one session, of each kind of server in turn, two attempts to connect and one to reconnect, one outage, three clicks | `NetworkListingsLand`: a listing that lands is of the active session and of the directory asked for last. `PromptsOncePerAttempt`. `LoadingEnds` |
| `account_all` | two requests, three pairs of tokens, three sign-ins, registrations, logouts or restarts, one call given up, one change the keyring refuses | `KeyringFollows`: the keyring holds what the memory holds, unless it refused the last change. `LogoutIsFinal`. `SessionKept`: a session ends only for a cause that is named. `RequestsSettle` |
| `send_all` | a text and a picture, to everyone or to one device, five acts of the user, a session that may end by itself at any time | `AnswersAreTheActiveSends`, `QueueIsWhatWasAsked`, `QueueDrains` |
| `delivery_all` | one payload for two devices, one of them switched off, one path cut, two calls lost, records not saved or rows expired, one restart, sign-out, removal or failed refresh | `DeliveredIsKept`, `PayloadWhileNeeded`, `SavedOnce`, `Arrives` |
| `relay_all` | one connection, one parked channel, two slots, one wait given up; one side writes two chunks; queues of one frame, links of two | `Connects`: a dialled connection is paired, refused or lost. `TailArrives`: what was written before a close is delivered before the end is seen, but for frames still unparsed when `bytesWritten()` closes the socket. `PipesEnd`: both |

Every module also states a type invariant, `TypeOK` (under another name, such as `RemovalTypeOK`, where two modules meet), which any of
the configurations checks when it is listed there; all are proved.

**Bounds.** Two workers on a pool that can have one connection or two are enough for every
competition of `ConnectionPool.h`: a holder and a waiter, two holders that each want a second
connection, a woken waiter that a newcomer overtakes, a release after the shutdown. Three workers would
add two waiters on one notification, which the proofs of section 5 cover. `queue_safety` has the
smallest pool that can grow, shrink and have a
worker beyond its limit, and two jobs per pipeline, of which one must wait; two nested questions
need two workers that ask. `window_all` adds to it the case the window can get wrong: a job
that waits while another ends, with an abort that leaves one running. In the copy models the entries of a batch interact only through the
batch-wide answers and flags, for which two entries are enough, and pieces of a directory through
the place they share, for which two are; two failures are needed for a step that fails while the
failure of another is being repaired (the replacement cannot be installed and the occupant cannot
be put back). Three blocks give a partial file that has a verified block, a differing one and a
rest. In `Removal` two levels of directories give a skip that must be carried up through a
directory that was itself a child. Three clicks are open, switch and close; two attempts are the least
that has a backoff. Two sessions at once are in `tabs_close`; `tabs_all` has the one session that is parked and
taken up again, in every state of its cycle.

Two requests are the least that can meet one expiry together; three pairs are the one
that expires, the one it is renewed to and the one of a new sign-in; one given-up call is a late refresh or a late logout.
A text and a picture are enough for every order of a send that is ready and one that is not; five acts are two captures, a
removal, a switch and a sign-in after a session that ended, which is no act of the user; one refused change is a
keyring that is behind and catches up, or does not. Deliveries of different payloads meet only in the device's table entry and in
the single list call, deliveries of one payload in its deletion, so one payload and two devices of which one never answers are kept; two
faults are a lost answer and a second loss during its repair. A queue of one chunk is full or not; two chunks and a close
put a frame in every queue of one direction at once, and a link of two lets a data frame and the close be unparsed together; one side writes, as both directions are the same code and
share only the flags.

**Run by hand.** The other configurations show behaviours of section 6; each ends with a counterexample.

**Mutants.** Each property of a run has a mutant in `PROJECT.json`: a definition and the wrong
form of it, such as a wakeup left out, a resumption that does not compare
the last block, an answer given to the oldest question instead of the newest one, a close that does not wait for the queue. With the mutant in
place TLC finds the property violated on the run's own instance, so the bounds reach what the property
is about.

## 4. Fairness

Liveness is checked under weak fairness of what a thread or an event loop does by itself, and of
nothing else:

* `ConnectionPool!Fairness`: a worker inside `borrow()` goes on, time passes, the factory and the
  destroyer return (the protocols under them have timeouts of their own), a worker gives back
  what it holds (its handles are owned by RAII guards of the job), reapers go on. Nothing obliges a
  worker to borrow, or the provider to call the pool.
* `TransferWindow!WFairness` (and `OperationQueue!Fairness`, which it restates for the window's steps; in addition the
  two timers fire): posted calls are delivered, worker threads run, the destructor's loop runs, and
  **a question on screen is answered, and a warning read, in the end**. This is an assumption about the user, made because
  the worker, or the next job, waits for it by design; `JobsSettle` also leaves out a worker the user keeps
  paused. Nothing obliges a user to enqueue, resume, cancel or close.
* `StreamCopy!LiveSpec`: the worker takes its steps. Answers and changes of the source are free.
* `NetworkTabs!LiveSpec`: signals are delivered, local scans end, the sessions' threads run (a
  dial either works or fails). The user, the network and the heartbeat timer owe nothing:
  `LoadingEnds` holds although no dialog need ever be answered.
* `AccountSession!FairSpec`: a call the client waits for is served or times out (`m_timeoutMs`), and the reply is
  taken. A call given up need never arrive.
* `ClipboardSend!SendFairSpec`: the event loop starts the next send, and a call answers, each by itself. No picture need be encoded, no session end, and nobody need sign in or out.
* `ClipboardDelivery!FairSpec`: the device reconnects while it is signed in and has a session (its timer; without tokens it has no address to dial), its heartbeat finds a dead
  path, both ends read, calls are answered. Not assumed: that the server finds a dead socket by itself, or that a failed call
  is made again; a device one of whose calls failed waits for the next announcement or reconnect (`missed`).
* `RelayTunnel!RelayFairness`: sockets are dialled and served, the events of a pipe come, its timers fire, the pump moves. Nobody
  has to write, close or give up. One weak fairness stands for the pair's events, because some of them is
  possible until the pair is at rest.

No property needs strong fairness.

## 5. What is proved

A theorem here holds for every value of the constants: any number of jobs, workers, entries, calls
or devices, files of any length, and any bound on failures and histories, so that a bound which keeps
TLC's instances small limits nothing. The assumptions on the constants are the `ASSUME`s of the
component's module, which every run evaluates; a theorem that needs more says so in its statement.
Each proof has the same shape. An inductive invariant is stated as a conjunction of named parts;
lemmas such as `TypeStep`, `QueueStep` and `SourceStep` show, action by action, that a step keeps it; the theorem
then follows from what the invariant implies.

**`PoolAndRemoval_proofs`, the pool**

| Theorem | Says | Inductive invariant |
|---|---|---|
| `TypeCorrect` | `Spec => []TypeOK` | `TypeOK` itself |
| `OwnersUnique` | `Spec => []OneOwner` | `OwnerInv`: `TypeOK`, `OneOwner`, and no reaper has an empty list |
| `SlotsExact` | `Spec => []SlotsAccounted` | `SlotInv`: `OwnerInv` and the count |
| `WakeupsKept` | `Spec => []NoLostWakeup` | `WakeInv`: `TypeOK` and `NoLostWakeup` |
| `ShutMeansEmpty` | `Spec => []ShutPoolIsEmpty` | with `TypeOK` |
| `HandlersRunAlone` | `Spec => []ReapersGoneBeforeHandlers` | `ExitInv`: the owners, and the phase of the exit |

*Owners.* A step moves a connection from one owner to the next, and it has to be seen that it takes
it away from the first. For a reaper this needs that two reapers with different lists have
disjoint ones and that neither list is empty (an empty one would be indistinguishable from a reaper that is
done). *Slots.* The count changes with three cardinalities at once: `live` goes with idle, borrowed and
reserved connections. That a connection lent was not yet held, and that one given back was, comes from the
owners, which is why `SlotInv` contains `OwnerInv`. *Wakeups.* What a borrower could take at once never
exceeds the number of workers already notified as long as somebody sleeps. A step either makes one
more connection or slot available and notifies one more, or a notified worker leaves and has
taken one, or found none. This holds without knowing that the count is exact. *Exit.* The
registry's counter is the number of running reapers, a reaper can no longer start once the drain has
begun, and the handlers run only at zero.

**`PoolAndRemoval_proofs`, deletions**

| Theorem | Says | Inductive invariant |
|---|---|---|
| `RemovalTypeCorrect` | `RemovalSpec => []RemovalTypeOK` | `RemovalInv`: `RemovalTypeOK` and `Calls` |
| `NothingElseIsGone` | `RemovalSpec => []OnlyThroughLinks` | the property with `RemovalInv` |
| `SuccessMeansGone` | `RemovalSpec => []TrueMeansGone` | `Success` (`Done`, `Ends`, `Rooted`) with `RemovalInv` |
| `SkippedIsKept` | `RemovalSpec => []SkippedStays` | `Standing` and `Over` with `RemovalInv` |
| `CancelIsKept` | `RemovalSpec => []CancelBeginsNothing` | `Begun` with `RemovalInv` |

*The forest.* The trees have any shape and any size, so what is above a node cannot be computed step by step; the
proofs use that `Path(n)` is closed and least. From this follow that the nodes above a node form a line, that a child's path is
its parent's and the child, and what `Tree` and `Swept` have in common. *The calls.* `Calls` says that the calls on the stack are about the path
of the innermost one, each node on it the child of the one before and no longer on that one's list (`Way`), and that the lists hold only what
the operation may work at (`Duty`). Without it a step of the innermost call says nothing about the selected path it is for. *What goes.* One lemma (`StepTakes`) says of
every step what it can take away: part of the tree of the innermost call's node, or of what the local deletion sweeps at it.
`NothingElseIsGone` has no hypothesis: what goes and was not selected went through a link that was selected, or through a provider that
resolves links; `removal_link` of section 6 is the first case. *Success.* A path the operation is through with can still be
there only if the report has already turned false (`Done`). What is in a tree goes before its
top: whatever is there has its parent there as well, or is beyond a link (`Rooted`), and this is kept by the
recursive removal of a server, by an administrator's helper that stops half-way, and by a call whose answer is lost. An empty set
of tops then means empty trees. *Skipped.* A call that fails is skipped with all the calls around it, so what it is in must be there at that
moment and never go afterwards. `Standing` says the first: all that the innermost call's node is in is there, so is the node, unless
an answer was lost, and so are the children the calls around it have still to do; they are beside the node, not in it (`Beside`), and what a server
removes with the node leaves them alone. `Over` says the second: a skipped path is in no selected tree that is in
hand or to come, and a step takes only what is in the one in hand (`TakesWithin`). What is proved is more than `SkippedStays` says: also where a
provider resolves links, everything above the skipped path stays. *Cancelled.* Once the flag is set, the calls a step leaves
on the stack were there before it (`NothingBegins`), so what they are about only shrinks.

**`TransferWindow_proofs`, the queue**

| Theorem | Says | Inductive invariant |
|---|---|---|
| `TypeCorrect` | `Spec => []TypeOK` | `QueueInv`: `TypeOK`; a job under way has entries left; a worker not idle has a job, and is busy; `Talk` |
| `NobodyIsForgotten` | `Spec => []NobodyForgotten` | `QueueInv` |
| `PipelinesAreKept` | `Spec => PipelinesRefine`: both queues implement `JobPipeline` | `QueueInv` and `PipeInv` |

*Types* need more than types: `job[w]` is a job, and `left[w]` does not go below zero, only
because of the step the worker is at. *Questions.* `NobodyForgotten` counts the entries of two sequences;
`Talk` says the same of positions (a worker that asks is mentioned in exactly one of them, at one place), which survives the
append of a question, the removal of the newest one and the delivery of the oldest call without
arithmetic on cardinalities. A warning on screen is nobody's question, so `Talk` does not count it. *Refinement.* `StartNext` serves several workers in one step. `StartFacts` describes
it by positions: the first k jobs go to the k free workers of least rank, one each.
`PipeInv` says that the jobs of a line wait and stand there once, that busy workers have started jobs of their own
pipeline, no two the same, and that no job waits beside an idle worker within the limit unless a warning of the pipeline is open (`NoneIdle`). From these each step of the
queue is one submission, completion (told or not), resize or abort of `JobPipeline`, or does not concern the pipeline. How many warnings are
open is the cardinality of a set of places in `prompts`; `WarnComes` and `WarnGoes` say that a handler adds one and the reader takes one away.

**`TransferWindow_proofs`, the window**

| Theorem | Says | Inductive invariant |
|---|---|---|
| `WindowTypeCorrect` | `WSpec => []WTypeOK` | `WorkInv`: `QueueInv`, `PipeInv` and `WindowInv` |
| `CountIsTrue` | `WSpec => []BatchTracksQueue` | `WorkInv` |
| `WorkIsShown` | `WSpec => []WorkWillShow` | `WorkInv` |
| `QueueIsKept` | `WSpec => Spec` | none: a step of the two is one of the queue |

By `QueueIsKept` the queue's theorems hold under the window. The window's count is kept from
signals, one per worker that finishes or starts, and one step may bring several; that their sum is
the change of the number of busy workers uses the refinement's description of `StartNext`. A result that the main window's warning holds up has left the
worker and not reached the window: `Out` counts both, so that the count is right also in between.

**`NetworkTabs_proofs`**

| Theorem | Says | Inductive invariant |
|---|---|---|
| `TypeCorrect` | `Spec => []TypeOK`, of the panel and the sessions | `TabsInv`: `TypeOK`; tabs, calls and signals are sequences of what they should carry; each session is `Healthy` and `Working` |
| `PromptsOnce` | `Spec => []PromptsOncePerAttempt` | `TabsInv` |
| `ListingsLand` | `Spec => NetworkListingsLand`, an action property | `TabsInv` |

*Prompts.* `Healthy` says that a session that has asked still awaits the answer, that it dials with credentials nobody has accepted
only before it has asked, and that a connected one has been accepted. A heartbeat or a listing can then not make
it ask again, since neither dials while the answer is awaited. *Listings.* A request is an older one than the
view's last, or it is that one and of the directory on screen (`Fits`). This has to hold wherever a request can be: in
a posted call, in the session that works at it (`Working`) and in a signal not yet delivered. `Call` and
`Signal` are therefore sets that depend on the view; a click either numbers a new request, or leaves for a local directory, or goes
nowhere (`Moved`), and in each case they only grow (`Moves`).

**`LocalCopy_proofs`**

| Theorem | Says | Inductive invariant |
|---|---|---|
| `TypeCorrect` | `Spec => []TypeOK` | `TypeOK` itself |
| `NothingTruncated` | `Spec => []NoTruncatedFile` | `TypeOK` and the property |
| `OccupantsSafe` | `Spec => []OccupantKept` | `OccupantInv`: `TypeOK`, `PathInv`, and for each occupied entry `OccupantOf` |
| `ListedSafe` | `Spec => []ListedKept` | `SourceInv`: `TypeOK`, `PathInv`, and for each entry that is no alias `SourceOf` |
| `SourcesSafe` | `Spec => []SourceKept` if `Unlisted = {}` and no target is an alias of its source | `SourceInv` |

`PathInv` is what the proofs turn on: at each step of a commit it relates the step, the choice the user made and what is at the
place the copy goes to (while it is installed the staged copy is complete; while it is removed afterwards the target is).
`helped` is what `OccupantsSafe` and `NothingTruncated` except, entry by entry: an occupied target a replacing helper failed on, and the
place a helper was writing to; `replaces = FALSE` leaves no exception to the first.
`OccupantOf` and `SourceOf` then follow one entry from "not begun" over the steps of its commit to "left behind".
Since a kill of the process leaves the state it happens in, an invariant of every state speaks of kills as well.
`SourcesSafe` needs its two hypotheses: the configurations `copy_unlisted` and `copy_alias` of section 6 show what
happens without either. `ListedSafe` is what holds without them.

**`ProviderTransfer_proofs`**

| Theorem | Says | Inductive invariant |
|---|---|---|
| `TypeCorrect` | `Spec => []TypeOK` | `TypeOK` itself |
| `OccupantsSafe` | `Spec => OccupantKept`, an action property | `OverInv` with `TypeOK` |
| `FilesSafe` | `Spec => []FilesKept` | `FilesInv`: `TypeOK`, `WalkInv`, and of each file that is not its own target `EntryOf`, `Settled`, `KeptOf` |
| `NothingIsDestroyed` | `Spec => []NothingDestroyed` if `RecursiveRemove = FALSE` and `"same" \notin Situations` | `FilesInv` |
| `ReportsAreTrue` | `Spec => []ReportedIsThere` if `"same" \notin Situations` | `FilesInv` |

`WalkInv` says where the walk of a directory stands. The rest distinguishes, for the entry in hand, files already
passed, the one under way and those to come, and for entries behind it, whether all went well: only then may a source have been removed on the
strength of the report. Again the hypotheses are needed (`tree_webdav`, `tree_same`), and `FilesSafe` is what remains without them: only what was skipped, is not streamed or was hidden by
a failed listing can be lost with a directory that is removed.

**`StreamCopy_proofs`**

| Theorem | Says | Inductive invariant |
|---|---|---|
| `TypeCorrect` | `Spec => []TypeOK` | `StreamInv` |
| `DoneMeansWhole` | `Spec => []DoneIsWhole` | `StreamInv`: `TypeOK`, `Extent`, `Measure`, `Agreement`, `Verdict`, `Counting`, `Stopping` |
| `ProgressIsTrue` | `Spec => []CountedOnce` | `StreamInv` |
| `StopsAtOnce` | `Spec => []CancelStops` | `StreamInv` |

`Extent` says how long the target is at each step, `Measure` that no more is written than the source had when it was opened.
`Agreement` carries the content: as many blocks as are copied, or verified before a resumption, are what the source has there now, as long
as nobody rewrote the source in place. A source that is cut shortens only what is compared, and one that grows adds
behind it, so the invariant survives both; the last look (the size again, or the end of a source without sizes) then turns
agreement up to a length into equality, which is `Verdict`, if it told where the source ends (`sure`); a provider that remembers the size, or cannot
tell it again, leaves the agreement up to the shorter length. Blocks that were read ahead of a cut are what the source had, and are compared with nothing. The types depend on all of it: that the
offset stays within the longest file is a consequence of `Measure`.

**`Clipboard_proofs`, deliveries**

| Theorem | Says | Inductive invariant |
|---|---|---|
| `TypeCorrect` | `Spec => []TypeOK`, with the agent's link | `TypeOK` itself |
| `DeliveredSafe` | `Spec => []DeliveredIsKept` | `DeliveryInv`: `TypeOK`, `ClientInv` and the first two properties |
| `PayloadsKept` | `Spec => []PayloadWhileNeeded` | `DeliveryInv` |
| `SavesOnce` | `Spec => []SavedOnce` | `DeliveryInv` |

`ClientInv` relates a device's entry for a payload to the calls it has under way: an acknowledgement that may still arrive, even one
nobody waits for, is of something that has been saved, and a call that is awaited is the only one of its payload.
On the server `RowsShrink` says what any handler does to rows once they are written, so that payload and pending deliveries go together.

**`Clipboard_proofs`, the send queue**

| Theorem | Says | Inductive invariant |
|---|---|---|
| `SendTypeCorrect` | `SendSpec => []SendTypeOK` | `SendInv`: `SendTypeOK`, `QueueHolds`, `Sent`, and no picture of a removed record is being encoded |
| `AnswersMatch` | `SendSpec => []AnswersAreTheActiveSends` | `SendInv` |
| `NothingAskedIsLost` | `SendSpec => []QueueIsWhatWasAsked` | `SendInv` |
| `CountsAddUp` | `SendSpec => []BatchCounts` | `SendInv` |

`QueueHolds` says more than the property: what the user asked for is in the queue *as a manual send* or is being sent. An entry that was
queued automatically first has become manual then, and the switch, which drops automatic entries, does not drop it. It also says
that whoever has a session is shown as signed in and may sign out, which empties the queue: a session that ended by itself leaves its entries, and
only the sign-out rules them out. `Sent` adds to the property that no call is of a session still to come; a call given up stays out for good,
and no later session has its number. A sign-in raises the number under an active send only when it strands it (`stranded`). The picture clause is needed because a picture becomes a record when it is encoded, which may be after the
user removed records. *Sequences.* What `Those` keeps of a queue is a function defined by recursion over its length. That it keeps
the right entries, in any number, is an induction; the library's theorem for it takes an operator the provers cannot instantiate, so
`Induction` is stated for sets of numbers and proved from their well-foundedness.

**`AccountAndRelay_proofs`, the account session**

| Theorem | Says | Inductive invariant |
|---|---|---|
| `TypeCorrect` | `Spec => []TypeOK` | `TypeOK` itself |
| `LogoutSafe` | `Spec => []LogoutIsFinal` | `TypeOK` and `SignedOff`: after a logout nobody waits for an answer, and the keyring is empty unless it refused |
| `KeyringSafe` | `Spec => []KeyringFollows` | `SessionInv`: `TypeOK`, `Bounded`, and while no known cause has come up `Order` |
| `SessionsLast` | `Spec => SessionKept`, an action property | `SessionInv` |

`Order` says that at most one call that brings tokens is awaited (`OneCarrier`), that it was sent with what the client still holds and brings what the
server holds (`Carriers`), that memory and keyring hold the server's pair, the keyring unless it refused its last change, or such a call is on its way (`InStep`, `Current`), that without a
session no request waits (`Idle`), and that a late logout
is not about the session that followed it (`Endings`). The known causes are those of section 6; once one has come up
the model keeps it in `cause`, and these theorems promise nothing more. A refused change is not among them: it lets the keyring fall
behind, which `KeyringSafe` says, and takes no session away that is in use, which `SessionsLast` says.

**`AccountAndRelay_proofs`, the tunnel**

| Theorem | Says | Inductive invariant |
|---|---|---|
| `TunnelTailArrives` | `RelaySpec => []TailArrives` | `TailInv`, until a socket is lost: `TailTyped`, `Entries`, `Stage`, and of each device `Closing`, `Uplink`, `Downlink` and, while what it writes can still arrive, `Passage` |
| `TunnelTypeCorrect` | `RelaySpec => []RelayTypeOK` | `TunnelInv`: `PairingTypeOK`, `Entries`, `Counted`, and of each Pipe `Fit` |
| `SlotsAddUp` | `RelaySpec => [](slots = Cardinality(Held) /\ slots <= Limit)` | `TunnelInv` |

It has no hypothesis. The property speaks of the moment the other application sees the
end. `Passage` says why it holds then: at every moment the chunks one application wrote are those in its Pipe, on their way to the relay, in the pump's hand, on
their way to the other device, in its Pipe, and given to its application; and a place goes only when it is empty (the
connection ends only after the first Pipe has gone), but for the parser of the other device: its Pipe can go while frames are unparsed, and then they
are data (`Unparsed`), they are counted as lost, and a `bytesWritten()` closed the socket (`late`). The queued check of `finish()` comes
only after the parser is empty (`check`), which is why it loses nothing. This is a claim
about what can still arrive (`Lives`): an application that closes before its relay socket is up drops what it wrote, one that has itself
closed is owed nothing, and neither is one whose share could not be dialled. *Marks.* The queues carry marks beside the data, and
the order of the marks is what keeps the data: behind an EOF comes only the close, behind the close nothing, and
"paired" comes first (`InOrder`). `Data` counts the chunks of such a queue as its length less its marks, so that taking a
frame off and putting one behind are lemmas about lengths and no sum over a sequence is needed. *The Pipe.* `Shape` is what the flags
of a Pipe say of its sockets and queues (an EOF is queued only when nothing is left to send; a Pipe whose WebSocket is gone is draining). Each slot of `Pipe` has a lemma,
and `Becomes` turns an event that keeps `Shape` and loses no chunk into a step of the invariant. *The pairing.* Until the halves
meet, the far device has neither a Pipe nor a frame (`Stage`); that a connection is paired once, and only a
parked socket with it, needs what the queues of the server hold (`Entries`). When both EOFs have been read the pump ends with both
sockets open; by then both applications have closed, or a Pipe has gone, and nobody is left who could be short of a chunk.

*The slots.* The type of `slots` alone is not inductive: a number that only goes up and down could go below zero. `Held` names
who owns each slot: a socket that looks for its half or waits for it, and of a pair its connection, which stands for both. A socket
that moves takes a slot, gives its own back or keeps it (`SlotMoves`, `SlotFreed`); a socket that joins a parked one gives its
own back, and the pair, whichever half is lost first, gives back one. In these two theorems sockets may be lost. The count is right, and
still no bound on the open sockets: `OpenCapped` (section 6) fails because the code lets one slot stand for the two of a pair.

**Only model-checked.** Liveness (`BorrowReturns`, `CancelledJobEnds`, `JobsSettle`, `WindowGoesAway`, `Decides`,
`LoadingEnds`, `RequestsSettle`, `QueueDrains`, `Arrives`, `Connects`, `PipesEnd`), since fairness and ENABLED are out of
the prover's reach. Every invariant and every other action property of the runs is proved. `SkippedStays` and
`CancelBeginsNothing` of `Removal` are proved and belong to no run; they also hold on the instance of `removal_safety` when they are listed there.

## 6. Where the code and its comments part

Each configuration here ends in a counterexample: the code does something a comment beside it
excludes, or that its caller would not expect. They are kept to be run by hand.

| Configuration | Property | What happens |
|---|---|---|
| `queue_abort` | `AbortReachesEveryJob` | `OperationQueue.h:86` calls the abort a "Hard stop"; every operation but two starts with `m_cancelled = false` (`FileOperations.cpp:643`). A job that was posted to a worker and not begun when the user aborts is no longer in the queue and loses the flag: it runs to its end after `aborted()` has taken the window down |
| `queue_close` | `CloseEnds` | the destructor joins a worker that waits for an answer of the thread that joins it |
| `copy_unlisted` | `NothingDestroyed` | a move of a directory by copy and removal loses what `QDirIterator` does not list (dangling links, sockets) |
| `copy_alias` | `NothingDestroyed` | a target that is the source by another path is replaced by itself |
| `stream_consent` | `OverwritesByConsent` | a target whose `exists()` failed is taken for free and truncated unasked |
| `tree_webdav` | `NothingDestroyed` | `transferEntry()` removes a moved directory and relies on `remove()` refusing one that still holds a skipped file (`FileProvider.h:408`); a WebDAV `DELETE` takes everything (`CurlWebDavProvider.cpp:910`) |
| `tree_same` | `NothingDestroyed` | source and target are one path on one server |
| `tabs_close` | `KeepsConnections` | closing a tab in the background makes the model adopt the active tab's parked session, which is null unless that tab has been parked once (`FilePanel.cpp:3292`), and the live session is stopped |
| `removal_link` | `OnlySelected` | a selected link to a directory is emptied through the link, although "a selected link is one item" (`DirectoryStatisticsTask.cpp:62`); with `Follows` set a provider that resolves links does the same inside a tree |
| `delivery_late` | `PushesReach` | a request to open a socket that arrives after the device has opened another takes the device's place in the table, and announcements go to a socket nobody reads until it is found dead |

Further properties stand in the modules without a configuration of their own; listed in the named one, they fail too:

| Property, in | What happens |
|---|---|
| `BorrowBlockIsBounded`, `pool_all` | each wakeup starts the whole timeout again, so a worker that is overtaken waits longer than `m_borrowTimeoutMs` |
| `SilenceWasChosen`, `queue_safety` | a job of links or of one entry keeps the "skip all" of the batch before it on that worker |
| `NeverOverAQuestion`, `window_all` | an answer lifts the suppression while an older question is still open |
| `LateResultsEndNothing`, `window_all` | the result of an aborted job that still runs is counted in the batch begun meanwhile, which ends with it although a job is in flight |
| `PauseIsShown`, `window_all` | a worker's pause flag outlives the batch it was set in; the button is reset with the batch, so the next job on that worker waits with nothing on screen that says why |
| `AbortRemovesPartialDirectory`, `copy_safety` | a directory copy that is aborted from an error dialog keeps the partial directory an earlier attempt made |
| `AttemptFailsByFault`, `copy_safety` | the retry of a directory fails because what the first attempt left is in its way |
| `AbortKeepsNoTruncatedFile`, `stream_safety` | a cancelled transfer leaves the part it wrote under the final name |
| `ListingsAreChecked`, `tree_safety` | a directory that cannot be listed counts as empty |
| `SkipGoesOn`, `tree_safety` | a file skipped after an error ends the directory it is in: the files after it are not tried |
| `LocalTabsStayLocal`, `tabs_all` | a tab that goes from a server to the local disk takes the listing posted before |
| `PromptOffered`, `tabs_all` | a tab left while its session waits for credentials is not asked again |
| `LogoutForgets`, `account_all` | a registration in between gives the client an account without a name, and the logout then forgets nothing |
| `ExpiryIsOrdinary`, `account_all` | two requests that meet the expiry both refresh with the same token; the server spends it on the first, refuses the second, and the client takes the refusal for the end of the session (`AccountClient.cpp:208-236`) |
| `LogoutEndsItsOwn`, `account_all` | the server's logout authenticates and deletes in two database calls, and deletes by device: a logout that is late revokes the session of the sign-in after it |
| `OpenCapped`, `relay_all` | "Cap the number of relay WebSockets open at once" (`relay.rs:99`): the joiner's slot is given back when its task returns at `relay.rs:135`, while its socket lives on in the pump of the other |
| `NoTwoWait`, `relay_all` | the two ends look for each other under one lock and park under another (`relay.rs:118-153`): when both look before either parks, both wait out the minute |

Some runs pass because their property names what the code does beside its promise, and allows nothing else. These exceptions are the code's, not
the model's:

| Property | What the exception is |
|---|---|
| `PipelinesRefine`, `BatchTracksQueue` | the queue emits `finished()` before it starts the next job (`OperationQueue.cpp:346-350`, `407-411`); the main window's slot may run a modal warning there (`MainWindow.cpp:606-612`), during which a worker is idle beside a waiting job and the transfer window still counts the one that has ended |
| `OccupantKept`, `NoTruncatedFile` | told to overwrite, macOS' helper removes the target before it copies (`FileCommanderPrivilegedHelper.cpp:80-92`), and a helper that fails may leave nothing there, or part of a file under its final name |
| `DoneIsWhole` | FTP and WebDAV answer the second `handleSize()` with the first answer (`CurlFtpProvider.cpp:843`, `CurlWebDavProvider.cpp:1277`), and a second size of -1 passes (`FileOperations.cpp:1497`): a source that is cut or grows meanwhile can end as done |
| `OnlyThroughLinks` | a selected link to a directory, and a provider whose `isDir()` resolves links (`SftpProvider.cpp:555-567`) |
| `KeyringFollows`, `LogoutIsFinal` | the result of `CredentialStore::save()` and `remove()` is ignored (`AccountClient.cpp:145`, `276`): after a refused write the keyring holds a spent token, after a refused removal the next start may restore the session |
| `AnswersAreTheActiveSends`, `QueueDrains` | a failed refresh clears the tokens and emits no `loggedOut` (`AccountClient.cpp:233-238`); the next `login()` aborts the call of the active send, neither finished nor failed is emitted (`647-664`), and the queue waits for an answer that cannot come until the user signs out |
| `QueueIsWhatWasAsked` | after such an end automatic entries stay queued, as only `loggedOut` clears them (`CloudClipboardController.cpp:61-77`) |
| `Arrives` | the same `login()` aborts a download without a signal (`AccountClient.cpp:788-789`); its entry stays Downloading and every later list passes over it (`CloudClipboardController.cpp:580-586`), although the device asks again |
| `TailArrives` | `bytesWritten` of the local socket calls `disconnectTcpIfDrained()` (`RelayTunnel.cpp:78-81`) while frames are still in the WebSocket's parser, and they are dropped; the comments at 111 and 123 have the case in mind, but only for the other signal |
| `Connects` | two ends that look for each other before either parks (`NoTwoWait` above) |
| `NothingDestroyed`, `SourceKept` | `tree_safety` and `copy_safety` fix `RecursiveRemove = FALSE` and `Unlisted = {}`; `tree_webdav` and `copy_unlisted` above show the losses otherwise |

Two things show in the reading of the relay rather than in a run: `m_pendingToTcp` has no limit of its own, so
the back-pressure ends at the socket's reader; and the relay keeps one side's EOF to itself, so a
one-sided close always waits out the fallback of five seconds.

## 7. What is not modelled

`PROJECT.json` gives a reason for each component. Of the components that are modelled, these
abstractions matter:

* Bytes are pieces or blocks; rates, sizes and times are left out, apart from the timeouts and the
  number of attempts. Wording, progress text and logging are left out.
* An administrator's `mv` that fails is taken to leave its source whole.
* A provider is the set of answers its interface allows. Its protocol is external, except
  for how `SftpProvider` uses the pool.
* File systems: a system call is atomic; the order in which the disk itself persists writes
  at a power failure is left out. A kill of the process is covered.
* In `OperationQueue` the job's effect on files is left out, in the copy models the queue: they meet in the flags
  and the checkpoints, which both have.
* `NetworkTabs` is one panel without histories, archives or search results.
* Of `FileOperations`, `copyAs`, `renamePath`, `makeDirectory`, `createSymlinks` and the restoring from
  the trash are only kinds of jobs in the queue.
* `TransferWindow` leaves out the mode for sending to a device, the labels and the rates.
* `AccountSession` leaves out the device list, mail verification and the password calls, and the server's database beyond the
  tokens of one device; the clipboard models leave out content, quotas and the deduplication of equal content.
* `RelayPairing` takes tickets as a refusal; `RelayTunnel` follows the bytes of one pair.

## 8. Plan

Done, in this order: the pool with its proofs, the queue with its abstract specification, local copies,
streams, transfers of trees, sessions and tabs, deletions; then the window over the queue, the account's session, the
clipboard in both directions over the agent's link, and the relay. The most important state of the program,
the user's files, is covered first, then what every transfer passes through, then what goes between devices.

Next modules:

1. `PendingSends`: the file share's store of sends that outlive a restart (`account/PendingTransferStore.cpp`), with
   lost and repeated acknowledgements.
2. `RequestCache`: thumbnails and previews, with the generation of a request, the bounded queue and eviction.
3. `SmbHelper` (requests, answers, a helper that dies), `SingleInstance` (two instances that start
   at once), `DirectoryMonitor` (bursts and a missed event), `FileOperations::copyAs` with the undo from the trash.

Abstract specifications to state: the session as "each request is answered or superseded", implemented by
`NetworkSession` under `NetworkTabs`; one file's transfer as the three outcomes `ProviderTransfer` assumes, implemented
by `StreamCopy`, so that the two modules meet in a checked refinement and not only in a comment; a tunnel as two bounded
channels that close after their last byte, implemented by `RelayTunnel`.

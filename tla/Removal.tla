------------------------------ MODULE Removal -------------------------------
(***************************************************************************)
(* deletePaths() and deleteProviderPaths() (core/operations/               *)
(* FileOperations): a batch of trees is deleted for good on this machine,  *)
(* moved to its trash, or deleted on a provider.                           *)
(*                                                                         *)
(* What is beyond a link to a directory is a node too, with the link for   *)
(* its parent: it can be reached through the link and is no part of the    *)
(* tree that holds the link.                                               *)
(***************************************************************************)
EXTENDS Naturals, Sequences, SequencesExt

CONSTANTS
  Node,        \* the selected trees, and what lies beyond their links
  Root,        \* where the selected ones are
  Parent,      \* [Node -> Node \cup {Root}]
  Folder,      \* the nodes that are directories
  Link,        \* the nodes that are links to directories
  Hows,        \* which of "local", "trash", "provider" are used
  Follows,     \* whether isDir() of the provider may resolve links, may not
  Recursive,   \* whether its remove() may take a full directory, may not
  MaxFailures  \* bound: failing calls

ASSUME TreeAssumption ==
  /\ Root \notin Node /\ Parent \in [Node -> Node \cup {Root}]
  /\ Folder \cap Link = {} /\ Folder \cup Link \subseteq Node
  /\ \A n \in Node : Parent[n] \in Folder \cup Link \cup {Root}
ASSUME HowAssumption == Hows \subseteq {"local", "trash", "provider"}
ASSUME ProviderAssumption == Follows \subseteq BOOLEAN /\ Recursive \subseteq BOOLEAN
ASSUME BoundAssumption == MaxFailures \in Nat

VARIABLES
  how,         \* which operation, and toTrash
  follows,     \* of the provider: isDir() of a link
  recursive,   \* of the provider: remove() of a full directory
  disk,        \* the nodes that are there
  todo,        \* the selected paths not begun
  stack,       \* the calls of removeProviderTree(), each with the children it has
               \* still to do; of a local deletion one call with all it has to do
  step,        \* the step the innermost call is at
  clean,       \* the local "success" of QDir::removeRecursively()
  elevatable,  \* the error offers an administrator's retry
  skipAll,     \* m_errorBatch
  cancelled,   \* m_cancelled
  allOk,       \* what the operation reports
  passed,      \* history: the nodes the user chose to skip
  unheard,     \* history: the nodes that went although the call failed
  inHand,      \* history: what the operation was at when it was cancelled
  late,        \* history: what it removed by a call of its own after that
  failures     \* history: failing calls

removalVars ==
  <<how, follows, recursive, disk, todo, stack, step, clean, elevatable, skipAll, cancelled,
   allOk, passed, unheard, inHand, late, failures>>

-----------------------------------------------------------------------------
(* The tree                                                                *)

\* A node and what it is in: the least set closed under Parent.
Closed(S) == \A m \in S : Parent[m] \in S \cup {Root}
Path(n) == {m \in Node : \A S \in SUBSET Node : n \in S /\ Closed(S) => m \in S}

Above == [n \in Node |-> IF Parent[n] = Root THEN {} ELSE Path(Parent[n])]
Below(n) == {m \in Node : n \in Above[m]}
Children(n) == {m \in Node : Parent[m] = n}
Selected == Children(Root)

ASSUME RootedAssumption == \A n \in Node : Path(n) \cap Selected # {}

\* The selected trees: nothing of what their links lead to.
Own == {n \in Node : Above[n] \cap Link = {}}
Tree(n) == {n} \cup {m \in Below(n) : (Above[m] \ Above[n]) \cap Link = {}}

\* Mutant: links below the top are followed.
SweptThroughLinks(n) == Below(n)

\* What QDir::removeRecursively() works through at n: it does not ask whether n
\* itself is a link, and follows none below.
Swept(n) == {m \in Below(n) : (Above[m] \ (Above[n] \cup {n})) \cap Link = {}}

\* isDir() of the provider; QFileInfo::isDir() resolves links.
IsDir(n) == n \in Folder \/ (n \in Link /\ (how = "provider" => follows))

RemovalInit ==
  /\ how \in Hows /\ follows \in Follows /\ recursive \in Recursive
  /\ disk = Node /\ todo = Selected
  /\ stack = << >> /\ step = "next" /\ clean = TRUE
  /\ elevatable = FALSE /\ skipAll = FALSE /\ cancelled = FALSE /\ allOk = TRUE
  /\ passed = {} /\ unheard = {} /\ inHand = {} /\ late = {} /\ failures = 0

Fault == failures < MaxFailures /\ failures' = failures + 1

fixed  == <<how, follows, recursive>>
answer == <<elevatable, skipAll>>
traces == <<passed, unheard, inHand>>

Top == Last(stack)
Frame(n, todoThere) == [node |-> n, left |-> todoThere]
Enter(n, todoThere) == Append(Front(stack), Frame(n, todoThere))

-----------------------------------------------------------------------------
(* The batch                                                               *)

\* Where the work on a selected path starts.
Start(n) ==
  CASE how = "provider" -> stack' = <<Frame(n, {})>> /\ step' = "enter"
    [] how = "local" /\ IsDir(n) -> stack' = <<Frame(n, Swept(n) \cap disk)>> /\ step' = "children"
    [] OTHER -> stack' = <<Frame(n, {})>> /\ step' = "remove"

Begin(n) ==
  /\ step = "next" /\ ~cancelled /\ n \in todo
  /\ todo' = todo \ {n} /\ clean' = TRUE
  /\ Start(n)
  /\ UNCHANGED <<fixed, disk, answer, cancelled, allOk, traces, late, failures>>

Finish ==
  /\ step = "next" /\ (todo = {} \/ cancelled)
  /\ step' = "ended" /\ allOk' = (allOk /\ todo = {})
  /\ UNCHANGED <<fixed, disk, todo, stack, clean, answer, cancelled, traces, late, failures>>

\* requestCancel() from the GUI thread, at any time.
Cancel ==
  /\ step # "ended" /\ ~cancelled
  /\ cancelled' = TRUE
  /\ inHand' = UNION {{stack[i].node} \cup {m \in Swept(stack[i].node) : how # "provider"} : i \in 1..Len(stack)}
  /\ UNCHANGED <<fixed, disk, todo, stack, step, clean, answer, allOk, passed, unheard, late, failures>>

\* The work on a selected path is over, with everything gone or not. A cancelled
\* batch ends there, even if the path is gone (a local one), and else before the
\* next path.
PathEnds(gone) ==
  /\ stack' = << >>
  /\ IF cancelled' /\ (~gone \/ how # "provider")
       THEN step' = "ended" /\ allOk' = FALSE
       ELSE step' = "next" /\ allOk' = (allOk /\ gone)

\* A call comes back having removed its node.
CallEnds ==
  IF Len(stack) > 1
    THEN stack' = Front(stack) /\ step' = "children" /\ UNCHANGED allOk
    ELSE PathEnds(TRUE)

\* The user is to be asked, of the local file system with the choice to elevate.
CallFails == step' = "asking" /\ elevatable' = (how # "provider") /\ UNCHANGED <<stack, allOk>>

-----------------------------------------------------------------------------
(* QDir::removeRecursively() of a local directory: it goes on after a       *)
(* failure and never looks at m_cancelled.                                  *)

Sweeping(m) ==
  /\ how = "local" /\ step = "children" /\ m \in Top.left
  /\ Children(m) \cap Top.left = {} \/ m \in Link
  /\ stack' = Enter(Top.node, Top.left \ {m})
  /\ UNCHANGED <<fixed, todo, step, answer, cancelled, allOk, traces>>

SweepOne(m) ==
  /\ Sweeping(m) /\ (m \in Folder => Children(m) \cap disk = {})
  /\ disk' = disk \ {m}
  /\ late' = IF cancelled THEN late \cup {m} ELSE late
  /\ UNCHANGED <<clean, failures>>

\* A directory that could not be emptied stays without a fault of its own.
SweepFails(m) ==
  /\ Sweeping(m)
  /\ \/ Fault
     \/ m \in Folder /\ Children(m) \cap disk # {} /\ UNCHANGED failures
  /\ clean' = FALSE
  /\ UNCHANGED <<disk, late>>

SweepDone ==
  /\ how = "local" /\ step = "children" /\ Top.left = {}
  /\ IF clean THEN step' = "remove" /\ UNCHANGED <<stack, allOk, elevatable>> ELSE CallFails
  /\ UNCHANGED <<fixed, disk, todo, clean, skipAll, cancelled, traces, late, failures>>

-----------------------------------------------------------------------------
(* removeProviderTree()                                                    *)

Stopped ==
  /\ how = "provider" /\ cancelled
  /\ step = "enter" \/ (step = "children" /\ Top.left # {})
  /\ UNCHANGED cancelled /\ PathEnds(FALSE)
  /\ UNCHANGED <<fixed, disk, todo, clean, answer, traces, late, failures>>

Read ==
  /\ step = "enter" /\ ~cancelled
  /\ stack' = Enter(Top.node, IF IsDir(Top.node) THEN Children(Top.node) \cap disk ELSE {})
  /\ step' = "children"
  /\ UNCHANGED <<fixed, disk, todo, clean, answer, cancelled, allOk, traces, late, failures>>

\* A directory that cannot be asked about, or listed, looks empty.
ReadFails ==
  /\ step = "enter" /\ ~cancelled /\ Fault
  /\ step' = "children"
  /\ UNCHANGED <<fixed, disk, todo, stack, clean, answer, cancelled, allOk, traces, late>>

NextChild(c) ==
  /\ how = "provider" /\ step = "children" /\ c \in Top.left /\ ~cancelled
  /\ stack' = Append(Enter(Top.node, Top.left \ {c}), Frame(c, {}))
  /\ step' = "enter"
  /\ UNCHANGED <<fixed, disk, todo, clean, answer, cancelled, allOk, traces, late, failures>>

\* There is no look at m_cancelled between the last child and its directory.
ChildrenDone ==
  /\ how = "provider" /\ step = "children" /\ Top.left = {}
  /\ step' = "remove"
  /\ UNCHANGED <<fixed, disk, todo, stack, clean, answer, cancelled, allOk, traces, late, failures>>

-----------------------------------------------------------------------------
(* The node itself                                                         *)

\* What one call takes away: rmdir() refuses a link, and a directory that is not
\* empty unless the server removes recursively; the trash takes the tree.
Taken(n) ==
  CASE n \notin disk -> {}
    [] how = "trash" -> Tree(n)
    [] n \in Link /\ IsDir(n) -> {}
    [] n \in Folder /\ how = "provider" /\ recursive -> Tree(n)
    [] n \in Folder /\ Children(n) \cap disk # {} -> {}
    [] OTHER -> {n}

Removed(n) ==
  /\ disk' = disk \ Taken(n)
  /\ late' = IF cancelled THEN late \cup {n} ELSE late

RemoveNode ==
  /\ step = "remove" /\ Taken(Top.node) # {}
  /\ Removed(Top.node)
  /\ UNCHANGED cancelled /\ CallEnds
  /\ UNCHANGED <<fixed, todo, clean, answer, traces, failures>>

RemoveFails ==
  /\ step = "remove"
  /\ Fault \/ (Taken(Top.node) = {} /\ UNCHANGED failures)
  /\ CallFails
  /\ UNCHANGED <<fixed, disk, todo, clean, skipAll, cancelled, traces, late>>

\* The server does it, but its answer is lost.
RemoveUnheard ==
  /\ how = "provider" /\ step = "remove" /\ Taken(Top.node) # {} /\ Fault
  /\ Removed(Top.node)
  /\ unheard' = unheard \cup {Top.node}
  /\ CallFails
  /\ UNCHANGED <<fixed, todo, clean, skipAll, cancelled, passed, inHand>>

-----------------------------------------------------------------------------
(* resolveError() and resolveLocalFailure(): what the user answers         *)

Asked == step = "asking" /\ ~skipAll

\* The provider's loop is around remove() only, the local one around it all.
Retry ==
  /\ Asked
  /\ clean' = TRUE
  /\ IF how = "provider" THEN step' = "remove" /\ UNCHANGED stack ELSE Start(Top.node)
  /\ UNCHANGED <<fixed, disk, todo, answer, cancelled, allOk, traces, late, failures>>

\* Mutant: a path that was skipped counts as deleted.
SkipQuietly ==
  /\ step = "asking"
  /\ skipAll' \in {skipAll, TRUE}
  /\ passed' = passed \cup {Top.node}
  /\ stack' = << >> /\ step' = "next"
  /\ UNCHANGED <<fixed, disk, todo, clean, elevatable, cancelled, allOk, unheard, inHand, late, failures>>

\* "Skip", "skip all", and the answer "skip all" gave before: every call around
\* the one that failed returns false, too.
Skip ==
  /\ step = "asking"
  /\ skipAll' \in {skipAll, TRUE}
  /\ passed' = passed \cup {Top.node}
  /\ UNCHANGED cancelled /\ PathEnds(FALSE)
  /\ UNCHANGED <<fixed, disk, todo, clean, elevatable, unheard, inHand, late, failures>>

Abort ==
  /\ Asked
  /\ cancelled' = TRUE /\ PathEnds(FALSE)
  /\ UNCHANGED <<fixed, disk, todo, clean, answer, traces, late, failures>>

\* The administrator's rm -rf, for the trash too.
Elevate ==
  /\ Asked /\ elevatable
  /\ disk' = disk \ Tree(Top.node)
  /\ UNCHANGED cancelled /\ CallEnds
  /\ UNCHANGED <<fixed, todo, clean, answer, traces, late, failures>>

\* It may do part of the work; it is not offered again.
ElevateFails ==
  /\ Asked /\ elevatable
  /\ elevatable' = FALSE
  /\ \E gone \in SUBSET (Tree(Top.node) \ {Top.node}) :
       /\ \A n \in gone : Below(n) \cap Own \subseteq gone
       /\ disk' = disk \ gone
  /\ UNCHANGED <<fixed, todo, stack, step, clean, skipAll, cancelled, allOk, traces, late, failures>>

-----------------------------------------------------------------------------
Batch == (\E n \in Selected : Begin(n)) \/ Finish
Local == SweepDone \/ \E m \in Node : SweepOne(m) \/ SweepFails(m)
Provider == Stopped \/ Read \/ ReadFails \/ ChildrenDone \/ \E c \in Node : NextChild(c)
Removing == RemoveNode \/ RemoveFails \/ RemoveUnheard
Answering == Retry \/ Skip \/ Abort \/ Elevate \/ ElevateFails

RemovalNext == Batch \/ Cancel \/ Local \/ Provider \/ Removing \/ Answering

RemovalSpec == RemovalInit /\ [][RemovalNext]_removalVars

-----------------------------------------------------------------------------
(* Properties                                                              *)

\* Every variable has its type (locals of deletePaths() and removeProviderTree()).
RemovalTypeOK ==
  /\ how \in Hows /\ follows \in Follows /\ recursive \in Recursive
  /\ disk \subseteq Node /\ todo \subseteq Selected
  /\ stack \in Seq([node : Node, left : SUBSET Node])
  /\ step \in {"next", "enter", "children", "remove", "asking", "ended"}
  /\ step \notin {"next", "ended"} => stack # << >>
  /\ clean \in BOOLEAN /\ elevatable \in BOOLEAN /\ skipAll \in BOOLEAN
  /\ cancelled \in BOOLEAN /\ allOk \in BOOLEAN
  /\ passed \subseteq Node /\ unheard \subseteq Node /\ inHand \subseteq Node /\ late \subseteq Node
  /\ failures \in 0..MaxFailures

\* What lies beyond a link is not deleted with the link: "A selected link is one
\* item. In particular, never descend into a directory link"
\* (DirectoryStatisticsTask.cpp:62, which counts what the confirmation names). The
\* deletion does not keep this: no run lists it, and removal_link.cfg shows how it
\* fails.
OnlySelected == Node \ Own \subseteq disk

\* There are exactly two ways for a deletion to reach what is in no selected tree,
\* whatever fails, is asked again, skipped, elevated or cancelled: a provider whose
\* isDir() resolves links ("is (or resolves to)", FileProvider.h:127), into whose
\* links removeProviderTree() walks, and a selected path that is itself a link to a
\* directory, which deletePaths() empties as if it were one. The trash, a link
\* inside a local directory and a provider that tells links apart stay within the
\* selection.
OnlyThroughLinks ==
  \A n \in Node \ disk :
    \/ n \in Own
    \/ how = "provider" /\ follows
    \/ \E s \in Selected \cap Link : how = "local" /\ n \in Swept(s)

\* A deletion that reports complete success has left nothing of what was
\* selected (deletePaths() and deleteProviderPaths() return allOk), however often
\* it failed, was retried or was done by the administrator's helper.
TrueMeansGone == step = "ended" /\ allOk => Own \cap disk = {}

\* What the user chose to skip stays, and so do the directories it is in, also
\* where the server would remove them with all they hold: a call that fails makes
\* every call around it fail (removeProviderTree()).
SkippedStays == \A n \in passed \ unheard : {n} \cup (Above[n] \cap Own) \subseteq disk

\* A cancelled deletion begins with nothing new: it removes no more than the
\* calls it is in are about (FileOperations.h:214: it "Honours pause/cancel and
\* the error resolver per node").
CancelBeginsNothing == late \subseteq inHand

=============================================================================

---------------------------- MODULE JobPipeline ----------------------------
(***************************************************************************)
(* What a pipeline of the job queue promises, whatever its workers are:    *)
(* jobs start in the order they were submitted, each at most once, no      *)
(* more of them at a time than there are workers, and a job waits only     *)
(* while `limit` jobs run or the end of one is still being told: whoever   *)
(* hears of it holds the next job back until he has heard it out.          *)
(***************************************************************************)
EXTENDS Integers, Sequences, FiniteSets

CONSTANTS Jobs, \* the jobs of this pipeline
          Cap   \* the most workers it may ever have

VARIABLES line,    \* the jobs not started yet
          running, \* the jobs handed to a worker that have not reported
          seen,    \* the jobs ever submitted
          telling, \* how many ends of jobs are being told
          limit    \* how many jobs should run at a time

vars == <<line, running, seen, telling, limit>>

Init == line = << >> /\ running = {} /\ seen = {} /\ telling = 0 /\ limit \in 1..Cap

FirstOf(q, k) == {q[i] : i \in 1..k}

\* Some jobs at the head of q start beside the running ones r. After the limit
\* was lowered, the jobs of the workers beyond it still run beside `limit` others.
StartFrom(q, r) ==
  /\ \E k \in 0..Len(q) :
       /\ line' = SubSeq(q, k + 1, Len(q))
       /\ running' = r \cup FirstOf(q, k)
  /\ Cardinality(running') <= Cap
  /\ line' # << >> => Cardinality(running') >= limit'

Submit(j) ==
  /\ j \notin seen
  /\ seen' = seen \cup {j}
  /\ StartFrom(Append(line, j), running)
  /\ UNCHANGED <<telling, limit>>

Finish(j) ==
  /\ j \in running
  /\ StartFrom(line, running \ {j})
  /\ UNCHANGED <<seen, telling, limit>>

\* The end of a job is told before the next one starts.
Tell(j) ==
  /\ j \in running
  /\ running' = running \ {j}
  /\ telling' = telling + 1
  /\ UNCHANGED <<line, seen, limit>>

Told ==
  /\ telling > 0
  /\ telling' = telling - 1
  /\ StartFrom(line, running)
  /\ UNCHANGED <<seen, limit>>

SetLimit(n) ==
  /\ limit' = n
  /\ StartFrom(line, running)
  /\ UNCHANGED <<seen, telling>>

Drop ==
  /\ line' = << >>
  /\ UNCHANGED <<running, seen, telling, limit>>

Next ==
  \/ \E j \in Jobs : Submit(j) \/ Finish(j) \/ Tell(j)
  \/ Told
  \/ \E n \in 1..Cap : SetLimit(n)
  \/ Drop

Spec == Init /\ [][Next]_vars

=============================================================================

------------------------- MODULE MC_ConnectionPool --------------------------
\* Instances of ConnectionPool for TLC.
EXTENDS ConnectionPool, TLC

\* Workers and connections are interchangeable (safety runs only).
Symmetry == Permutations(Worker) \cup Permutations(Conn)

=============================================================================

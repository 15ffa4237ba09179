----------------------------- MODULE MCJobQueue -----------------------------
\* Instances of JobQueue for TLC.
EXTENDS JobQueue, TLC

\* Workers, clients and keys are interchangeable; rows are not (created_at order).
Symmetry == Permutations(Workers) \cup Permutations(Clients)
=============================================================================

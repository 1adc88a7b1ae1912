---------------------------- MODULE MCCommandJobs ----------------------------
\* Instances of CommandJobs for TLC.
EXTENDS CommandJobs, TLC

\* Handlers are interchangeable, and so are jobs and pipes.
Symmetry == Permutations(Callers) \cup Permutations(Jobs) \cup Permutations(Streams)
==============================================================================

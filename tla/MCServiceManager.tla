--------------------------- MODULE MCServiceManager ---------------------------
\* Instances of ServiceManager for TLC.
EXTENDS ServiceManager, TLC

\* Handlers are interchangeable, and so are instance ids.
Symmetry == Permutations(Callers) \cup Permutations(Instances)

\* Clobbered is for ever and the invariants say nothing of clobbered states.
NotClobbered == ~clobbered
==============================================================================

---------------------------- MODULE MCServiceLogs ----------------------------
\* Instances of ServiceLogs for TLC.
EXTENDS ServiceLogs, TLC

CONSTANTS out, err, w1, w2

\* The two pipes of one process, or the stdout threads of an old process and of
\* the one that replaced it.
TwoCaptures == {w1 :> out @@ w2 :> err, w1 :> out @@ w2 :> out}
==============================================================================

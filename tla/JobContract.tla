----------------------------- MODULE JobContract -----------------------------
(***************************************************************************)
(* What the job tools promise a client, whatever threads do behind them:   *)
(* a job is started once, its operating system process ends once, and      *)
(* every report of its end comes after the process ended, carries the real *)
(* exit code, and calls the job succeeded or failed only as that exit code *)
(* says.  A report may be repeated under another label (cancelled,         *)
(* timed_out): the code gives no stronger promise (see CommandJobs).       *)
(***************************************************************************)

CONSTANT Jobs

VARIABLES status, exitCode, proc

vars == <<status, exitCode, proc>>

Verdicts == {"succeeded", "failed", "timed_out", "cancelled"}
Exits == {"exit0", "exitN"}

Honest(label, exit) ==
  /\ label = "succeeded" => exit = "exit0"
  /\ label = "failed"    => exit = "exitN"

Init ==
  /\ status   = [j \in Jobs |-> "none"]
  /\ exitCode = [j \in Jobs |-> "none"]
  /\ proc     = [j \in Jobs |-> "absent"]

Start(j) ==
  /\ status[j] = "none"
  /\ status' = [status EXCEPT ![j] = "running"]
  /\ proc'   = [proc EXCEPT ![j] = "live"]
  /\ UNCHANGED exitCode

Exit(j) ==
  /\ proc[j] = "live"
  /\ \E x \in Exits : proc' = [proc EXCEPT ![j] = x]
  /\ UNCHANGED <<status, exitCode>>

Report(j) ==
  /\ status[j] # "none"
  /\ proc[j] \in Exits
  /\ \E label \in Verdicts :
       /\ Honest(label, proc[j])
       /\ status' = [status EXCEPT ![j] = label]
  /\ exitCode' = [exitCode EXCEPT ![j] = proc[j]]
  /\ UNCHANGED proc

Next == \E j \in Jobs : Start(j) \/ Exit(j) \/ Report(j)

FirstReport(j) == status[j] = "running" /\ Report(j)

Safe == Init /\ [][Next]_vars

Spec == Safe /\ \A j \in Jobs : WF_vars(FirstReport(j))
==============================================================================

----------------------------- MODULE CommandJobs -----------------------------
(***************************************************************************)
(* The command service (commands/service.py) over the in-memory job store  *)
(* (commands/jobs.py): run_command in the foreground and the background,   *)
(* cancel_job, the waiter thread of each background job and the capture    *)
(* threads of each process.  Every method of the store holds its lock from *)
(* its first line to its last, so a store call is one step; everything     *)
(* else interleaves.  A call refused before Popen (unknown project, empty  *)
(* argv, policy, cwd, OSError of Popen) saves nothing and is a stutter.    *)
(***************************************************************************)
EXTENDS Naturals, FiniteSets

CONSTANTS
  Callers,         \* threads that run tool handlers
  Jobs,            \* job ids; each is drawn once (uuid4)
  Streams,         \* the captured pipes of a process
  MaxOutput,       \* bound: output chunks stored per job
  JoinMayTimeOut,  \* join(timeout=1) may give up on a capture thread
  KillMayStall     \* wait(timeout=2) after kill() may raise TimeoutExpired

ASSUME MaxOutputIsNat == MaxOutput \in Nat
ASSUME FlagsAreBoolean == JoinMayTimeOut \in BOOLEAN /\ KillMayStall \in BOOLEAN

VARIABLES
  status,      \* JobRecord.status ("none": not in _jobs)
  exitCode,    \* JobRecord.exit_code
  output,      \* number of appends to JobRecord.output (what it says and its trimming are left out)
  processes,   \* keys of _processes
  proc,        \* the operating system process of the job
  signal,      \* the last signal that reached it while it lived
  capturing,   \* pipes whose capture thread still runs
  background,  \* JobRecord.background
  wpc,         \* where the thread that waits for the process stands
  verdict,     \* its local variable status / final_status
  cpc,         \* where each handler stands
  cjob,        \* the job it works on
  snapshot,    \* cancel_job: status of the copy _require_job returned
  issued       \* job ids a client has been given

record == <<status, exitCode, output>>
world  == <<proc, signal, capturing>>
waiter == <<wpc, verdict>>
caller == <<cpc, cjob, snapshot, issued>>
vars   == <<record, processes, world, background, waiter, caller>>

Verdicts == {"succeeded", "failed", "timed_out", "cancelled"}
Exits == {"exit0", "exitN"}

WaiterPoints == {"none", "start", "wait", "kill", "kill_wait", "join", "read",
                 "update", "pop", "done", "crashed"}
CancelPoints == {"lookup", "poll", "join", "finish", "pop", "terminate",
                 "term_wait", "kill", "kill_wait", "mark"}
CallerPoints == CancelPoints \cup {"idle", "attach", "launch", "foreground"}

Dead(j) == proc[j] \in Exits
Joined(j) == capturing[j] = {} \/ JoinMayTimeOut

\* Popen.poll() and Popen.wait() share one lock; a poll() that loses the race
\* for it answers None although the process is gone.
Waited(j) ==
  \/ wpc[j] \in {"wait", "kill_wait"}
  \/ \E c \in Callers : cjob[c] = j /\ cpc[c] \in {"term_wait", "kill_wait"}

VerdictOf(exit) == IF exit = "exit0" THEN "succeeded" ELSE "failed"

\* Mutant: the return code is stored where the status belongs.
CompletedStatusReturnsCode(snap, exit) == IF snap # "running" THEN snap ELSE exit
\* Mutant: the return code is not looked at.
CompletedStatusIgnoresCode(snap, exit) == IF snap # "running" THEN snap ELSE "succeeded"

\* _completed_process_status
CompletedStatus(snap, exit) == IF snap # "running" THEN snap ELSE VerdictOf(exit)

\* Mutant: the waiter does not look for a cancellation.
FinalStatusForgetsCancel(existing, own) == own

\* What the waiter writes when it found `existing` in the store.
FinalStatus(existing, own) == IF existing = "cancelled" THEN existing ELSE own

\* InMemoryJobStore.update(job_id, status=..., exit_code=process.returncode)
UpdateJob(j, s) ==
  /\ status'   = [status EXCEPT ![j] = s]
  /\ exitCode' = [exitCode EXCEPT ![j] = proc[j]]
  /\ UNCHANGED output

\* A signal only reaches a process that still lives.
Send(j, s) == signal' = IF Dead(j) THEN signal ELSE [signal EXCEPT ![j] = s]

At(c, here, next) == cpc[c] = here /\ cpc' = [cpc EXCEPT ![c] = next]
WaiterAt(j, here, next) == wpc[j] = here /\ wpc' = [wpc EXCEPT ![j] = next]

Init ==
  /\ status     = [j \in Jobs |-> "none"]
  /\ exitCode   = [j \in Jobs |-> "none"]
  /\ output     = [j \in Jobs |-> 0]
  /\ processes  = {}
  /\ proc       = [j \in Jobs |-> "absent"]
  /\ signal     = [j \in Jobs |-> "none"]
  /\ capturing  = [j \in Jobs |-> {}]
  /\ background = [j \in Jobs |-> FALSE]
  /\ wpc        = [j \in Jobs |-> "none"]
  /\ verdict    = [j \in Jobs |-> "none"]
  /\ cpc        = [c \in Callers |-> "idle"]
  /\ cjob       \in [Callers -> Jobs]
  /\ snapshot   = [c \in Callers |-> "none"]
  /\ issued     = {}

------------------------------------------------------------------------------
\* run_command

\* Popen, save(job), update(pid), start of the two capture threads.  Nobody
\* else knows the job id yet, so these are one step.
Spawn(j, bg) ==
  /\ status[j] = "none"
  /\ status'     = [status EXCEPT ![j] = "running"]
  /\ proc'       = [proc EXCEPT ![j] = "live"]
  /\ capturing'  = [capturing EXCEPT ![j] = Streams]
  /\ background' = [background EXCEPT ![j] = bg]
  /\ UNCHANGED <<exitCode, output, processes, signal, verdict>>

RunBackground(c, j) ==
  /\ At(c, "idle", "attach")
  /\ Spawn(j, TRUE)
  /\ cjob' = [cjob EXCEPT ![c] = j]
  /\ UNCHANGED <<wpc, snapshot, issued>>

AttachProcess(c) ==
  /\ At(c, "attach", "launch")
  /\ processes' = processes \cup {cjob[c]}
  /\ UNCHANGED <<record, world, background, waiter, cjob, snapshot, issued>>

\* waiter.start() and the answer that gives the client the job id.
LaunchWaiter(c) ==
  /\ At(c, "launch", "idle")
  /\ wpc' = [wpc EXCEPT ![cjob[c]] = "start"]
  /\ issued' = issued \cup {cjob[c]}
  /\ UNCHANGED <<record, processes, world, background, verdict, cjob, snapshot>>

\* The caller itself waits; its position is wpc[j] until it returns.
RunForeground(c, j) ==
  /\ At(c, "idle", "foreground")
  /\ Spawn(j, FALSE)
  /\ wpc' = [wpc EXCEPT ![j] = "wait"]
  /\ cjob' = [cjob EXCEPT ![c] = j]
  /\ UNCHANGED <<snapshot, issued>>

ForegroundReturns(c) ==
  /\ At(c, "foreground", "idle")
  /\ wpc[cjob[c]] \in {"done", "crashed"}
  /\ issued' = IF wpc[cjob[c]] = "done" THEN issued \cup {cjob[c]} ELSE issued
  /\ UNCHANGED <<record, processes, world, background, waiter, cjob, snapshot>>

------------------------------------------------------------------------------
\* The thread that waits for the process: _wait_for_background_job, or the
\* handler inside _run_foreground_job (which starts at "wait" and skips the
\* store lookups).

WaiterLookup(j) ==
  /\ \/ j \in processes /\ WaiterAt(j, "start", "wait")
     \/ j \notin processes /\ WaiterAt(j, "start", "done")
  /\ UNCHANGED <<record, processes, world, background, verdict, caller>>

WaiterReaps(j) ==
  /\ WaiterAt(j, "wait", "join")
  /\ Dead(j)
  /\ verdict' = [verdict EXCEPT ![j] = VerdictOf(proc[j])]
  /\ UNCHANGED <<record, processes, world, background, caller>>

WaiterTimesOut(j) ==
  /\ WaiterAt(j, "wait", "kill")
  /\ ~Dead(j)
  /\ UNCHANGED <<record, processes, world, background, verdict, caller>>

\* Mutant: the waiter asks where it must force.
WaiterKillsTerminates(j) ==
  /\ WaiterAt(j, "kill", "kill_wait")
  /\ Send(j, "term")
  /\ UNCHANGED <<record, processes, proc, capturing, background, verdict, caller>>

WaiterKills(j) ==
  /\ WaiterAt(j, "kill", "kill_wait")
  /\ Send(j, "kill")
  /\ UNCHANGED <<record, processes, proc, capturing, background, verdict, caller>>

WaiterReapsKilled(j) ==
  /\ WaiterAt(j, "kill_wait", "join")
  /\ Dead(j)
  /\ verdict' = [verdict EXCEPT ![j] = "timed_out"]
  /\ UNCHANGED <<record, processes, world, background, caller>>

\* TimeoutExpired out of wait(timeout=2): the thread ends, nothing is written.
WaiterStalls(j) ==
  /\ KillMayStall
  /\ WaiterAt(j, "kill_wait", "crashed")
  /\ ~Dead(j)
  /\ UNCHANGED <<record, processes, world, background, verdict, caller>>

\* Mutant: the verdict does not wait for the capture threads.
WaiterJoinsNobody(j) ==
  /\ WaiterAt(j, "join", IF background[j] THEN "read" ELSE "update")
  /\ UNCHANGED <<record, processes, world, background, verdict, caller>>

WaiterJoins(j) ==
  /\ Joined(j)
  /\ WaiterAt(j, "join", IF background[j] THEN "read" ELSE "update")
  /\ UNCHANGED <<record, processes, world, background, verdict, caller>>

WaiterReads(j) ==
  /\ WaiterAt(j, "read", "update")
  /\ verdict' = [verdict EXCEPT ![j] = FinalStatus(status[j], @)]
  /\ UNCHANGED <<record, processes, world, background, caller>>

WaiterUpdates(j) ==
  /\ WaiterAt(j, "update", IF background[j] THEN "pop" ELSE "done")
  /\ UpdateJob(j, verdict[j])
  /\ UNCHANGED <<processes, world, background, verdict, caller>>

WaiterPops(j) ==
  /\ WaiterAt(j, "pop", "done")
  /\ processes' = processes \ {j}
  /\ UNCHANGED <<record, world, background, verdict, caller>>

------------------------------------------------------------------------------
\* cancel_job

CancelJob(c, j) ==
  /\ At(c, "idle", "lookup")
  /\ j \in issued
  /\ cjob' = [cjob EXCEPT ![c] = j]
  /\ snapshot' = [snapshot EXCEPT ![c] = status[j]]
  /\ UNCHANGED <<record, processes, world, background, waiter, issued>>

\* Mutant: the lookup takes the process out of the table at once.
CancelLookupPops(c) ==
  /\ \/ cjob[c] \in processes /\ At(c, "lookup", "poll")
     \/ cjob[c] \notin processes /\ At(c, "lookup", "idle")
  /\ processes' = processes \ {cjob[c]}
  /\ UNCHANGED <<record, world, background, waiter, cjob, snapshot, issued>>

CancelLookup(c) ==
  /\ \/ cjob[c] \in processes /\ At(c, "lookup", "poll")
     \/ cjob[c] \notin processes /\ At(c, "lookup", "idle")
  /\ UNCHANGED <<record, processes, world, background, waiter, cjob, snapshot, issued>>

CancelPoll(c) ==
  /\ \/ Dead(cjob[c]) /\ At(c, "poll", "join")
     \/ (Dead(cjob[c]) => Waited(cjob[c])) /\ At(c, "poll", "terminate")
  /\ UNCHANGED <<record, processes, world, background, waiter, cjob, snapshot, issued>>

CancelJoins(c) ==
  /\ Joined(cjob[c])
  /\ At(c, "join", "finish")
  /\ UNCHANGED <<record, processes, world, background, waiter, cjob, snapshot, issued>>

CancelFinishes(c) ==
  /\ At(c, "finish", "pop")
  /\ UpdateJob(cjob[c], CompletedStatus(snapshot[c], proc[cjob[c]]))
  /\ UNCHANGED <<processes, world, background, waiter, cjob, snapshot, issued>>

CancelPops(c) ==
  /\ At(c, "pop", "idle")
  /\ processes' = processes \ {cjob[c]}
  /\ UNCHANGED <<record, world, background, waiter, cjob, snapshot, issued>>

\* The second poll() and terminate(), which polls once more.
CancelTerminates(c) ==
  /\ At(c, "terminate", "term_wait")
  /\ Send(cjob[c], "term")
  /\ UNCHANGED <<record, processes, proc, capturing, background, waiter, cjob,
                 snapshot, issued>>

\* Mutant: the timeout after SIGTERM is swallowed.
CancelTermTimesOutQuietly(c) ==
  /\ At(c, "term_wait", "mark")
  /\ ~Dead(cjob[c])
  /\ UNCHANGED <<record, processes, world, background, waiter, cjob, snapshot, issued>>

CancelTermTimesOut(c) ==
  /\ At(c, "term_wait", "kill")
  /\ ~Dead(cjob[c])
  /\ UNCHANGED <<record, processes, world, background, waiter, cjob, snapshot, issued>>

CancelKills(c) ==
  /\ At(c, "kill", "kill_wait")
  /\ Send(cjob[c], "kill")
  /\ UNCHANGED <<record, processes, proc, capturing, background, waiter, cjob,
                 snapshot, issued>>

CancelReaps(c) ==
  /\ At(c, "term_wait", "mark") \/ At(c, "kill_wait", "mark")
  /\ Dead(cjob[c])
  /\ UNCHANGED <<record, processes, world, background, waiter, cjob, snapshot, issued>>

\* TimeoutExpired out of wait(timeout=2): the handler fails, nothing is written.
CancelStalls(c) ==
  /\ KillMayStall
  /\ At(c, "kill_wait", "idle")
  /\ ~Dead(cjob[c])
  /\ UNCHANGED <<record, processes, world, background, waiter, cjob, snapshot, issued>>

CancelMarks(c) ==
  /\ At(c, "mark", "idle")
  /\ UpdateJob(cjob[c], "cancelled")
  /\ UNCHANGED <<processes, world, background, waiter, cjob, snapshot, issued>>

------------------------------------------------------------------------------
\* The process and its capture threads

ProcessExits(j) ==
  /\ proc[j] = "live"
  /\ \E x \in Exits : proc' = [proc EXCEPT ![j] = x]
  /\ UNCHANGED <<record, processes, signal, capturing, background, waiter, caller>>

\* append_output: copies the record under the lock and touches output only.
AppendOutput(j) ==
  /\ capturing[j] # {}
  /\ output[j] < MaxOutput
  /\ output' = [output EXCEPT ![j] = @ + 1]
  /\ UNCHANGED <<status, exitCode, processes, world, background, waiter, caller>>

\* A capture thread ends with its stream, which the process may close before it
\* exits, or earlier, at bytes that are no text.
CaptureEnds(j, s) ==
  /\ s \in capturing[j]
  /\ capturing' = [capturing EXCEPT ![j] = @ \ {s}]
  /\ UNCHANGED <<record, processes, proc, signal, background, waiter, caller>>

------------------------------------------------------------------------------
RunCommand(c) == \E j \in Jobs : RunBackground(c, j) \/ RunForeground(c, j)

WaiterStep(j) ==
  \/ WaiterLookup(j) \/ WaiterReaps(j) \/ WaiterTimesOut(j) \/ WaiterKills(j)
  \/ WaiterReapsKilled(j) \/ WaiterStalls(j) \/ WaiterJoins(j)
  \/ WaiterReads(j) \/ WaiterUpdates(j) \/ WaiterPops(j)

CancelStep(c) ==
  \/ CancelLookup(c) \/ CancelPoll(c) \/ CancelJoins(c) \/ CancelFinishes(c)
  \/ CancelPops(c) \/ CancelTerminates(c) \/ CancelTermTimesOut(c)
  \/ CancelKills(c) \/ CancelReaps(c) \/ CancelStalls(c) \/ CancelMarks(c)

\* A handler that has begun runs on.
CallerStep(c) ==
  AttachProcess(c) \/ LaunchWaiter(c) \/ ForegroundReturns(c) \/ CancelStep(c)

ProcessStep(j) ==
  \/ ProcessExits(j)
  \/ AppendOutput(j)
  \/ \E s \in Streams : CaptureEnds(j, s)

Next ==
  \/ \E c \in Callers :
       \/ RunCommand(c)
       \/ \E j \in Jobs : CancelJob(c, j)
       \/ CallerStep(c)
  \/ \E j \in Jobs : WaiterStep(j) \/ ProcessStep(j)

Spec == Init /\ [][Next]_vars

\* Threads are scheduled, a killed process dies and the pipe of a process that is
\* gone is drained.
\* A client owes no call, and a process owes no exit.
Fairness ==
  /\ \A c \in Callers : WF_vars(CallerStep(c))
  /\ \A j \in Jobs :
       /\ WF_vars(WaiterStep(j))
       /\ WF_vars(signal[j] = "kill" /\ ProcessExits(j))
       /\ \A s \in Streams : WF_vars(Dead(j) /\ CaptureEnds(j, s))

FairSpec == Spec /\ Fairness

------------------------------------------------------------------------------
\* Properties

\* Every variable keeps its type (jobs.py: the record and process tables).
TypeOK ==
  /\ status \in [Jobs -> {"none", "running"} \cup Verdicts]
  /\ exitCode \in [Jobs -> {"none"} \cup Exits]
  /\ output \in [Jobs -> 0..MaxOutput]
  /\ processes \in SUBSET Jobs
  /\ proc \in [Jobs -> {"absent", "live"} \cup Exits]
  /\ signal \in [Jobs -> {"none", "term", "kill"}]
  /\ capturing \in [Jobs -> SUBSET Streams]
  /\ background \in [Jobs -> BOOLEAN]
  /\ wpc \in [Jobs -> WaiterPoints]
  /\ verdict \in [Jobs -> {"none"} \cup Verdicts]
  /\ cpc \in [Callers -> CallerPoints]
  /\ cjob \in [Callers -> Jobs]
  /\ snapshot \in [Callers -> {"none", "running"} \cup Verdicts]
  /\ issued \in SUBSET Jobs

Terminal(j) == status[j] \in Verdicts

\* A client that reads a terminal status may rely on the process being gone:
\* neither the waiter nor cancel_job reports an end it has not waited for.
TerminalMeansDead == \A j \in Jobs : Terminal(j) => Dead(j)

\* When the waiting thread of a job is through, the job has a terminal status
\* and no entry in _processes, whichever of the waiter and cancel_job got to
\* the record and to the table first.  (A waiter that finds no process and
\* returns at once relies on cancel_job updating before it pops.)
FinishedWaiterLeavesNothing ==
  \A j \in Jobs : wpc[j] = "done" => Terminal(j) /\ j \notin processes

\* A cancellation nobody is about to overwrite.
Settled(j) ==
  /\ status[j] = "cancelled"
  /\ wpc[j] = "update" => verdict[j] = "cancelled"
  /\ \A c \in Callers :
       cjob[c] = j /\ cpc[c] \in {"lookup", "poll", "join", "finish"}
         => snapshot[c] = "cancelled"

\* The status "cancelled" survives every later step of the waiter and of other
\* cancel_job calls, once none of them holds an older copy of the status: the
\* waiter keeps "cancelled" when it finds it, cancel_job keeps its snapshot.
SettledCancelStays == [][\A j \in Jobs : Settled(j) => Settled(j)']_vars

\* When capture threads drain within their join, a record that says succeeded,
\* failed or timed_out has all of the output: nothing is appended to it later.
VerdictFreezesOutput ==
  [][\A j \in Jobs :
       status[j] \in {"succeeded", "failed", "timed_out"}
         => output'[j] = output[j]]_vars

\* Every job that was started ends with a terminal status and leaves the
\* process table, whatever its process does with SIGTERM and whoever cancels.
EveryJobEnds ==
  \A j \in Jobs :
    status[j] = "running" ~> (Terminal(j) /\ j \notin processes)

Contract == INSTANCE JobContract WITH
  Jobs <- Jobs, status <- status, exitCode <- exitCode, proc <- proc

\* The service implements the contract of JobContract: no report before the
\* end of the process, real exit codes, honest success and failure.
ContractSafe == Contract!Safe

\* ... and the end of every process is eventually reported.
ContractLive == Contract!Spec

\* Both: every job ends, as the contract has it and in the process table.
JobsEnd == EveryJobEnds /\ ContractLive

\* tests/test_commands.py:258-261: a job answered as cancelled is read back as
\* cancelled.
CancelIsReflected ==
  [][\A j \in Jobs : status[j] = "cancelled" => status'[j] = "cancelled"]_vars
==============================================================================

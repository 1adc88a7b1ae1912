-------------------------- MODULE CommandJobsProofs --------------------------
(***************************************************************************)
(* What CommandJobs guarantees for every number of callers, jobs and pipes *)
(* and for every bound.  The argument: whoever is about to write a         *)
(* terminal status has waited for the process (WaiterInv, CancelInv), so   *)
(* the record only ever ends after its process (RecordInv); and the table  *)
(* entry of a job is there from before its waiter starts until somebody    *)
(* has written a terminal status (TableInv).  That a verdict comes with    *)
(* all of the output needs joins that outlast the capture threads.         *)
(***************************************************************************)
EXTENDS CommandJobs, TLAPS

Honest(label, exit) ==
  /\ label = "succeeded" => exit = "exit0"
  /\ label = "failed"    => exit = "exitN"

\* A record with a terminal status belongs to a dead process and tells the truth.
RecordInv ==
  \A j \in Jobs :
    /\ status[j] = "none" <=> proc[j] = "absent"
    /\ Terminal(j) => Dead(j) /\ Honest(status[j], proc[j])

\* From "join" on the waiter has reaped the process and holds an honest verdict.
WaiterInv ==
  \A j \in Jobs :
    /\ wpc[j] # "none" => status[j] # "none"
    /\ wpc[j] \in {"join", "read", "update", "pop"} => Dead(j)
    /\ wpc[j] \in {"join", "read", "update"} =>
         verdict[j] \in Verdicts /\ Honest(verdict[j], proc[j])

\* cancel_job works on a known job, with an honest copy of its status, and has
\* reaped the process before it writes.
CancelInv ==
  \A c \in Callers : cpc[c] \in CancelPoints =>
    /\ cjob[c] \in issued
    /\ snapshot[c] # "none"
    /\ snapshot[c] \in Verdicts =>
         Dead(cjob[c]) /\ Honest(snapshot[c], proc[cjob[c]])
    /\ cpc[c] \in {"join", "finish", "pop", "mark"} => Dead(cjob[c])
    /\ cpc[c] = "pop" => Terminal(cjob[c])

\* Until its id is issued a job belongs to the caller that started it, a
\* foreground job until its waiting is over.
OwnerInv ==
  /\ \A j \in issued : wpc[j] # "none"
  /\ \A j \in Jobs : ~background[j] /\ wpc[j] \notin {"none", "done", "crashed"}
       => status[j] = "running" /\ j \notin issued
  /\ \A c \in Callers : cpc[c] \in {"attach", "launch"} =>
       /\ status[cjob[c]] # "none"
       /\ background[cjob[c]]
       /\ wpc[cjob[c]] = "none"
       /\ cpc[c] = "launch" => cjob[c] \in processes
       /\ \A d \in Callers \ {c} : cpc[d] \in {"attach", "launch"} => cjob[d] # cjob[c]
  /\ \A c \in Callers : cpc[c] = "foreground" => wpc[cjob[c]] # "none"

\* The entry of a job in the process table outlives its waiter's lookup.
TableInv ==
  \A j \in Jobs :
    /\ j \in processes => background[j] /\ status[j] # "none"
    /\ wpc[j] = "start" /\ j \notin processes => Terminal(j)
    /\ wpc[j] = "pop" => Terminal(j)
    /\ wpc[j] = "done" => Terminal(j) /\ j \notin processes

IInv == TypeOK /\ RecordInv /\ WaiterInv /\ CancelInv /\ OwnerInv /\ TableInv

------------------------------------------------------------------------------
\* Initially nothing is recorded and nobody is under way.
LEMMA InitInv == Init => IInv
  BY MaxOutputIsNat
  DEF Init, IInv, TypeOK, RecordInv, WaiterInv, CancelInv, OwnerInv, TableInv,
      WaiterPoints, CallerPoints, CancelPoints, Terminal, Dead, Verdicts, Exits

\* Steps of the tool handlers.
LEMMA CallerInv ==
  ASSUME IInv, NEW c \in Callers,
         RunCommand(c) \/ (\E j \in Jobs : CancelJob(c, j)) \/ CallerStep(c)
  PROVE  IInv'
  <1> USE DEF IInv, TypeOK, RecordInv, WaiterInv, CancelInv, OwnerInv, TableInv,
          WaiterPoints, CallerPoints, CancelPoints, At, record, world, waiter,
          Verdicts, Exits, Terminal, Dead, Honest
  <1>1. ASSUME NEW j \in Jobs, RunBackground(c, j) PROVE IInv'
    BY <1>1 DEF RunBackground, Spawn
  <1>2. ASSUME NEW j \in Jobs, RunForeground(c, j) PROVE IInv'
    BY <1>2 DEF RunForeground, Spawn
  <1>3. ASSUME NEW j \in Jobs, CancelJob(c, j) PROVE IInv'
    BY <1>3 DEF CancelJob
  <1>4. CASE AttachProcess(c)
    BY <1>4 DEF AttachProcess
  <1>5. CASE LaunchWaiter(c)
    BY <1>5 DEF LaunchWaiter
  <1>6. CASE ForegroundReturns(c)
    BY <1>6 DEF ForegroundReturns
  <1>7. CASE CancelLookup(c)
    BY <1>7 DEF CancelLookup
  <1>8. CASE CancelPoll(c)
    BY <1>8 DEF CancelPoll
  <1>9. CASE CancelJoins(c)
    BY <1>9 DEF CancelJoins
  <1>10. CASE CancelFinishes(c)
    BY <1>10 DEF CancelFinishes, UpdateJob, CompletedStatus, VerdictOf
  <1>11. CASE CancelPops(c)
    BY <1>11 DEF CancelPops
  <1>12. CASE CancelTerminates(c)
    BY <1>12 DEF CancelTerminates, Send
  <1>13. CASE CancelTermTimesOut(c)
    BY <1>13 DEF CancelTermTimesOut
  <1>14. CASE CancelKills(c)
    BY <1>14 DEF CancelKills, Send
  <1>15. CASE CancelReaps(c)
    BY <1>15 DEF CancelReaps
  <1>16. CASE CancelStalls(c)
    BY <1>16 DEF CancelStalls
  <1>17. CASE CancelMarks(c)
    BY <1>17 DEF CancelMarks, UpdateJob
  <1> QED
    BY <1>1, <1>2, <1>3, <1>4, <1>5, <1>6, <1>7, <1>8, <1>9, <1>10, <1>11, <1>12, <1>13, <1>14, <1>15, <1>16, <1>17 DEF RunCommand, CallerStep, CancelStep

\* Steps of the thread that waits for a process.
LEMMA WaiterStepInv ==
  ASSUME IInv, NEW j \in Jobs, WaiterStep(j)
  PROVE  IInv'
  <1> USE DEF IInv, TypeOK, RecordInv, WaiterInv, CancelInv, OwnerInv, TableInv,
          WaiterPoints, CallerPoints, CancelPoints, WaiterAt, record, world, caller,
          Verdicts, Exits, Terminal, Dead, Honest
  <1>1. CASE WaiterLookup(j)
    BY <1>1 DEF WaiterLookup
  <1>2. CASE WaiterReaps(j)
    BY <1>2 DEF WaiterReaps, VerdictOf
  <1>3. CASE WaiterTimesOut(j)
    BY <1>3 DEF WaiterTimesOut
  <1>4. CASE WaiterKills(j)
    BY <1>4 DEF WaiterKills, Send
  <1>5. CASE WaiterReapsKilled(j)
    BY <1>5 DEF WaiterReapsKilled
  <1>6. CASE WaiterStalls(j)
    BY <1>6 DEF WaiterStalls
  <1>7. CASE WaiterJoins(j)
    BY <1>7 DEF WaiterJoins
  <1>8. CASE WaiterReads(j)
    BY <1>8 DEF WaiterReads, FinalStatus
  <1>9. CASE WaiterUpdates(j)
    BY <1>9 DEF WaiterUpdates, UpdateJob
  <1>10. CASE WaiterPops(j)
    BY <1>10 DEF WaiterPops
  <1> QED
    BY <1>1, <1>2, <1>3, <1>4, <1>5, <1>6, <1>7, <1>8, <1>9, <1>10 DEF WaiterStep

\* Steps of the process and of its capture threads.
LEMMA ProcessStepInv ==
  ASSUME IInv, NEW j \in Jobs, ProcessStep(j)
  PROVE  IInv'
  <1> USE DEF IInv, TypeOK, RecordInv, WaiterInv, CancelInv, OwnerInv, TableInv,
          record, waiter, caller, Verdicts, Exits, Terminal, Dead, Honest
  <1>1. CASE ProcessExits(j)
    BY <1>1 DEF ProcessExits
  <1>2. CASE AppendOutput(j)
    BY <1>2, MaxOutputIsNat DEF AppendOutput, world
  <1>3. ASSUME NEW s \in Streams, CaptureEnds(j, s) PROVE IInv'
    BY <1>3 DEF CaptureEnds
  <1> QED
    BY <1>1, <1>2, <1>3 DEF ProcessStep

LEMMA NextInv == IInv /\ [Next]_vars => IInv'
  <1> SUFFICES ASSUME IInv, [Next]_vars PROVE IInv'
    OBVIOUS
  <1>1. CASE Next
    BY <1>1, CallerInv, WaiterStepInv, ProcessStepInv DEF Next
  <1>2. CASE UNCHANGED vars
    BY <1>2 DEF vars, record, world, waiter, caller, IInv, TypeOK, RecordInv, WaiterInv, CancelInv, OwnerInv, TableInv, Terminal, Dead
  <1> QED
    BY <1>1, <1>2

\* The inductive invariant holds throughout.
THEOREM Invariance == Spec => []IInv
  BY InitInv, NextInv, PTL DEF Spec

\* Every variable keeps its type, whatever the interleaving.
THEOREM TypeCorrect == Spec => []TypeOK
<1>1. IInv => TypeOK
  BY DEF IInv
<1> QED
  BY <1>1, Invariance, PTL

\* No handler and no waiter reports the end of a process that still lives.
THEOREM EndsAreReal == Spec => []TerminalMeansDead
<1>1. IInv => TerminalMeansDead
  BY DEF IInv, RecordInv, TerminalMeansDead
<1> QED
  BY <1>1, Invariance, PTL

\* A waiter that is through leaves a terminal record and no table entry.
THEOREM WaiterLeavesNothing == Spec => []FinishedWaiterLeavesNothing
<1>1. IInv => FinishedWaiterLeavesNothing
  BY DEF IInv, TableInv, FinishedWaiterLeavesNothing
<1> QED
  BY <1>1, Invariance, PTL

------------------------------------------------------------------------------
\* A cancellation that no thread is about to overwrite is kept by every step.
LEMMA SettledStep ==
  ASSUME IInv, [Next]_vars, NEW k \in Jobs, Settled(k)
  PROVE  Settled(k)'
  <1> USE DEF IInv, TypeOK, Settled, At, WaiterAt, record, world, waiter, caller
  <1>1. ASSUME NEW c \in Callers, RunCommand(c) PROVE Settled(k)'
    BY <1>1 DEF RunCommand, RunBackground, RunForeground, Spawn
  <1>2. ASSUME NEW c \in Callers, NEW j \in Jobs, CancelJob(c, j) PROVE Settled(k)'
    BY <1>2 DEF CancelJob
  <1>3. ASSUME NEW c \in Callers, CallerStep(c) PROVE Settled(k)'
    <2>1. CASE CancelFinishes(c)
      BY <2>1 DEF CancelFinishes, UpdateJob, CompletedStatus
    <2>2. CASE CancelMarks(c)
      BY <2>2 DEF CancelMarks, UpdateJob
    <2>3. CASE ~CancelFinishes(c) /\ ~CancelMarks(c)
      BY <1>3, <2>3
      DEF CallerStep, CancelStep, AttachProcess, LaunchWaiter, ForegroundReturns,
          CancelLookup, CancelPoll, CancelJoins, CancelPops, CancelTerminates,
          CancelTermTimesOut, CancelKills, CancelReaps, CancelStalls
    <2> QED
      BY <2>1, <2>2, <2>3
  <1>4. ASSUME NEW j \in Jobs, WaiterStep(j) PROVE Settled(k)'
    <2>1. CASE WaiterReads(j)
      BY <2>1 DEF WaiterReads, FinalStatus
    <2>2. CASE WaiterUpdates(j)
      BY <2>2 DEF WaiterUpdates, UpdateJob
    <2>3. CASE ~WaiterReads(j) /\ ~WaiterUpdates(j)
      BY <1>4, <2>3
      DEF WaiterStep, WaiterLookup, WaiterReaps, WaiterTimesOut, WaiterKills,
          WaiterReapsKilled, WaiterStalls, WaiterJoins, WaiterPops, OwnerInv
    <2> QED
      BY <2>1, <2>2, <2>3
  <1>5. ASSUME NEW j \in Jobs, ProcessStep(j) PROVE Settled(k)'
    BY <1>5 DEF ProcessStep, ProcessExits, AppendOutput, CaptureEnds
  <1>6. CASE UNCHANGED vars
    BY <1>6 DEF vars
  <1> QED
    BY <1>1, <1>2, <1>3, <1>4, <1>5, <1>6 DEF Next

\* Once settled, a cancellation is what get_job answers from then on.
THEOREM CancellationStays == Spec => SettledCancelStays
<1>1. IInv /\ [Next]_vars => [\A j \in Jobs : Settled(j) => Settled(j)']_vars
  BY SettledStep
<1> QED
  BY <1>1, Invariance, PTL DEF Spec, SettledCancelStays

------------------------------------------------------------------------------
\* Whoever is about to write a verdict that is not a cancellation, and every
\* record that has one, finds the pipes of the job drained.
DrainInv ==
  /\ \A j \in Jobs :
       status[j] \in {"succeeded", "failed", "timed_out"} \/ wpc[j] \in {"read", "update"}
         => capturing[j] = {}
  /\ \A c \in Callers : cpc[c] = "finish" => capturing[cjob[c]] = {}

\* A join that ends only with its capture threads keeps that, in every step:
\* pipes are opened only for a job that nobody waits for yet.
LEMMA DrainStep ==
  ASSUME ~JoinMayTimeOut, IInv, DrainInv, [Next]_vars
  PROVE  DrainInv'
  <1> USE DEF DrainInv, IInv, TypeOK, WaiterInv, CancelInv, OwnerInv, CancelPoints, At,
          WaiterAt, Joined, record, world, waiter, caller
  <1>1. ASSUME NEW c \in Callers, RunCommand(c) PROVE DrainInv'
    BY <1>1 DEF RunCommand, RunBackground, RunForeground, Spawn
  <1>2. ASSUME NEW c \in Callers, NEW j \in Jobs, CancelJob(c, j) PROVE DrainInv'
    BY <1>2 DEF CancelJob
  <1>3. ASSUME NEW c \in Callers, CallerStep(c) PROVE DrainInv'
    <2>1. CASE CancelFinishes(c)
      BY <2>1 DEF CancelFinishes, UpdateJob, CompletedStatus, VerdictOf
    <2>2. CASE CancelMarks(c)
      BY <2>2 DEF CancelMarks, UpdateJob
    <2>3. CASE ~CancelFinishes(c) /\ ~CancelMarks(c)
      BY <1>3, <2>3
      DEF CallerStep, CancelStep, AttachProcess, LaunchWaiter, ForegroundReturns,
          CancelLookup, CancelPoll, CancelJoins, CancelPops, CancelTerminates,
          CancelTermTimesOut, CancelKills, CancelReaps, CancelStalls
    <2> QED
      BY <2>1, <2>2, <2>3
  <1>4. ASSUME NEW j \in Jobs, WaiterStep(j) PROVE DrainInv'
    <2>1. CASE WaiterUpdates(j)
      BY <2>1 DEF WaiterUpdates, UpdateJob
    <2>2. CASE ~WaiterUpdates(j)
      BY <1>4, <2>2
      DEF WaiterStep, WaiterLookup, WaiterReaps, WaiterTimesOut, WaiterKills,
          WaiterReapsKilled, WaiterStalls, WaiterJoins, WaiterReads, WaiterPops
    <2> QED
      BY <2>1, <2>2
  <1>5. ASSUME NEW j \in Jobs, ProcessStep(j) PROVE DrainInv'
    BY <1>5 DEF ProcessStep, ProcessExits, AppendOutput, CaptureEnds
  <1>6. CASE UNCHANGED vars
    BY <1>6 DEF vars
  <1> QED
    BY <1>1, <1>2, <1>3, <1>4, <1>5, <1>6 DEF Next

\* Nothing is appended to the output of a record that has a verdict, as long as
\* the capture threads drain within their join.
THEOREM VerdictsComeWithOutput ==
  ASSUME ~JoinMayTimeOut
  PROVE  Spec => VerdictFreezesOutput
<1>1. Init => DrainInv
  BY DEF Init, DrainInv
<1>2. IInv /\ DrainInv /\ [Next]_vars => DrainInv'
  BY DrainStep
<1>3. IInv /\ DrainInv /\ [Next]_vars
        => [\A j \in Jobs :
              status[j] \in {"succeeded", "failed", "timed_out"}
                => output'[j] = output[j]]_vars
  <2> SUFFICES ASSUME IInv, DrainInv, Next, NEW j \in Jobs,
                      status[j] \in {"succeeded", "failed", "timed_out"}
               PROVE  output'[j] = output[j]
    BY DEF vars
  <2>1. ASSUME NEW k \in Jobs, AppendOutput(k) PROVE output'[j] = output[j]
    BY <2>1 DEF AppendOutput, DrainInv, IInv, TypeOK
  <2>2. CASE ~\E k \in Jobs : AppendOutput(k)
    BY <2>2
    DEF Next, record, RunCommand, RunBackground, RunForeground, Spawn, CancelJob,
        CallerStep, CancelStep, AttachProcess, LaunchWaiter, ForegroundReturns,
        CancelLookup, CancelPoll, CancelJoins, CancelFinishes, CancelPops,
        CancelTerminates, CancelTermTimesOut, CancelKills, CancelReaps,
        CancelStalls, CancelMarks, WaiterStep, WaiterLookup, WaiterReaps,
        WaiterTimesOut, WaiterKills, WaiterReapsKilled, WaiterStalls, WaiterJoins,
        WaiterReads, WaiterUpdates, WaiterPops, UpdateJob, ProcessStep,
        ProcessExits, CaptureEnds
  <2> QED
    BY <2>1, <2>2
<1> QED
  BY <1>1, <1>2, <1>3, Invariance, PTL DEF Spec, VerdictFreezesOutput

------------------------------------------------------------------------------
\* Every step of the service is a step of the contract or leaves it unchanged.
LEMMA ContractStep == IInv /\ [Next]_vars => [Contract!Next]_(Contract!vars)
  <1> SUFFICES ASSUME IInv, [Next]_vars
               PROVE  Contract!Next \/ UNCHANGED <<status, exitCode, proc>>
    BY DEF Contract!vars
  <1> USE DEF Contract!Next, record, world, waiter, caller
  <1>1. ASSUME NEW j \in Jobs, NEW label \in Verdicts, Dead(j), status[j] # "none",
               Honest(label, proc[j]), UpdateJob(j, label), UNCHANGED proc
        PROVE  Contract!Next
    BY <1>1 DEF UpdateJob, Contract!Report, Contract!Verdicts, Contract!Exits,
                Contract!Honest, Dead, Honest, Verdicts, Exits
  <1>2. ASSUME NEW c \in Callers, RunCommand(c) PROVE Contract!Next
    BY <1>2 DEF RunCommand, RunBackground, RunForeground, Spawn, Contract!Start
  <1>3. ASSUME NEW c \in Callers, CallerStep(c) \/ \E j \in Jobs : CancelJob(c, j)
        PROVE  Contract!Next \/ UNCHANGED <<status, exitCode, proc>>
    <2> USE DEF IInv, TypeOK, RecordInv, CancelInv, CancelPoints, Verdicts, Exits
    <2>1. CASE CancelFinishes(c)
      BY <1>1, <2>1 DEF CancelFinishes, CompletedStatus, VerdictOf, Honest, Dead, At
    <2>2. CASE CancelMarks(c)
      BY <1>1, <2>2 DEF CancelMarks, Honest, Dead, At
    <2>3. CASE ~CancelFinishes(c) /\ ~CancelMarks(c)
      BY <1>3, <2>3
      DEF CallerStep, CancelStep, AttachProcess, LaunchWaiter, ForegroundReturns,
          CancelLookup, CancelPoll, CancelJoins, CancelPops, CancelTerminates,
          CancelTermTimesOut, CancelKills, CancelReaps, CancelStalls, CancelJob
    <2> QED
      BY <2>1, <2>2, <2>3
  <1>4. ASSUME NEW j \in Jobs, WaiterStep(j)
        PROVE  Contract!Next \/ UNCHANGED <<status, exitCode, proc>>
    <2>1. CASE WaiterUpdates(j)
      BY <1>1, <2>1 DEF WaiterUpdates, WaiterAt, IInv, WaiterInv
    <2>2. CASE ~WaiterUpdates(j)
      BY <1>4, <2>2
      DEF WaiterStep, WaiterLookup, WaiterReaps, WaiterTimesOut, WaiterKills,
          WaiterReapsKilled, WaiterStalls, WaiterJoins, WaiterReads, WaiterPops
    <2> QED
      BY <2>1, <2>2
  <1>5. ASSUME NEW j \in Jobs, ProcessStep(j)
        PROVE  Contract!Next \/ UNCHANGED <<status, exitCode, proc>>
    BY <1>5 DEF ProcessStep, ProcessExits, AppendOutput, CaptureEnds,
                Contract!Exit, Contract!Exits, Exits
  <1>6. CASE UNCHANGED vars
    BY <1>6 DEF vars
  <1> QED
    BY <1>2, <1>3, <1>4, <1>5, <1>6 DEF Next

\* The service implements the contract: one start, one end of the process, and
\* only honest reports, all of them after that end.
THEOREM ImplementsContract == Spec => ContractSafe
<1>1. Init => Contract!Init
  BY DEF Init, Contract!Init
<1> QED
  BY <1>1, ContractStep, Invariance, PTL DEF Spec, ContractSafe, Contract!Safe
==============================================================================

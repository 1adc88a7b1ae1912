---------------------------- MODULE ServiceManager ----------------------------
(***************************************************************************)
(* One declared service of a project (services/manager.py) over the        *)
(* in-memory record and process tables (services/process_store.py):        *)
(* list_services, service_status, start_service, stop_service,             *)
(* restart_service and the exit watcher of every started process.  Keys of *)
(* the tables do not interact, so one key is modelled.  A store call holds *)
(* its lock and is one step; a record is read, worked on as a copy and     *)
(* saved in another step, and health checks and waits happen in between.   *)
(*                                                                         *)
(* `fresh` and `clobbered` are history: a thread is fresh while nobody     *)
(* saved a record after it read its copy; clobbered is set by the first    *)
(* save of a copy that is not fresh, and by the first attach or pop that   *)
(* takes a process out of the table which the thread was not dealing with. *)
(***************************************************************************)
EXTENDS Naturals, FiniteSets

CONSTANTS
  Callers,        \* threads that run tool handlers
  Instances,      \* service_instance_ids (uuid4), one per started process
  None,
  Calls,          \* the tools clients call, of those in Tools
  Exits,          \* how its processes may end, of those in ExitCodes
  MaxRestarts,    \* bound on restart_count
  KillMayStall    \* wait(timeout=2) after kill() may raise TimeoutExpired

Tools == {"list", "status", "start", "stop", "restart"}

ASSUME CallsAreTools == Calls \subseteq Tools
ExitCodes == {"exit0", "exitN"}

ASSUME ExitsAreCodes == Exits \subseteq ExitCodes
ASSUME ThreadsDiffer == Callers \cap Instances = {}
ASSUME NoneIsNoInstance == None \notin Instances
ASSUME BoundIsNat == MaxRestarts \in Nat
ASSUME StallIsBoolean == KillMayStall \in BOOLEAN

VARIABLES
  rec,        \* _services[key]; the default record until the first save
  table,      \* _processes[key]: the instance whose process is attached
  proc,       \* the operating system process of each instance
  wpc,        \* where the watcher of an instance stands
  wloc,       \* its local variables: act (active) and rec (record)
  cpc,        \* where a handler stands
  loc,        \* its local variables, gone when it returns:
              \*   op     the call it serves (restart_service calls stop and start)
              \*   cur    its copy of the record
              \*   act    active, or the process it spawned
              \*   count  restart_service: restart_count to be written at the end
  fresh, clobbered

watch   == <<wpc, wloc>>
history == <<fresh, clobbered>>
vars == <<rec, table, proc, watch, cpc, loc, history>>

Statuses == {"stopped", "running", "failed"}
Records == [status : Statuses, inst : Instances \cup {None}, count : 0..MaxRestarts]
Ops == Tools \cup {"restart_stop", "restart_start"}
Locals == [op : Ops, cur : Records, act : Instances \cup {None}, count : 0..MaxRestarts]
StopPoints == {"stop", "stop_poll", "stop_wait", "stop_kill", "stop_save", "stop_pop"}
StartPoints == {"start", "start_poll", "spawn", "fail_save", "attach", "save", "health",
                "save_again", "watch", "abort", "abort_wait", "abort_kill",
                "abort_save", "abort_pop"}
Points == {"idle", "get", "peek", "poll", "fin_save", "fin_pop", "status_save", "bump"}
            \cup StopPoints \cup StartPoints
WatcherPoints == {"none", "start", "wait", "check", "save", "pop", "done"}

Dead(i) == i \in Instances /\ proc[i] \in ExitCodes
Live(i) == i \in Instances /\ proc[i] = "live"

\* The watcher blocks in wait() and holds the lock poll() needs, so poll() may
\* answer None although the process is gone.
PollsNone(i) == Live(i) \/ (Dead(i) /\ \E w \in Instances : wpc[w] = "wait" /\ wloc[w].act = i)
PollsExit(i) == Dead(i)

DefaultRecord == [status |-> "stopped", inst |-> None, count |-> 0]

Ended(r, s) == [r EXCEPT !.status = s, !.inst = None]
\* Mutant: the record takes the return code for its status.
ExitStatusIsCode(i) == proc[i]

ExitStatus(i) == IF proc[i] = "exit0" THEN "stopped" ELSE "failed"

\* InMemoryProcessStore.save and pop_process, with their history.
Save(t, r) ==
  /\ rec' = r
  /\ fresh' = {t}
  /\ clobbered' = (clobbered \/ t \notin fresh)

Pop(own) ==
  /\ table' = None
  /\ clobbered' = (clobbered \/ table \notin {None, own})
  /\ UNCHANGED fresh

NoWatch == [act |-> None, rec |-> DefaultRecord]
NoLocals == [op |-> "list", cur |-> DefaultRecord, act |-> None, count |-> 0]

\* A handler moves on, with new local variables or with those it has.
Move(c, here, next, locals) ==
  /\ cpc[c] = here
  /\ cpc' = [cpc EXCEPT ![c] = next]
  /\ loc' = [loc EXCEPT ![c] = IF next = "idle" THEN NoLocals ELSE locals]

At(c, here, next) == Move(c, here, next, loc[c])

Op(c) == loc[c].op
Cur(c) == loc[c].cur
Act(c) == loc[c].act

Init ==
  /\ rec    = DefaultRecord
  /\ table  = None
  /\ proc   = [i \in Instances |-> "absent"]
  /\ wpc    = [i \in Instances |-> "none"]
  /\ wloc   = [i \in Instances |-> NoWatch]
  /\ cpc    = [c \in Callers |-> "idle"]
  /\ loc    = [c \in Callers |-> NoLocals]
  /\ fresh  = {}
  /\ clobbered = FALSE

------------------------------------------------------------------------------
\* Every tool starts with _current_record.

Call(c) ==
  /\ \E o \in Calls :
       Move(c, "idle", "get", [NoLocals EXCEPT !.op = o])
  /\ UNCHANGED <<rec, table, proc, watch, history>>

GetRecord(c) ==
  /\ Move(c, "get", "peek", [loc[c] EXCEPT !.cur = rec])
  /\ fresh' = fresh \cup {c}
  /\ UNCHANGED <<rec, table, proc, watch, clobbered>>

\* A service without a record has its cwd resolved, which raises if it is missing.
CurrentRaises(c) ==
  /\ rec = DefaultRecord
  /\ At(c, "get", "idle")
  /\ UNCHANGED <<rec, table, proc, watch, history>>

GetProcess(c) ==
  /\ LET found == [loc[c] EXCEPT !.act = table]
     IN  \/ Move(c, "peek", "poll", found)
         \/ Move(c, "start", "start_poll", found)
         \/ Move(c, "stop", "stop_poll", found)
  /\ UNCHANGED <<rec, table, proc, watch, history>>

\* Where the call goes on once _current_record has returned.
AfterCurrent == [list |-> "idle", status |-> "status_save",
                 start |-> "start", restart_start |-> "start",
                 stop |-> "stop", restart_stop |-> "stop", restart |-> "get"]

\* restart_count + 1, held at the bound.
Succ(n) == IF n < MaxRestarts THEN n + 1 ELSE MaxRestarts

Resume(c, here) ==
  Move(c, here, AfterCurrent[Op(c)],
       IF Op(c) = "restart"
       THEN [loc[c] EXCEPT !.op = "restart_stop", !.count = Succ(Cur(c).count)]
       ELSE loc[c])

CurrentIsReturned(c) ==
  /\ ~(PollsExit(Act(c)) /\ Cur(c).status = "running") \/ PollsNone(Act(c))
  /\ Resume(c, "poll")
  /\ UNCHANGED <<rec, table, proc, watch, history>>

CurrentHasEnded(c) ==
  /\ PollsExit(Act(c))
  /\ Cur(c).status = "running"
  /\ Move(c, "poll", "fin_save", [loc[c] EXCEPT !.cur = Ended(@, ExitStatus(Act(c)))])
  /\ UNCHANGED <<rec, table, proc, watch, history>>

SaveEnded(c) ==
  /\ At(c, "fin_save", "fin_pop")
  /\ Save(c, Cur(c))
  /\ UNCHANGED <<table, proc, watch>>

PopEnded(c) ==
  /\ Resume(c, "fin_pop")
  /\ Pop(Act(c))
  /\ UNCHANGED <<rec, proc, watch>>

------------------------------------------------------------------------------
\* service_status: the health check (which raises only for a running service
\* with a denied command, URL or cwd), then a save of the copy.

StatusSaves(c) ==
  /\ At(c, "status_save", "idle")
  /\ Save(c, Cur(c))
  /\ UNCHANGED <<table, proc, watch>>

StatusHealthRaises(c) ==
  /\ At(c, "status_save", "idle")
  /\ Cur(c).status = "running"
  /\ UNCHANGED <<rec, table, proc, watch, history>>

------------------------------------------------------------------------------
\* start_service

\* A start inside restart_service goes on to write restart_count.
AfterStart(c) == IF Op(c) = "restart_start" THEN "bump" ELSE "idle"

AlreadyRunning(c) ==
  /\ PollsNone(Act(c))
  /\ At(c, "start_poll", AfterStart(c)) \/ At(c, "start_poll", "idle") \* health raises
  /\ UNCHANGED <<rec, table, proc, watch, history>>

NotRunning(c) ==
  /\ Act(c) = None \/ PollsExit(Act(c))
  /\ At(c, "start_poll", "spawn")
  /\ UNCHANGED <<rec, table, proc, watch, history>>

\* No start command, policy denies it, or its cwd is missing.
StartRefused(c) ==
  /\ At(c, "spawn", "idle")
  /\ UNCHANGED <<rec, table, proc, watch, history>>

\* Popen raises OSError; the instance id in the copy stays what it was.
SpawnFails(c) ==
  /\ Move(c, "spawn", "fail_save", [loc[c] EXCEPT !.cur.status = "failed"])
  /\ UNCHANGED <<rec, table, proc, watch, history>>

SaveFailed(c) ==
  /\ At(c, "fail_save", "idle")
  /\ Save(c, Cur(c))
  /\ UNCHANGED <<table, proc, watch>>

\* Mutant: the record of the new process is not made from the current one.
SpawnWithNewRecord(c) ==
  /\ \E i \in Instances :
       /\ proc[i] = "absent"
       /\ proc' = [proc EXCEPT ![i] = "live"]
       /\ Move(c, "spawn", "attach",
               [loc[c] EXCEPT !.act = i,
                              !.cur = [DefaultRecord EXCEPT !.status = "running", !.inst = i]])
  /\ UNCHANGED <<rec, table, watch, history>>

Spawn(c) ==
  /\ \E i \in Instances :
       /\ proc[i] = "absent"
       /\ proc' = [proc EXCEPT ![i] = "live"]
       /\ Move(c, "spawn", "attach",
               [loc[c] EXCEPT !.act = i, !.cur.status = "running", !.cur.inst = i])
  /\ UNCHANGED <<rec, table, watch, history>>

Attach(c) ==
  /\ At(c, "attach", "save")
  /\ table' = Act(c)
  /\ clobbered' = (clobbered \/ Live(table))
  /\ UNCHANGED <<rec, proc, watch, fresh>>

SaveStarted(c) ==
  /\ At(c, "save", "health") \/ At(c, "save_again", "watch")
  /\ Save(c, Cur(c))
  /\ UNCHANGED <<table, proc, watch>>

\* Mutant: a start whose health check raises leaves its process alone.
StartHealthGivesUp(c) ==
  /\ At(c, "health", "save_again") \/ At(c, "health", "abort_save")
  /\ UNCHANGED <<rec, table, proc, watch, history>>

StartHealth(c) ==
  /\ At(c, "health", "save_again") \/ At(c, "health", "abort")
  /\ UNCHANGED <<rec, table, proc, watch, history>>

LaunchWatcher(c) ==
  /\ At(c, "watch", AfterStart(c))
  /\ wpc' = [wpc EXCEPT ![Act(c)] = "start"]
  /\ UNCHANGED <<rec, table, proc, wloc, history>>

\* The health check raised a DomainError and the process has been terminated.
SaveAborted(c) ==
  /\ At(c, "abort_save", "abort_pop")
  /\ Save(c, Ended(Cur(c), "failed"))
  /\ UNCHANGED <<table, proc, watch>>

PopAborted(c) ==
  /\ At(c, "abort_pop", "idle")
  /\ Pop(Act(c))
  /\ UNCHANGED <<rec, proc, watch>>

------------------------------------------------------------------------------
\* terminate(), wait(2), kill(), wait(2): stop_service and _terminate_process

Terminate(c) ==
  /\ PollsNone(Act(c))
  /\ At(c, "stop_poll", "stop_wait") \/ At(c, "abort", "abort_wait")
  /\ UNCHANGED <<rec, table, proc, watch, history>>

NothingToTerminate(c) ==
  /\ Act(c) = None \/ PollsExit(Act(c))
  /\ At(c, "stop_poll", "stop_save") \/ At(c, "abort", "abort_save")
  /\ UNCHANGED <<rec, table, proc, watch, history>>

\* Mutant: TimeoutExpired is swallowed and the process never killed.
KillNobody(c) ==
  /\ Live(Act(c))
  /\ At(c, "stop_wait", "stop_save") \/ At(c, "abort_wait", "abort_save")
  /\ UNCHANGED <<rec, table, proc, watch, history>>

Kill(c) ==
  /\ Live(Act(c))
  /\ At(c, "stop_wait", "stop_kill") \/ At(c, "abort_wait", "abort_kill")
  /\ UNCHANGED <<rec, table, proc, watch, history>>

\* Mutant: a process that outlives its wait counts as reaped.
ReapAnyway(c) ==
  /\ \/ At(c, "stop_wait", "stop_save") \/ At(c, "stop_kill", "stop_save")
     \/ At(c, "abort_wait", "abort_save") \/ At(c, "abort_kill", "abort_save")
  /\ UNCHANGED <<rec, table, proc, watch, history>>

Reap(c) ==
  /\ Dead(Act(c))
  /\ \/ At(c, "stop_wait", "stop_save") \/ At(c, "stop_kill", "stop_save")
     \/ At(c, "abort_wait", "abort_save") \/ At(c, "abort_kill", "abort_save")
  /\ UNCHANGED <<rec, table, proc, watch, history>>

KillStalls(c) ==
  /\ KillMayStall
  /\ Live(Act(c))
  /\ At(c, "stop_kill", "idle") \/ At(c, "abort_kill", "idle")
  /\ UNCHANGED <<rec, table, proc, watch, history>>

SaveStopped(c) ==
  /\ At(c, "stop_save", "stop_pop")
  /\ Save(c, Ended(Cur(c), "stopped"))
  /\ UNCHANGED <<table, proc, watch>>

\* restart_service goes on with start_service.
PopStopped(c) ==
  /\ IF Op(c) = "restart_stop"
     THEN Move(c, "stop_pop", "get", [loc[c] EXCEPT !.op = "restart_start"])
     ELSE At(c, "stop_pop", "idle")
  /\ Pop(Act(c))
  /\ UNCHANGED <<rec, proc, watch>>

SaveRestartCount(c) ==
  /\ At(c, "bump", "idle")
  /\ Save(c, [Cur(c) EXCEPT !.count = loc[c].count])
  /\ UNCHANGED <<table, proc, watch>>

------------------------------------------------------------------------------
\* _watch_service_exit

WatcherMove(i, here, next, locals) ==
  /\ wpc[i] = here
  /\ wpc' = [wpc EXCEPT ![i] = next]
  /\ wloc' = [wloc EXCEPT ![i] = IF next = "done" THEN NoWatch ELSE locals]
  /\ UNCHANGED <<proc, cpc, loc>>

WatcherLookup(i) ==
  /\ WatcherMove(i, "start", IF table = None THEN "done" ELSE "wait",
                 [wloc[i] EXCEPT !.act = table])
  /\ UNCHANGED <<rec, table, history>>

\* wait() and the joins of the capture threads.
WatcherReaps(i) ==
  /\ WatcherMove(i, "wait", "check", wloc[i])
  /\ Dead(wloc[i].act)
  /\ UNCHANGED <<rec, table, history>>

\* Mutant: the instance check is the wrong way round.
WatcherChecksOthers(i) ==
  /\ WatcherMove(i, "check", IF rec.inst # i THEN "save" ELSE "done",
                 [wloc[i] EXCEPT !.rec = Ended(rec, ExitStatus(wloc[i].act))])
  /\ fresh' = fresh \cup {i}
  /\ UNCHANGED <<rec, table, clobbered>>

WatcherChecks(i) ==
  /\ WatcherMove(i, "check", IF rec.inst = i THEN "save" ELSE "done",
                 [wloc[i] EXCEPT !.rec = Ended(rec, ExitStatus(wloc[i].act))])
  /\ fresh' = fresh \cup {i}
  /\ UNCHANGED <<rec, table, clobbered>>

WatcherSaves(i) ==
  /\ WatcherMove(i, "save", "pop", wloc[i])
  /\ Save(i, wloc[i].rec)
  /\ UNCHANGED table

WatcherPops(i) ==
  /\ WatcherMove(i, "pop", "done", wloc[i])
  /\ Pop(wloc[i].act)
  /\ UNCHANGED rec

ProcessExits(i) ==
  /\ proc[i] = "live"
  /\ \E x \in Exits : proc' = [proc EXCEPT ![i] = x]
  /\ UNCHANGED <<rec, table, watch, cpc, loc, history>>

------------------------------------------------------------------------------
CurrentStep(c) ==
  \/ GetRecord(c) \/ CurrentRaises(c) \/ GetProcess(c) \/ CurrentIsReturned(c) \/ CurrentHasEnded(c)
  \/ SaveEnded(c) \/ PopEnded(c)
  \/ StatusSaves(c) \/ StatusHealthRaises(c)

StartStep(c) ==
  \/ AlreadyRunning(c) \/ NotRunning(c) \/ StartRefused(c) \/ SpawnFails(c)
  \/ SaveFailed(c) \/ Spawn(c) \/ Attach(c) \/ SaveStarted(c) \/ StartHealth(c)
  \/ LaunchWatcher(c) \/ SaveAborted(c) \/ PopAborted(c) \/ SaveRestartCount(c)

StopStep(c) ==
  \/ Terminate(c) \/ NothingToTerminate(c) \/ Kill(c) \/ Reap(c) \/ KillStalls(c)
  \/ SaveStopped(c) \/ PopStopped(c)

CallerStep(c) == CurrentStep(c) \/ StartStep(c) \/ StopStep(c)

WatcherStep(i) ==
  \/ WatcherLookup(i) \/ WatcherReaps(i) \/ WatcherChecks(i)
  \/ WatcherSaves(i) \/ WatcherPops(i)

Next ==
  \/ \E c \in Callers : Call(c) \/ CallerStep(c)
  \/ \E i \in Instances : WatcherStep(i) \/ ProcessExits(i)

Spec == Init /\ [][Next]_vars

\* A handler waits for the end of a process it has sent SIGKILL.
Killed(i) == \E c \in Callers : Act(c) = i /\ cpc[c] \in {"stop_kill", "abort_kill"}

\* Threads are scheduled and a killed process dies; nobody owes a call and no
\* process owes an exit.
Fairness ==
  /\ \A c \in Callers : WF_vars(CallerStep(c))
  /\ \A i \in Instances :
       WF_vars(WatcherStep(i)) /\ WF_vars(Killed(i) /\ ProcessExits(i))

FairSpec == Spec /\ Fairness

------------------------------------------------------------------------------
\* Properties

\* Every variable keeps its type (services/process_store.py: the two tables).
TypeOK ==
  /\ rec \in Records
  /\ table \in Instances \cup {None}
  /\ proc \in [Instances -> {"absent", "live"} \cup ExitCodes]
  /\ wpc \in [Instances -> WatcherPoints]
  /\ wloc \in [Instances -> [act : Instances \cup {None}, rec : Records]]
  /\ cpc \in [Callers -> Points]
  /\ loc \in [Callers -> Locals]
  /\ fresh \in SUBSET (Callers \cup Instances)
  /\ clobbered \in BOOLEAN

\* A process lives unknown to the process table only while the handler that
\* spawned it has not attached it, or after a lost update: no sequence of
\* starts, stops and exits orphans a process by itself.
NoSilentOrphan ==
  \A i \in Instances :
    Live(i) => \/ table = i
               \/ \E c \in Callers : cpc[c] = "attach" /\ Act(c) = i
               \/ clobbered

Quiet == \A c \in Callers : cpc[c] = "idle"

\* When no handler is under way and no update was lost, a record that does not
\* say running means that no process of the service lives, ...
NotRunningMeansGone ==
  Quiet /\ ~clobbered /\ rec.status # "running" => \A i \in Instances : ~Live(i)

\* ... and a record that says running names the attached process, so that the
\* next _current_record can notice its end.
RunningMeansAttached ==
  Quiet /\ ~clobbered /\ rec.status = "running" => rec.inst # None /\ table = rec.inst

\* The record is what the processes are (manager.py:200-277), when nobody is at
\* work and no update was lost.
RecordsAreTrue == NotRunningMeansGone /\ RunningMeansAttached

\* restart_count never drops unless an update was lost (one client at a time).
RestartCountIsKept == [][clobbered' \/ rec'.count >= rec.count]_vars

\* The watcher notices every exit: a record that says running for a process
\* that is gone is corrected, unless an update was lost.
ExitIsNoticed ==
  \A i \in Instances :
    (rec.status = "running" /\ rec.inst = i /\ Dead(i))
      ~> (rec.inst # i \/ clobbered)

\* tests/test_services.py:464 and 494-505: after a natural exit service_status
\* stops saying running.  A record that says running when no process is
\* attached and every watcher is through will say so for ever.
NaturalExitIsReported ==
  ~(/\ Quiet
    /\ rec.status = "running"
    /\ table = None
    /\ \A i \in Instances : wpc[i] \in {"none", "done"})
==============================================================================

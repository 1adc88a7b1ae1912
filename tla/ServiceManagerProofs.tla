------------------------- MODULE ServiceManagerProofs -------------------------
(***************************************************************************)
(* What ServiceManager guarantees for every number of clients and of       *)
(* processes.  The argument: whoever is about to save the end of a process *)
(* and to pop it has seen it dead (HandlerInv, WatcherInv), so a pop takes *)
(* a live process out of the table only if that is somebody else's, which  *)
(* is what clobbered records.                                              *)
(***************************************************************************)
EXTENDS ServiceManager, TLAPS

\* Where a handler says what it knows of the end of its process, and where it
\* holds the process it has spawned.
Ending == {"fin_save", "fin_pop", "stop_save", "stop_pop", "abort_save", "abort_pop"}
Holding == {"attach", "save", "health", "save_again", "watch", "abort"}

\* A handler that is about to write the end of a process has none, or a dead
\* one; a handler that is about to attach a process has spawned it.
HandlerInv ==
  \A c \in Callers :
    /\ cpc[c] \in Ending => Act(c) = None \/ Dead(Act(c))
    /\ cpc[c] \in Holding => Act(c) \in Instances

\* From "check" on the watcher has reaped the process it found in the table.
WatcherInv ==
  \A i \in Instances :
    /\ wpc[i] \in {"wait", "check", "save", "pop"} => wloc[i].act \in Instances
    /\ wpc[i] \in {"check", "save", "pop"} => Dead(wloc[i].act)

IInv == TypeOK /\ HandlerInv /\ WatcherInv /\ NoSilentOrphan

------------------------------------------------------------------------------
\* Where a handler goes on after _current_record it holds no process of its own.
LEMMA AfterCurrentType ==
  \A o \in Ops : AfterCurrent[o] \in {"idle", "status_save", "start", "stop", "get"}
  BY DEF AfterCurrent, Ops, Tools

\* What the helpers on records return is a record.
LEMMA RecordTypes ==
  /\ DefaultRecord \in Records
  /\ NoLocals \in Locals
  /\ NoWatch \in [act : Instances \cup {None}, rec : Records]
  /\ \A r \in Records, s \in Statuses : Ended(r, s) \in Records
  /\ \A i \in Instances : ExitStatus(i) \in Statuses
  /\ \A n \in 0..MaxRestarts : Succ(n) \in 0..MaxRestarts
<1>1. DefaultRecord \in Records
  BY BoundIsNat DEF DefaultRecord, Records, Statuses
<1>2. NoLocals \in Locals
  BY <1>1, BoundIsNat DEF NoLocals, Locals, Ops, Tools
<1>3. NoWatch \in [act : Instances \cup {None}, rec : Records]
  BY <1>1 DEF NoWatch
<1>4. \A r \in Records, s \in Statuses : Ended(r, s) \in Records
  BY DEF Records, Ended
<1>5. \A i \in Instances : ExitStatus(i) \in Statuses
  BY DEF ExitStatus, Statuses
<1>6. \A n \in 0..MaxRestarts : Succ(n) \in 0..MaxRestarts
  BY BoundIsNat DEF Succ
<1> QED
  BY <1>1, <1>2, <1>3, <1>4, <1>5, <1>6

\* Every service starts stopped, with no process and no thread.
LEMMA InitInv == Init => IInv
<1> SUFFICES ASSUME Init PROVE IInv
  OBVIOUS
<1>1. TypeOK
  BY RecordTypes DEF Init, TypeOK, Points, WatcherPoints
<1>2. HandlerInv /\ WatcherInv /\ NoSilentOrphan
  BY DEF Init, Ending, Holding, HandlerInv, WatcherInv, NoSilentOrphan, Live
<1> QED
  BY <1>1, <1>2 DEF IInv

\* A handler that holds no unattached process moves, with local variables of the
\* right types that say what the point it moves to asks for.
Moves(c) ==
  /\ cpc[c] # "attach"
  /\ cpc' \in [Callers -> Points] /\ loc' \in [Callers -> Locals]
  /\ \A d \in Callers \ {c} : cpc'[d] = cpc[d] /\ loc'[d] = loc[d]
  /\ cpc'[c] \in Ending => loc'[c].act = None \/ Dead(loc'[c].act)
  /\ cpc'[c] \in Holding => loc'[c].act \in Instances

\* It keeps the invariant when it touches neither the process table nor a
\* process, whatever record it saves.
LEMMA MoveInv ==
  ASSUME IInv, NEW c \in Callers, Moves(c), UNCHANGED <<table, proc, watch>>,
         \/ UNCHANGED <<rec, history>> \/ \E r \in Records : Save(c, r)
         \/ UNCHANGED <<rec, clobbered>> /\ fresh' = fresh \cup {c}
  PROVE  IInv'
<1> USE DEF IInv, watch, history, Moves
<1>1. TypeOK'
  BY DEF TypeOK, Save
<1>2. HandlerInv'
  <2> SUFFICES ASSUME NEW d \in Callers
               PROVE  /\ cpc'[d] \in Ending => Act(d)' = None \/ Dead(Act(d))'
                      /\ cpc'[d] \in Holding => Act(d)' \in Instances
    BY DEF HandlerInv
  <2>1. CASE d = c
    BY <2>1 DEF Act, Dead
  <2>2. CASE d # c
    BY <2>2 DEF HandlerInv, Act, Dead
  <2> QED
    BY <2>1, <2>2
<1>3. WatcherInv'
  BY DEF WatcherInv, Dead
<1>4. NoSilentOrphan'
  BY DEF TypeOK, NoSilentOrphan, Live, Act, Save
<1> QED
  BY <1>1, <1>2, <1>3, <1>4

\* The updates of records and of local variables keep their types.
LEMMA LocalTypes ==
  /\ \A l \in Locals :
       /\ l.op \in Ops /\ l.cur \in Records
       /\ l.act \in Instances \cup {None} /\ l.count \in 0..MaxRestarts
       /\ \A r \in Records : [l EXCEPT !.cur = r] \in Locals
       /\ \A a \in Instances \cup {None} : [l EXCEPT !.act = a] \in Locals
       /\ \A o \in Ops : [l EXCEPT !.op = o] \in Locals
       /\ \A o \in Ops, n \in 0..MaxRestarts : [l EXCEPT !.op = o, !.count = n] \in Locals
  /\ \A r \in Records, n \in 0..MaxRestarts : r.count \in 0..MaxRestarts /\ [r EXCEPT !.count = n] \in Records
  /\ \A r \in Records : [r EXCEPT !.status = "failed"] \in Records
<1>1. \A r \in Records, n \in 0..MaxRestarts : r.count \in 0..MaxRestarts /\ [r EXCEPT !.count = n] \in Records
  BY DEF Records
<1>2. \A r \in Records : [r EXCEPT !.status = "failed"] \in Records
  BY DEF Records, Statuses
<1> QED
  BY <1>1, <1>2 DEF Locals

\* _current_record returns into one of five points, with the locals it needs there.
LEMMA ResumeTypes ==
  ASSUME TypeOK, NEW c \in Callers, NEW here, Resume(c, here)
  PROVE  /\ cpc[c] = here
         /\ cpc' \in [Callers -> Points] /\ loc' \in [Callers -> Locals]
         /\ cpc'[c] \in {"idle", "status_save", "start", "stop", "get"}
         /\ \A d \in Callers \ {c} : cpc'[d] = cpc[d] /\ loc'[d] = loc[d]
<1>1. PICK next \in {"idle", "status_save", "start", "stop", "get"}, l \in Locals :
         Move(c, here, next, l)
  <2>1. loc[c] \in Locals /\ AfterCurrent[Op(c)] \in {"idle", "status_save", "start", "stop", "get"}
    BY AfterCurrentType, LocalTypes DEF TypeOK, Op
  <2>2. [loc[c] EXCEPT !.op = "restart_stop", !.count = Succ(Cur(c).count)] \in Locals
    BY <2>1, LocalTypes, RecordTypes DEF Cur, Ops
  <2> QED
    BY <2>1, <2>2 DEF Resume
<1> QED
  BY <1>1, RecordTypes DEF Move, TypeOK, Points, StopPoints, StartPoints

\* Most steps of the tool handlers are such moves.
LEMMA HandlerMoves ==
  ASSUME IInv, NEW c \in Callers, Call(c) \/ CallerStep(c),
         ~ (PopEnded(c) \/ Spawn(c) \/ Attach(c) \/ LaunchWatcher(c) \/ PopAborted(c) \/ PopStopped(c))
  PROVE  Moves(c)
<1> USE DEF At, Move, Moves, Points, StopPoints, StartPoints, Ending, Holding, Op, Cur, Act
<1>0. /\ cpc \in [Callers -> Points] /\ loc \in [Callers -> Locals]
      /\ NoLocals \in Locals
      /\ cpc[c] \in Ending => loc[c].act = None \/ Dead(loc[c].act)
      /\ cpc[c] \in Holding => loc[c].act \in Instances
      /\ rec \in Records /\ table \in Instances \cup {None}
  BY RecordTypes DEF IInv, TypeOK, HandlerInv
<1>1. CASE Call(c)
  <2>1. \A o \in Calls : [NoLocals EXCEPT !.op = o] \in Locals
    BY <1>0, LocalTypes, CallsAreTools DEF Ops
  <2> QED
    BY <1>0, <1>1, <2>1 DEF Call
<1>2. CASE GetRecord(c)
  BY <1>0, <1>2, LocalTypes DEF GetRecord
<1>3. CASE CurrentRaises(c)
  BY <1>0, <1>3, LocalTypes DEF CurrentRaises
<1>4. CASE GetProcess(c)
  <2>1. [loc[c] EXCEPT !.act = table] \in Locals
    BY <1>0, LocalTypes
  <2> QED
    BY <1>0, <1>4, <2>1 DEF GetProcess
<1>5. CASE CurrentIsReturned(c)
  BY <1>0, <1>5, ResumeTypes DEF CurrentIsReturned, IInv
<1>6. CASE CurrentHasEnded(c)
  <2>1. /\ Act(c) \in Instances
        /\ Ended(loc[c].cur, ExitStatus(Act(c))) \in Records
    BY <1>0, <1>6, LocalTypes, RecordTypes DEF CurrentHasEnded, PollsExit, Dead
  <2>2. [loc[c] EXCEPT !.cur = Ended(@, ExitStatus(Act(c)))] \in Locals
    BY <1>0, <2>1, LocalTypes
  <2>3. [loc[c] EXCEPT !.cur = Ended(@, ExitStatus(Act(c)))].act = loc[c].act
    BY <1>0 DEF Locals
  <2> QED
    BY <1>0, <1>6, <2>2, <2>3 DEF CurrentHasEnded, PollsExit
<1>7. CASE SaveEnded(c)
  BY <1>0, <1>7, LocalTypes DEF SaveEnded
<1>8. CASE StatusSaves(c)
  BY <1>0, <1>8, LocalTypes DEF StatusSaves
<1>9. CASE StatusHealthRaises(c)
  BY <1>0, <1>9, LocalTypes DEF StatusHealthRaises
<1>10. CASE AlreadyRunning(c)
  BY <1>0, <1>10, LocalTypes DEF AlreadyRunning, AfterStart
<1>11. CASE NotRunning(c)
  BY <1>0, <1>11, LocalTypes DEF NotRunning
<1>12. CASE StartRefused(c)
  BY <1>0, <1>12, LocalTypes DEF StartRefused
<1>13. CASE SpawnFails(c)
  BY <1>0, <1>13, LocalTypes DEF SpawnFails
<1>14. CASE SaveFailed(c)
  BY <1>0, <1>14, LocalTypes DEF SaveFailed
<1>15. CASE SaveStarted(c)
  BY <1>0, <1>15, LocalTypes DEF SaveStarted
<1>16. CASE StartHealth(c)
  BY <1>0, <1>16, LocalTypes DEF StartHealth
<1>17. CASE SaveAborted(c)
  BY <1>0, <1>17, LocalTypes DEF SaveAborted
<1>18. CASE SaveRestartCount(c)
  BY <1>0, <1>18, LocalTypes DEF SaveRestartCount
<1>19. CASE Terminate(c)
  BY <1>0, <1>19, LocalTypes DEF Terminate
<1>20. CASE NothingToTerminate(c)
  BY <1>0, <1>20, LocalTypes DEF NothingToTerminate, PollsExit
<1>21. CASE Kill(c)
  BY <1>0, <1>21, LocalTypes DEF Kill
<1>22. CASE Reap(c)
  BY <1>0, <1>22, LocalTypes DEF Reap
<1>23. CASE KillStalls(c)
  BY <1>0, <1>23, LocalTypes DEF KillStalls
<1>24. CASE SaveStopped(c)
  BY <1>0, <1>24, LocalTypes DEF SaveStopped
<1> QED
  BY <1>1, <1>2, <1>3, <1>4, <1>5, <1>6, <1>7, <1>8, <1>9, <1>10, <1>11, <1>12, <1>13, <1>14, <1>15, <1>16, <1>17, <1>18, <1>19, <1>20, <1>21, <1>22, <1>23, <1>24
  DEF CallerStep, CurrentStep, StartStep, StopStep

\* Steps of the tool handlers that leave the process table, the processes and
\* the watchers alone.
LEMMA MovingStepInv ==
  ASSUME IInv, NEW c \in Callers, Call(c) \/ CallerStep(c),
         ~ (PopEnded(c) \/ Spawn(c) \/ Attach(c) \/ LaunchWatcher(c) \/ PopAborted(c) \/ PopStopped(c))
  PROVE  IInv'
<1>1. Moves(c)
  BY HandlerMoves
<1>2. loc[c].cur \in Records /\ loc[c].count \in 0..MaxRestarts
  BY LocalTypes DEF IInv, TypeOK
<1>3. CASE \/ SaveEnded(c) \/ StatusSaves(c) \/ SaveFailed(c) \/ SaveStarted(c)
           \/ SaveAborted(c) \/ SaveRestartCount(c) \/ SaveStopped(c)
  <2>1. UNCHANGED <<table, proc, watch>> /\ \E r \in Records : Save(c, r)
    BY <1>2, <1>3, RecordTypes, LocalTypes
    DEF SaveEnded, StatusSaves, SaveFailed, SaveStarted, SaveAborted, SaveRestartCount,
        SaveStopped, Cur, Statuses
  <2> QED
    BY <1>1, <2>1, MoveInv
<1>4. CASE ~ (\/ SaveEnded(c) \/ StatusSaves(c) \/ SaveFailed(c) \/ SaveStarted(c)
              \/ SaveAborted(c) \/ SaveRestartCount(c) \/ SaveStopped(c))
  <2>1. /\ UNCHANGED <<table, proc, watch>>
        /\ \/ UNCHANGED <<rec, history>>
           \/ UNCHANGED <<rec, clobbered>> /\ fresh' = fresh \cup {c}
    BY <1>4
    DEF CallerStep, CurrentStep, StartStep, StopStep, Call, GetRecord, CurrentRaises, GetProcess, CurrentIsReturned, CurrentHasEnded, StatusHealthRaises, AlreadyRunning, NotRunning, StartRefused, SpawnFails, StartHealth, Terminate, NothingToTerminate, Kill, Reap, KillStalls
  <2> QED
    BY <1>1, <2>1, MoveInv
<1> QED
  BY <1>3, <1>4

\* A thread pops a process that it knows to be dead, or that it never had.
LEMMA PopKeepsOrphans ==
  ASSUME IInv, NEW own, own = None \/ Dead(own), Pop(own), UNCHANGED proc,
         \A c \in Callers : cpc[c] = "attach" => cpc'[c] = "attach" /\ loc'[c] = loc[c]
  PROVE  NoSilentOrphan'
<1> SUFFICES ASSUME NEW i \in Instances, Live(i), ~clobbered'
             PROVE  \E c \in Callers : cpc'[c] = "attach" /\ Act(c)' = i
  BY DEF NoSilentOrphan, Live
<1>1. table # i
  BY NoneIsNoInstance DEF Pop, Live, Dead, ExitCodes
<1>2. ~clobbered
  BY DEF Pop, IInv, TypeOK
<1>3. PICK c \in Callers : cpc[c] = "attach" /\ Act(c) = i
  BY <1>1, <1>2 DEF IInv, NoSilentOrphan
<1> QED
  BY <1>3 DEF Act

\* Steps of the tool handlers that pop a process.
LEMMA PoppingStepInv ==
  ASSUME IInv, NEW c \in Callers, PopEnded(c) \/ PopAborted(c) \/ PopStopped(c)
  PROVE  IInv'
<1>0. /\ TypeOK /\ loc[c] \in Locals /\ NoLocals \in Locals
      /\ cpc[c] \in Ending => Act(c) = None \/ Dead(Act(c))
  BY RecordTypes DEF IInv, TypeOK, HandlerInv
<1>1. /\ cpc[c] \in Ending
      /\ Pop(Act(c)) /\ UNCHANGED <<rec, proc, watch>>
  BY ResumeTypes, <1>0 DEF PopEnded, PopAborted, PopStopped, At, Move, Ending
<1>2. /\ cpc' \in [Callers -> Points] /\ loc' \in [Callers -> Locals]
      /\ cpc'[c] \notin Ending \cup Holding
      /\ \A d \in Callers \ {c} : cpc'[d] = cpc[d] /\ loc'[d] = loc[d]
  <2>1. [loc[c] EXCEPT !.op = "restart_start"] \in Locals
    BY <1>0, LocalTypes DEF Ops
  <2>2. CASE PopEnded(c)
    BY <1>0, <2>2, ResumeTypes DEF PopEnded, Ending, Holding
  <2>3. CASE PopAborted(c)
    BY <1>0, <2>3 DEF PopAborted, At, Move, TypeOK, Ending, Holding, Points
  <2>4. CASE PopStopped(c)
    BY <1>0, <2>1, <2>4 DEF PopStopped, At, Move, TypeOK, Ending, Holding, Points
  <2> QED
    BY <2>2, <2>3, <2>4
<1>3. TypeOK'
  BY <1>0, <1>1, <1>2 DEF TypeOK, Pop, watch
<1>4. HandlerInv'
  <2> SUFFICES ASSUME NEW d \in Callers
               PROVE  /\ cpc'[d] \in Ending => Act(d)' = None \/ Dead(Act(d))'
                      /\ cpc'[d] \in Holding => Act(d)' \in Instances
    BY DEF HandlerInv
  <2>1. CASE d = c
    BY <1>2, <2>1
  <2>2. CASE d # c
    BY <1>1, <1>2, <2>2 DEF IInv, HandlerInv, Act, Dead
  <2> QED
    BY <2>1, <2>2
<1>5. WatcherInv'
  BY <1>1 DEF IInv, WatcherInv, Dead, watch
<1>6. NoSilentOrphan'
  BY <1>0, <1>1, <1>2, PopKeepsOrphans DEF Ending
<1> QED
  BY <1>3, <1>4, <1>5, <1>6 DEF IInv

\* start_service: the new process, its place in the table, its watcher.
LEMMA StartingStepInv ==
  ASSUME IInv, NEW c \in Callers, Spawn(c) \/ Attach(c) \/ LaunchWatcher(c)
  PROVE  IInv'
<1>0. /\ TypeOK /\ loc[c] \in Locals /\ NoLocals \in Locals
      /\ cpc[c] \in Holding => Act(c) \in Instances
  BY RecordTypes DEF IInv, TypeOK, HandlerInv
<1>1. CASE Spawn(c)
  <2>1. PICK i \in Instances, l \in Locals :
          /\ proc[i] = "absent" /\ proc' = [proc EXCEPT ![i] = "live"]
          /\ Move(c, "spawn", "attach", l) /\ l.act = i
          /\ UNCHANGED <<rec, table, watch, history>>
    <3>1. \A i \in Instances :
            LET l == [loc[c] EXCEPT !.act = i, !.cur.status = "running", !.cur.inst = i]
            IN  l \in Locals /\ l.act = i
      BY <1>0 DEF Locals, Records, Statuses
    <3> QED
      BY <1>1, <3>1 DEF Spawn
  <2>2. TypeOK'
    BY <1>0, <2>1 DEF TypeOK, Move, Points, StartPoints, watch, history
  <2>3. HandlerInv' /\ WatcherInv'
    BY <1>0, <2>1 DEF IInv, TypeOK, HandlerInv, WatcherInv, Move, Act, Dead, ExitCodes,
       Ending, Holding, watch
  <2>4. NoSilentOrphan'
    BY <1>0, <2>1 DEF IInv, TypeOK, NoSilentOrphan, Move, Act, Live, history
  <2> QED
    BY <2>2, <2>3, <2>4 DEF IInv
<1>2. CASE Attach(c)
  <2>1. /\ cpc[c] = "attach" /\ cpc' = [cpc EXCEPT ![c] = "save"]
        /\ loc' = [loc EXCEPT ![c] = loc[c]]
        /\ Act(c) \in Instances
    BY <1>0, <1>2 DEF Attach, At, Move, Holding
  <2>2. TypeOK'
    BY <1>0, <1>2, <2>1 DEF Attach, TypeOK, Points, StartPoints, watch
  <2>3. HandlerInv' /\ WatcherInv'
    BY <1>0, <1>2, <2>1 DEF Attach, IInv, TypeOK, HandlerInv, WatcherInv, Act, Dead,
       Ending, Holding, watch
  <2>4. NoSilentOrphan'
    BY <1>0, <1>2, <2>1 DEF Attach, IInv, TypeOK, NoSilentOrphan, Act, Live
  <2> QED
    BY <2>2, <2>3, <2>4 DEF IInv
<1>3. CASE LaunchWatcher(c)
  <2>1. /\ cpc[c] = "watch" /\ cpc' \in [Callers -> Points] /\ loc' \in [Callers -> Locals]
        /\ cpc'[c] \in {"bump", "idle"}
        /\ \A d \in Callers \ {c} : cpc'[d] = cpc[d] /\ loc'[d] = loc[d]
    BY <1>0, <1>3 DEF LaunchWatcher, AfterStart, At, Move, TypeOK, Points, StartPoints
  <2>2. TypeOK'
    BY <1>0, <1>3, <2>1 DEF LaunchWatcher, TypeOK, WatcherPoints, history
  <2>3. HandlerInv'
    BY <1>0, <1>3, <2>1 DEF LaunchWatcher, IInv, HandlerInv, Act, Dead, Ending, Holding
  <2>4. WatcherInv'
    BY <1>0, <1>3 DEF LaunchWatcher, IInv, TypeOK, WatcherInv, Dead
  <2>5. NoSilentOrphan'
    BY <1>0, <1>3, <2>1 DEF LaunchWatcher, IInv, TypeOK, NoSilentOrphan, Act, Live, history
  <2> QED
    BY <2>2, <2>3, <2>4, <2>5 DEF IInv
<1> QED
  BY <1>1, <1>2, <1>3

\* Steps of an exit watcher.
LEMMA WatcherStepInv ==
  ASSUME IInv, NEW i \in Instances, WatcherStep(i)
  PROVE  IInv'
<1>0. /\ TypeOK /\ wloc[i] \in [act : Instances \cup {None}, rec : Records]
      /\ NoWatch \in [act : Instances \cup {None}, rec : Records]
      /\ wpc[i] \in {"wait", "check", "save", "pop"} => wloc[i].act \in Instances
      /\ wpc[i] \in {"check", "save", "pop"} => Dead(wloc[i].act)
  BY RecordTypes DEF IInv, TypeOK, WatcherInv
<1>1. UNCHANGED <<proc, cpc, loc>>
  BY DEF WatcherStep, WatcherLookup, WatcherReaps, WatcherChecks, WatcherSaves, WatcherPops,
         WatcherMove
<1>2. HandlerInv'
  BY <1>1 DEF IInv, HandlerInv, Act, Dead
<1>3. PICK next \in WatcherPoints, l \in [act : Instances \cup {None}, rec : Records] :
        /\ wpc' = [wpc EXCEPT ![i] = next] /\ wloc' = [wloc EXCEPT ![i] = l]
        /\ next \in {"wait", "check", "save", "pop"} => l.act \in Instances
        /\ next \in {"check", "save", "pop"} => Dead(l.act)
  <2> USE DEF WatcherMove, WatcherPoints
  <2>1. CASE WatcherLookup(i)
    <3>1. [wloc[i] EXCEPT !.act = table] \in [act : Instances \cup {None}, rec : Records]
      BY <1>0 DEF TypeOK
    <3>2. table # None => [wloc[i] EXCEPT !.act = table].act \in Instances
      BY <1>0 DEF TypeOK
    <3>3. CASE table = None
      BY <1>0, <2>1, <3>3 DEF WatcherLookup
    <3>4. CASE table # None
      BY <1>0, <2>1, <3>1, <3>2, <3>4 DEF WatcherLookup
    <3> QED
      BY <3>3, <3>4
  <2>2. CASE WatcherReaps(i)
    BY <1>0, <2>2 DEF WatcherReaps
  <2>3. CASE WatcherChecks(i)
    <3>1. Ended(rec, ExitStatus(wloc[i].act)) \in Records
      BY <1>0, <2>3, RecordTypes DEF WatcherChecks, TypeOK
    <3>2. [wloc[i] EXCEPT !.rec = Ended(rec, ExitStatus(wloc[i].act))]
            \in [act : Instances \cup {None}, rec : Records]
      BY <1>0, <3>1
    <3>3. [wloc[i] EXCEPT !.rec = Ended(rec, ExitStatus(wloc[i].act))].act = wloc[i].act
      BY <1>0
    <3>4. CASE rec.inst = i
      BY <1>0, <2>3, <3>2, <3>3, <3>4 DEF WatcherChecks
    <3>5. CASE rec.inst # i
      BY <1>0, <2>3, <3>5 DEF WatcherChecks
    <3> QED
      BY <3>4, <3>5
  <2>4. CASE WatcherSaves(i)
    BY <1>0, <2>4 DEF WatcherSaves
  <2>5. CASE WatcherPops(i)
    BY <1>0, <2>5 DEF WatcherPops
  <2> QED
    BY <2>1, <2>2, <2>3, <2>4, <2>5 DEF WatcherStep
<1>4. TypeOK'
  <2>1. /\ rec' \in Records /\ table' \in Instances \cup {None}
        /\ fresh' \subseteq Callers \cup Instances /\ clobbered' \in BOOLEAN
    BY <1>0
    DEF WatcherStep, WatcherLookup, WatcherReaps, WatcherChecks, WatcherSaves, WatcherPops,
        TypeOK, Save, Pop, history, WatcherMove
  <2> QED
    BY <1>0, <1>1, <1>3, <2>1 DEF TypeOK
<1>5. WatcherInv'
  BY <1>0, <1>1, <1>3 DEF IInv, TypeOK, WatcherInv, Dead
<1>6. NoSilentOrphan'
  <2>1. CASE WatcherPops(i)
    BY <1>0, <1>1, <2>1, PopKeepsOrphans DEF WatcherPops, WatcherMove
  <2>2. CASE ~WatcherPops(i)
    <3>1. table' = table /\ (clobbered => clobbered')
      BY <1>0, <2>2 DEF TypeOK, WatcherStep, WatcherLookup, WatcherReaps, WatcherChecks, WatcherSaves,
                  Save, history
    <3> QED
      BY <1>1, <3>1 DEF IInv, NoSilentOrphan, Live, Act
  <2> QED
    BY <2>1, <2>2
<1> QED
  BY <1>2, <1>4, <1>5, <1>6 DEF IInv

\* The end of a process, by itself or by a signal.
LEMMA ExitStepInv ==
  ASSUME IInv, NEW i \in Instances, ProcessExits(i)
  PROVE  IInv'
<1>1. PICK x \in ExitCodes : proc[i] = "live" /\ proc' = [proc EXCEPT ![i] = x]
  BY ExitsAreCodes DEF ProcessExits
<1>2. UNCHANGED <<rec, table, watch, cpc, loc, history>>
  BY DEF ProcessExits
<1>3. TypeOK'
  BY <1>1, <1>2 DEF IInv, TypeOK, watch, history
<1>4. \A j \in Instances : (Dead(j) => Dead(j)') /\ (Live(j)' => Live(j))
  BY <1>1 DEF IInv, TypeOK, Dead, Live, ExitCodes
<1>5. HandlerInv' /\ WatcherInv' /\ NoSilentOrphan'
  BY <1>1, <1>2, <1>4
  DEF IInv, TypeOK, HandlerInv, WatcherInv, NoSilentOrphan, Act, Dead, watch, history
<1> QED
  BY <1>3, <1>5 DEF IInv

\* Every step keeps the invariant.
LEMMA NextInv == IInv /\ [Next]_vars => IInv'
<1> SUFFICES ASSUME IInv, [Next]_vars PROVE IInv'
  OBVIOUS
<1>1. ASSUME NEW c \in Callers, Call(c) \/ CallerStep(c) PROVE IInv'
  BY <1>1, MovingStepInv, PoppingStepInv, StartingStepInv
<1>2. CASE UNCHANGED vars
  BY <1>2
  DEF vars, watch, history, IInv, TypeOK, HandlerInv, WatcherInv, NoSilentOrphan, Act, Dead, Live
<1> QED
  BY <1>1, <1>2, WatcherStepInv, ExitStepInv DEF Next

\* The invariant holds in every behaviour.
THEOREM Invariance == Spec => []IInv
<1> QED
  BY InitInv, NextInv, PTL DEF Spec

\* Records, tables and threads keep their types, with any number of clients.
THEOREM TypeCorrect == Spec => []TypeOK
<1>1. IInv => TypeOK
  BY DEF IInv
<1> QED
  BY <1>1, Invariance, PTL

\* However many clients start, stop and restart the service, a live process is
\* always known to the process table or still held by the start that spawned it,
\* unless two threads overwrote each other.
THEOREM OrphansAreLostUpdates == Spec => []NoSilentOrphan
<1>1. IInv => NoSilentOrphan
  BY DEF IInv
<1> QED
  BY <1>1, Invariance, PTL

------------------------------------------------------------------------------
(***************************************************************************)
(* The record of a service is true whenever no handler is at work and no   *)
(* update was lost.                                                        *)
(*                                                                         *)
(* The argument: while nothing is clobbered, whoever saves a record has    *)
(* seen the one that is there (CopyInv, WatchInv).  So a record stops      *)
(* saying running only by the hand of a thread that knows the attached     *)
(* process to be dead, and it says running only of the process in the      *)
(* table or of one that the next save of a start replaces (RecordInv).     *)
(* That an instance id is new when its process is attached (NewInv) keeps  *)
(* a copy from becoming right by accident.                                 *)
(***************************************************************************)

AbortPoints == {"abort", "abort_wait", "abort_kill", "abort_save"}
PopPoints == {"fin_pop", "stop_pop", "abort_pop"}

\* Where the copy of a handler is the record, if it is fresh, ...
Copying == {"peek", "poll", "fin_pop", "status_save", "bump", "start", "start_poll", "spawn",
            "health", "save_again", "watch", "stop", "stop_poll", "stop_wait", "stop_kill",
            "stop_save"} \cup AbortPoints
\* ... and where it has looked into the process table since it made it.
Looked == {"poll", "fin_save", "start_poll", "spawn", "fail_save", "stop_poll", "stop_wait",
           "stop_kill", "stop_save"}

\* A thread is about to pop process a; a start has attached it and not saved it.
Popping(a) ==
  \/ \E c \in Callers : cpc[c] \in PopPoints /\ Act(c) = a
  \/ \E w \in Instances : wpc[w] = "pop" /\ wloc[w].act = a
Saving(a) == \E c \in Callers : cpc[c] = "save" /\ Act(c) = a

\* No table, record or watcher knows an instance before it is attached.
New(i) ==
  /\ table # i /\ rec.inst # i /\ wpc[i] = "none"
  /\ \A w \in Instances : wloc[w].act # i
NewInv ==
  /\ \A i \in Instances : proc[i] = "absent" => New(i) /\ \A c \in Callers : Act(c) # i
  /\ \A i \in Instances, c \in Callers :
       cpc[c] = "attach" /\ Act(c) = i => New(i) /\ \A d \in Callers \ {c} : Act(d) # i

\* What a handler knows of the record and of the process table.
CopyAt(c) ==
  /\ cpc[c] \in {"spawn", "fail_save"} => Act(c) = None \/ Dead(Act(c))
  /\ cpc[c] \in {"attach", "save"} => Cur(c).status = "running"
  /\ cpc[c] \in {"attach", "save", "health", "save_again"} \cup AbortPoints => Cur(c).inst = Act(c)
  /\ cpc[c] \in {"fin_save", "fail_save"} =>
       Cur(c).status # "running" /\ (c \in fresh => Cur(c).inst \in {None, rec.inst})
  /\ c \in fresh /\ cpc[c] \in Copying => Cur(c) = rec
  /\ c \in fresh /\ cpc[c] \in Looked => (rec.inst # None /\ rec.inst = table => Act(c) = table)
CopyInv == \A c \in Callers : CopyAt(c)

\* What a watcher knows of them.
WatchAt(w) ==
  /\ wpc[w] \in {"wait", "check", "save"} /\ table = w => wloc[w].act = w
  /\ wpc[w] = "save" => wloc[w].rec.status # "running" /\ wloc[w].rec.inst = None
  /\ w \in fresh /\ wpc[w] = "save" => rec.inst = w
WatchInv == \A w \in Instances : WatchAt(w)

\* How the record and the table differ while threads are at work.
RecordInv ==
  /\ Live(table) => (rec.status = "running" /\ rec.inst = table) \/ Saving(table)
  /\ rec.status = "running" =>
       rec.inst # None /\ (table = rec.inst \/ Saving(table)) /\ ~Popping(table)
  /\ \A c \in Callers : c \in fresh /\ cpc[c] = "save" => Saving(table) /\ ~Popping(table)

Calm == NewInv /\ CopyInv /\ WatchInv /\ RecordInv

------------------------------------------------------------------------------
\* What holds of every thread by its type and by IInv.
LEMMA Known ==
  ASSUME IInv
  PROVE  /\ None \notin Instances
         /\ \A c \in Callers : loc[c] \in Locals /\ Act(c) \in Instances \cup {None} /\ Cur(c) \in Records
         /\ rec \in Records /\ table \in Instances \cup {None} /\ NoLocals \in Locals
         /\ ~Dead(None) /\ ~Live(None)
         /\ \A c \in Callers : cpc[c] = "save" => Act(c) \in Instances
         /\ \A i \in Instances : ~(Dead(i) /\ Live(i))
  BY NoneIsNoInstance, RecordTypes, LocalTypes
  DEF IInv, TypeOK, Act, Cur, Dead, Live, HandlerInv, Holding, ExitCodes

\* A handler that saves no record, holds no unattached process and pops none.
LEMMA QuietMove ==
  ASSUME IInv, Calm, NEW c \in Callers,
         \A d \in Callers \ {c} : cpc'[d] = cpc[d] /\ loc'[d] = loc[d],
         UNCHANGED <<rec, table, proc, watch>>, fresh \subseteq fresh', fresh' \subseteq fresh \cup {c},
         cpc[c] \notin {"attach", "save"} \cup PopPoints,
         cpc'[c] \notin {"attach", "save"} \cup PopPoints,
         Act(c)' \in {None, Act(c), table},
         CopyAt(c)'
  PROVE  Calm'
<1> USE Known DEF watch
<1>1. \A d \in Callers \ {c} : Act(d)' = Act(d) /\ Cur(d)' = Cur(d) /\ (d \in fresh' <=> d \in fresh)
  BY DEF Act, Cur
<1>2. \A a : (Dead(a)' <=> Dead(a)) /\ (Live(a)' <=> Live(a))
  BY DEF Dead, Live
<1>3. \A a : (Popping(a)' <=> Popping(a)) /\ (Saving(a)' <=> Saving(a))
  <2> TAKE a
  <2>1. Popping(a)' <=> Popping(a)
    BY <1>1 DEF Popping
  <2>2. Saving(a)' <=> Saving(a)
    BY <1>1 DEF Saving
  <2> QED
    BY <2>1, <2>2
<1>4. NewInv'
  <2>1. \A i \in Instances : New(i)' <=> New(i)
    BY DEF New
  <2>2. \A i \in Instances : proc[i] = "absent" => New(i)' /\ \A d \in Callers : Act(d)' # i
    BY <1>1, <2>1 DEF Calm, NewInv, New
  <2>3. ASSUME NEW i \in Instances, NEW d \in Callers, cpc'[d] = "attach", Act(d)' = i
        PROVE  New(i)' /\ \A e \in Callers \ {d} : Act(e)' # i
    <3>1. d # c /\ cpc[d] = "attach" /\ Act(d) = i
      BY <1>1, <2>3
    <3>2. New(i) /\ \A e \in Callers \ {d} : Act(e) # i
      BY <3>1 DEF Calm, NewInv
    <3> QED
      BY <1>1, <2>1, <3>2 DEF New
  <2> QED
    BY <2>2, <2>3 DEF NewInv
<1>5. CopyInv'
  BY <1>1, <1>2 DEF Calm, CopyInv, CopyAt
<1>6. WatchInv'
  <2>1. \A w \in Instances : w \in fresh' => w \in fresh
    BY ThreadsDiffer
  <2> QED
    BY <2>1 DEF Calm, WatchInv, WatchAt
<1>7. RecordInv'
  BY <1>1, <1>2, <1>3 DEF Calm, RecordInv
<1> QED
  BY <1>4, <1>5, <1>6, <1>7 DEF Calm

\* A handler whose copy is fresh saves a record.
LEMMA SaveMove ==
  ASSUME IInv, Calm, NEW c \in Callers, NEW r \in Records, Save(c, r), ~clobbered',
         \A d \in Callers \ {c} : cpc'[d] = cpc[d] /\ loc'[d] = loc[d],
         UNCHANGED <<table, proc, watch>>,
         cpc[c] \notin {"attach"} \cup PopPoints, cpc'[c] \notin {"attach", "save"},
         Act(c)' \in {None, Act(c)}, CopyAt(c)',
         \/ /\ cpc[c] # "save" /\ r.status # "running" /\ r.inst \in {None, rec.inst}
            /\ ~(Live(table) /\ rec.status = "running" /\ rec.inst = table)
         \/ /\ cpc[c] # "save" /\ cpc'[c] \notin PopPoints
            /\ r.status = rec.status /\ r.inst = rec.inst
         \/ /\ cpc[c] = "save" /\ cpc'[c] \notin PopPoints
            /\ r.status = "running" /\ r.inst = Act(c)
  PROVE  Calm'
<1> USE Known DEF watch
<1>0. rec' = r /\ fresh' = {c} /\ ~clobbered /\ c \in fresh
  BY DEF Save, IInv, TypeOK
<1>1. \A d \in Callers \ {c} : Act(d)' = Act(d) /\ Cur(d)' = Cur(d)
  BY DEF Act, Cur
<1>2. \A a : (Dead(a)' <=> Dead(a)) /\ (Live(a)' <=> Live(a))
  BY DEF Dead, Live
<1>3. \A a : (Saving(a) => Saving(a)' \/ (cpc[c] = "save" /\ a = Act(c)))
  BY <1>1 DEF Saving
<1>4. \A a : cpc'[c] \notin PopPoints /\ Popping(a)' => Popping(a)
  BY <1>1 DEF Popping
<1>5. NewInv'
  <2>1. \A i \in Instances : New(i) /\ r.inst # i => New(i)'
    BY <1>0 DEF New
  <2>2. ASSUME NEW i \in Instances, proc[i] = "absent"
        PROVE  New(i)' /\ \A d \in Callers : Act(d)' # i
    <3>1. New(i) /\ \A d \in Callers : Act(d) # i
      BY <2>2 DEF Calm, NewInv
    <3>2. r.inst # i
      BY <3>1 DEF New
    <3> QED
      BY <1>1, <2>1, <3>1, <3>2
  <2>3. ASSUME NEW i \in Instances, NEW d \in Callers, cpc'[d] = "attach", Act(d)' = i
        PROVE  New(i)' /\ \A e \in Callers \ {d} : Act(e)' # i
    <3>1. d # c /\ cpc[d] = "attach" /\ Act(d) = i
      BY <1>1, <2>3
    <3>2. New(i) /\ \A e \in Callers \ {d} : Act(e) # i
      BY <3>1 DEF Calm, NewInv
    <3>3. r.inst # i
      BY <3>1, <3>2 DEF New
    <3> QED
      BY <1>1, <2>1, <3>1, <3>2, <3>3
  <2> QED
    BY <2>2, <2>3 DEF NewInv
<1>6. CopyInv'
  BY <1>0, <1>1, <1>2 DEF Calm, CopyInv, CopyAt
<1>7. WatchInv'
  BY <1>0, ThreadsDiffer DEF Calm, WatchInv, WatchAt
<1>8. RecordInv'
  <2>1. \A d \in Callers : d \in fresh' => cpc'[d] # "save"
    BY <1>0
  <2>2. CASE /\ cpc[c] # "save" /\ r.status # "running"
             /\ ~(Live(table) /\ rec.status = "running" /\ rec.inst = table)
    BY <1>0, <1>2, <1>3, <2>1, <2>2 DEF Calm, RecordInv
  <2>3. CASE /\ cpc[c] # "save" /\ cpc'[c] \notin PopPoints
             /\ r.status = rec.status /\ r.inst = rec.inst
    BY <1>0, <1>2, <1>3, <1>4, <2>1, <2>3 DEF Calm, RecordInv
  <2>4. CASE /\ cpc[c] = "save" /\ cpc'[c] \notin PopPoints
             /\ r.status = "running" /\ r.inst = Act(c)
    <3>1. Saving(table) /\ ~Popping(table)
      BY <1>0, <2>4 DEF Calm, RecordInv
    <3>2. r.inst = table \/ Saving(table)'
      BY <1>3, <2>4, <3>1
    <3> QED
      BY <1>0, <1>2, <1>4, <2>1, <2>4, <3>1, <3>2 DEF Calm, RecordInv
  <2> QED
    BY <2>2, <2>3, <2>4
<1> QED
  BY <1>5, <1>6, <1>7, <1>8 DEF Calm

\* A thread pops the process it knows to be dead, which takes no other out of
\* the table, and only where the record does not say running.
LEMMA PopTruth ==
  ASSUME IInv, Calm, NEW own, Popping(own), Pop(own), ~clobbered',
         UNCHANGED <<rec, proc, fresh>>,
         \A d \in Callers : cpc[d] = "save" <=> cpc'[d] = "save",
         \A d \in Callers : cpc[d] = "save" => Act(d)' = Act(d),
         \A a : Popping(a)' => Popping(a)
  PROVE  RecordInv' /\ rec.status # "running" /\ table' = None
<1> USE Known
<1>1. table \in {None, own} /\ table' = None /\ ~clobbered
  BY DEF Pop, IInv, TypeOK
<1>2. ~(Saving(table) /\ ~Popping(table))
  BY <1>1 DEF Saving
<1>3. rec.status # "running"
  BY <1>1, <1>2 DEF Calm, RecordInv
<1>4. \A d \in Callers : ~(d \in fresh' /\ cpc'[d] = "save")
  BY <1>2 DEF Calm, RecordInv
<1>5. ~Live(table)'
  BY <1>1 DEF Live
<1> QED
  BY <1>1, <1>3, <1>4, <1>5 DEF RecordInv

\* Nothing that is new is in a table without an entry.
LEMMA PopNew ==
  ASSUME IInv, Calm, table' = None, UNCHANGED <<rec, proc>>,
         \A w \in Instances : wpc[w] = "none" => wpc'[w] = "none",
         \A w \in Instances : wloc'[w].act \in {None, wloc[w].act},
         \A d \in Callers : /\ cpc'[d] = "attach" => cpc[d] = "attach" /\ Act(d)' = Act(d)
                            /\ Act(d)' \in {None, Act(d)}
  PROVE  NewInv'
<1> USE Known
<1>1. \A i \in Instances : New(i) => New(i)'
  BY DEF New
<1>2. ASSUME NEW i \in Instances, proc[i] = "absent"
      PROVE  New(i)' /\ \A d \in Callers : Act(d)' # i
  BY <1>1, <1>2 DEF Calm, NewInv
<1>3. ASSUME NEW i \in Instances, NEW d \in Callers, cpc'[d] = "attach", Act(d)' = i
      PROVE  New(i)' /\ \A e \in Callers \ {d} : Act(e)' # i
  <2>1. cpc[d] = "attach" /\ Act(d) = i
    BY <1>3
  <2>2. New(i) /\ \A e \in Callers \ {d} : Act(e) # i
    BY <2>1 DEF Calm, NewInv
  <2> QED
    BY <1>1, <2>2
<1> QED
  BY <1>2, <1>3 DEF NewInv

\* A handler pops.
LEMMA PopMove ==
  ASSUME IInv, Calm, NEW c \in Callers, Pop(Act(c)), ~clobbered',
         \A d \in Callers \ {c} : cpc'[d] = cpc[d] /\ loc'[d] = loc[d],
         UNCHANGED <<rec, proc, watch>>,
         cpc[c] \in PopPoints, cpc'[c] \notin {"attach", "save"} \cup PopPoints,
         Act(c)' \in {None, Act(c)}, CopyAt(c)'
  PROVE  Calm'
<1> USE Known DEF watch
<1>0. Act(c) = None \/ Dead(Act(c))
  BY DEF IInv, HandlerInv, Ending, PopPoints
<1>1. \A d \in Callers \ {c} : Act(d)' = Act(d) /\ Cur(d)' = Cur(d)
  BY DEF Act, Cur
<1>2. \A a : (Dead(a)' <=> Dead(a)) /\ (Live(a)' <=> Live(a))
  BY DEF Dead, Live
<1>3. \A a : Popping(a)' => Popping(a)
  BY <1>1 DEF Popping
<1>4. Popping(Act(c)) /\ UNCHANGED fresh
  BY DEF Popping, Pop
<1>5. RecordInv' /\ table' = None
  BY <1>0, <1>1, <1>3, <1>4, PopTruth DEF PopPoints
<1>6. NewInv'
  BY <1>1, <1>5, PopNew
<1>7. CopyInv'
  BY <1>1, <1>2, <1>4, <1>5 DEF Calm, CopyInv, CopyAt
<1>8. WatchInv'
  BY <1>4, <1>5 DEF Calm, WatchInv, WatchAt
<1> QED
  BY <1>5, <1>6, <1>7, <1>8 DEF Calm

\* The watchers of a service.
LEMMA WatcherCalm ==
  ASSUME IInv, Calm, NEW w \in Instances, WatcherStep(w), ~clobbered'
  PROVE  Calm'
<1> USE Known
<1>t. /\ wpc \in [Instances -> WatcherPoints]
      /\ wloc \in [Instances -> [act : Instances \cup {None}, rec : Records]]
      /\ fresh \subseteq Callers \cup Instances /\ NoWatch.act = None
      /\ \A r \in Records : \A st : Ended(r, st).inst = None /\ Ended(r, st).status = st
  BY DEF IInv, TypeOK, NoWatch, Ended, Records
<1>0. UNCHANGED <<proc, cpc, loc>> /\ (\A c \in Callers : Act(c)' = Act(c) /\ Cur(c)' = Cur(c))
  BY DEF WatcherStep, WatcherLookup, WatcherReaps, WatcherChecks, WatcherSaves, WatcherPops,
         WatcherMove, Act, Cur
<1>1. \A a : (Dead(a)' <=> Dead(a)) /\ (Live(a)' <=> Live(a)) /\ (Saving(a)' <=> Saving(a))
  BY <1>0 DEF Dead, Live, Saving
<1>2. \A v \in Instances \ {w} : wpc'[v] = wpc[v] /\ wloc'[v] = wloc[v]
  BY <1>t
  DEF WatcherStep, WatcherLookup, WatcherReaps, WatcherChecks, WatcherSaves, WatcherPops,
      WatcherMove
<1>3. CASE WatcherLookup(w) \/ WatcherReaps(w) \/ WatcherChecks(w)
  <2>1. /\ UNCHANGED <<rec, table>> /\ fresh \subseteq fresh' /\ fresh' \subseteq fresh \cup {w}
        /\ wpc[w] \in {"start", "wait", "check"} /\ wpc'[w] \in {"wait", "check", "save", "done"}
        /\ wloc'[w].act \in {None, table, wloc[w].act}
        /\ WatchAt(w)'
    <3>1. CASE WatcherLookup(w)
      BY <1>t, <3>1 DEF WatcherLookup, WatcherMove, WatchAt, history
    <3>2. CASE WatcherReaps(w)
      BY <1>t, <3>2 DEF WatcherReaps, WatcherMove, WatchAt, history, Calm, WatchInv
    <3>3. CASE WatcherChecks(w)
      <4>1. ExitStatus(wloc[w].act) # "running"
        BY DEF ExitStatus
      <4>2. /\ wpc'[w] = IF rec.inst = w THEN "save" ELSE "done"
            /\ rec.inst = w => /\ wloc'[w].act = wloc[w].act
                               /\ wloc'[w].rec = Ended(rec, ExitStatus(wloc[w].act))
            /\ rec.inst # w => wloc'[w].act = None
            /\ wpc[w] = "check" /\ fresh' = fresh \cup {w} /\ UNCHANGED <<rec, table>>
        BY <1>t, <3>3 DEF WatcherChecks, WatcherMove
      <4>3. table = w => wloc[w].act = w
        BY <4>2 DEF Calm, WatchInv, WatchAt
      <4>4. WatchAt(w)'
        BY <1>t, <4>1, <4>2, <4>3 DEF WatchAt
      <4> QED
        BY <4>2, <4>4
    <3> QED
      BY <1>3, <3>1, <3>2, <3>3
  <2>2. \A a : Popping(a)' <=> Popping(a)
    BY <1>0, <1>2, <2>1 DEF Popping
  <2>3. \A i \in Instances : New(i) => New(i)'
    BY <1>2, <2>1 DEF New
  <2>4. NewInv'
    BY <1>0, <2>3 DEF Calm, NewInv
  <2>5. \A c \in Callers : c \in fresh' <=> c \in fresh
    BY <2>1, ThreadsDiffer
  <2>6. CopyInv'
    BY <1>0, <1>1, <2>1, <2>5 DEF Calm, CopyInv, CopyAt
  <2>7. WatchInv'
    BY <1>2, <2>1 DEF Calm, WatchInv, WatchAt
  <2>8. RecordInv'
    BY <1>0, <1>1, <2>1, <2>2, <2>5 DEF Calm, RecordInv
  <2> QED
    BY <2>4, <2>6, <2>7, <2>8 DEF Calm
<1>4. CASE WatcherSaves(w)
  <2>1. /\ wpc[w] = "save" /\ wpc'[w] = "pop" /\ wloc' = wloc /\ UNCHANGED table
        /\ rec' = wloc[w].rec /\ fresh' = {w} /\ ~clobbered /\ w \in fresh
    BY <1>t, <1>4 DEF WatcherSaves, WatcherMove, Save, IInv, TypeOK
  <2>2. rec'.status # "running" /\ rec'.inst = None /\ rec.inst = w /\ (table = w => wloc[w].act = w)
    BY <2>1 DEF Calm, WatchInv, WatchAt
  <2>3. Dead(wloc[w].act)
    BY <2>1 DEF IInv, WatcherInv
  <2>4. ~(Live(table) /\ rec.status = "running" /\ rec.inst = table)
    BY <2>2, <2>3
  <2>5. \A c \in Callers : c \notin fresh'
    BY <2>1, ThreadsDiffer
  <2>6. \A i \in Instances : New(i) => New(i)'
    BY <1>2, <2>1, <2>2 DEF New
  <2>7. NewInv'
    BY <1>0, <2>6 DEF Calm, NewInv
  <2>8. CopyInv'
    BY <1>0, <1>1, <2>1, <2>5 DEF Calm, CopyInv, CopyAt
  <2>9. WatchInv'
    BY <1>2, <2>1 DEF Calm, WatchInv, WatchAt
  <2>10. RecordInv'
    BY <1>0, <1>1, <2>1, <2>2, <2>4, <2>5 DEF Calm, RecordInv
  <2> QED
    BY <2>7, <2>8, <2>9, <2>10 DEF Calm
<1>5. CASE WatcherPops(w)
  <2>1. /\ wpc[w] = "pop" /\ wpc'[w] = "done" /\ wloc'[w].act = None
        /\ Pop(wloc[w].act) /\ UNCHANGED <<rec, fresh>>
    BY <1>t, <1>5 DEF WatcherPops, WatcherMove, Pop
  <2>2. Dead(wloc[w].act) /\ Popping(wloc[w].act)
    BY <2>1 DEF IInv, WatcherInv, Popping
  <2>3. \A a : Popping(a)' => Popping(a)
    BY <1>0, <1>2, <2>1 DEF Popping
  <2>4. RecordInv' /\ table' = None
    BY <1>0, <2>1, <2>2, <2>3, PopTruth
  <2>5. NewInv'
    BY <1>0, <1>2, <2>1, <2>4, PopNew
  <2>6. CopyInv'
    BY <1>0, <1>1, <2>1, <2>4 DEF Calm, CopyInv, CopyAt
  <2>7. WatchInv'
    BY <1>2, <2>1, <2>4 DEF Calm, WatchInv, WatchAt
  <2> QED
    BY <2>4, <2>5, <2>6, <2>7 DEF Calm
<1> QED
  BY <1>3, <1>4, <1>5 DEF WatcherStep

\* The end of a process is no news for the records: nobody thinks it lives.
LEMMA ExitCalm ==
  ASSUME IInv, Calm, NEW i \in Instances, ProcessExits(i), ~clobbered'
  PROVE  Calm'
<1>0. /\ UNCHANGED <<rec, table, watch, cpc, loc, history>>
      /\ \A c \in Callers : Act(c)' = Act(c) /\ Cur(c)' = Cur(c)
      /\ \A a : (Popping(a)' <=> Popping(a)) /\ (Saving(a)' <=> Saving(a)) /\ (New(a)' <=> New(a))
  BY DEF ProcessExits, Act, Cur, Popping, Saving, New, watch
<1>1. PICK x \in ExitCodes : proc[i] = "live" /\ proc' = [proc EXCEPT ![i] = x]
  BY ExitsAreCodes DEF ProcessExits
<1>2. \A j \in Instances : /\ proc'[j] = "absent" => proc[j] = "absent"
                           /\ Dead(j) => Dead(j)'
  BY <1>1 DEF IInv, TypeOK, Dead, ExitCodes
<1>3. Live(table)' => Live(table)
  BY <1>0, <1>1 DEF IInv, TypeOK, Live, ExitCodes
<1>4. NewInv'
  <2>1. \A j \in Instances : New(j) => New(j)'
    BY <1>0
  <2> QED
    BY <1>0, <1>2, <2>1 DEF Calm, NewInv
<1>5. CopyInv'
  <2>1. \A c \in Callers : Dead(Act(c)) => Dead(Act(c))'
    BY <1>0, <1>1 DEF IInv, TypeOK, Dead, ExitCodes
  <2> QED
    BY <1>0, <2>1 DEF Calm, CopyInv, CopyAt, history
<1>6. WatchInv' /\ RecordInv'
  BY <1>0, <1>3 DEF Calm, WatchInv, WatchAt, RecordInv, watch, history
<1> QED
  BY <1>4, <1>5, <1>6 DEF Calm

\* start_service: the new process, its place in the table, its watcher.
LEMMA StartingCalm ==
  ASSUME IInv, Calm, NEW c \in Callers, Spawn(c) \/ Attach(c) \/ LaunchWatcher(c), ~clobbered'
  PROVE  Calm'
<1> USE Known
<1>t. /\ cpc \in [Callers -> Points] /\ loc \in [Callers -> Locals] /\ loc[c] \in Locals
      /\ proc \in [Instances -> {"absent", "live"} \cup ExitCodes]
      /\ wpc \in [Instances -> WatcherPoints]
  BY DEF IInv, TypeOK
<1>0. \A d \in Callers \ {c} : /\ cpc'[d] = cpc[d] /\ loc'[d] = loc[d]
                               /\ Act(d)' = Act(d) /\ Cur(d)' = Cur(d)
  BY <1>t DEF Spawn, Attach, LaunchWatcher, At, Move, Act, Cur
<1>1. CASE Spawn(c)
  <2>1. PICK i \in Instances :
          /\ proc[i] = "absent" /\ proc' = [proc EXCEPT ![i] = "live"]
          /\ cpc[c] = "spawn" /\ cpc'[c] = "attach" /\ Act(c)' = i
          /\ Cur(c)'.status = "running" /\ Cur(c)'.inst = i
          /\ UNCHANGED <<rec, table, watch, history>>
    <3>1. PICK i \in Instances :
            /\ proc[i] = "absent" /\ proc' = [proc EXCEPT ![i] = "live"]
            /\ Move(c, "spawn", "attach",
                    [loc[c] EXCEPT !.act = i, !.cur.status = "running", !.cur.inst = i])
            /\ UNCHANGED <<rec, table, watch, history>>
      BY <1>1 DEF Spawn
    <3>2. LET l == [loc[c] EXCEPT !.act = i, !.cur.status = "running", !.cur.inst = i]
          IN  l.act = i /\ l.cur.status = "running" /\ l.cur.inst = i
      BY <1>t DEF Locals, Records
    <3> QED
      BY <1>t, <3>1, <3>2 DEF Move, Act, Cur
  <2>2. New(i) /\ \A d \in Callers : Act(d) # i
    BY <2>1 DEF Calm, NewInv
  <2>3. \A j \in Instances : /\ New(j) => New(j)'
                             /\ proc'[j] = "absent" => proc[j] = "absent" /\ j # i
                             /\ Dead(j) => Dead(j)'
    BY <1>t, <2>1 DEF New, watch, Dead, ExitCodes
  <2>4. \A a : (Saving(a)' <=> Saving(a)) /\ (Popping(a)' <=> Popping(a))
    <3> TAKE a
    <3>1. Saving(a)' <=> Saving(a)
      BY <1>0, <2>1 DEF Saving
    <3>2. Popping(a)' <=> Popping(a)
      BY <1>0, <2>1 DEF Popping, PopPoints, watch
    <3> QED
      BY <3>1, <3>2
  <2>5. NewInv'
    <3>1. ASSUME NEW j \in Instances, proc'[j] = "absent"
          PROVE  New(j)' /\ \A d \in Callers : Act(d)' # j
      BY <1>0, <2>1, <2>3, <3>1 DEF Calm, NewInv
    <3>2. ASSUME NEW j \in Instances, NEW d \in Callers, cpc'[d] = "attach", Act(d)' = j
          PROVE  New(j)' /\ \A e \in Callers \ {d} : Act(e)' # j
      <4>1. CASE d = c
        BY <1>0, <2>1, <2>2, <2>3, <3>2, <4>1
      <4>2. CASE d # c
        BY <1>0, <2>1, <2>2, <2>3, <3>2, <4>2 DEF Calm, NewInv
      <4> QED
        BY <4>1, <4>2
    <3> QED
      BY <3>1, <3>2 DEF NewInv
  <2>6. CopyInv'
    <3>1. CopyAt(c)'
      BY <2>1 DEF CopyAt, Copying, Looked, AbortPoints
    <3>2. ASSUME NEW d \in Callers \ {c} PROVE CopyAt(d)'
      <4>1. Dead(Act(d)) => Dead(Act(d))'
        BY <1>0, <2>3 DEF Dead
      <4> QED
        BY <1>0, <2>1, <4>1 DEF Calm, CopyInv, CopyAt, history
    <3> QED
      BY <3>1, <3>2 DEF CopyInv
  <2>7. WatchInv'
    BY <2>1 DEF Calm, WatchInv, WatchAt, watch, history
  <2>8. RecordInv'
    <3>1. Live(table)' => Live(table)
      BY <1>t, <2>1, <2>2 DEF Live, New
    <3> QED
      BY <1>0, <2>1, <2>4, <3>1 DEF Calm, RecordInv, history
  <2> QED
    BY <2>5, <2>6, <2>7, <2>8 DEF Calm
<1>2. CASE Attach(c)
  <2>1. /\ cpc[c] = "attach" /\ cpc'[c] = "save" /\ loc'[c] = loc[c] /\ table' = Act(c)
        /\ Act(c)' = Act(c) /\ Cur(c)' = Cur(c) /\ Act(c) \in Instances
        /\ UNCHANGED <<rec, proc, watch, fresh>>
    BY <1>t, <1>2 DEF Attach, At, Move, Act, Cur, IInv, HandlerInv, Holding
  <2>2. New(Act(c)) /\ \A d \in Callers \ {c} : Act(d) # Act(c)
    BY <2>1 DEF Calm, NewInv
  <2>3. \A j \in Instances : j # Act(c) => (New(j) => New(j)')
    BY <2>1 DEF New, watch
  <2>4. \A a : /\ Saving(a) => Saving(a)'
               /\ Popping(a)' <=> Popping(a)
    <3> TAKE a
    <3>1. Saving(a) => Saving(a)'
      BY <1>0, <2>1 DEF Saving
    <3>2. Popping(a)' <=> Popping(a)
      BY <1>0, <2>1 DEF Popping, PopPoints, watch
    <3> QED
      BY <3>1, <3>2
  <2>5. Saving(table)' /\ ~Popping(table)'
    <3>1. Saving(table)'
      BY <2>1 DEF Saving
    <3>2. ~Popping(Act(c))
      BY <2>1, <2>2 DEF Popping, PopPoints, New
    <3>3. ~Popping(table)'
      BY <1>0, <2>1, <3>2 DEF Popping, PopPoints, watch
    <3> QED
      BY <3>1, <3>3
  <2>6. NewInv'
    <3>1. ASSUME NEW j \in Instances, proc'[j] = "absent"
          PROVE  New(j)' /\ \A d \in Callers : Act(d)' # j
      BY <1>0, <2>1, <2>3, <3>1 DEF Calm, NewInv
    <3>2. ASSUME NEW j \in Instances, NEW d \in Callers, cpc'[d] = "attach", Act(d)' = j
          PROVE  New(j)' /\ \A e \in Callers \ {d} : Act(e)' # j
      <4>1. d # c /\ j # Act(c) /\ cpc[d] = "attach" /\ Act(d) = j
        BY <1>0, <2>1, <2>2, <3>2
      <4> QED
        BY <1>0, <2>1, <2>3, <4>1 DEF Calm, NewInv
    <3> QED
      BY <3>1, <3>2 DEF NewInv
  <2>7. CopyInv'
    <3>1. CopyAt(c)'
      BY <2>1 DEF CopyAt, Copying, Looked, AbortPoints, Calm, CopyInv
    <3>2. rec.inst # table'
      BY <2>1, <2>2 DEF New
    <3>3. \A d \in Callers : Dead(Act(d)) => Dead(Act(d))'
      BY <1>0, <2>1 DEF Dead
    <3> QED
      BY <1>0, <2>1, <3>1, <3>2, <3>3 DEF Calm, CopyInv, CopyAt
  <2>8. WatchInv'
    BY <2>1, <2>2 DEF Calm, WatchInv, WatchAt, watch, New
  <2>9. RecordInv'
    BY <1>0, <2>1, <2>5 DEF Calm, RecordInv
  <2> QED
    BY <2>6, <2>7, <2>8, <2>9 DEF Calm
<1>3. CASE LaunchWatcher(c)
  <2>1. /\ cpc[c] = "watch" /\ cpc'[c] \in {"bump", "idle"}
        /\ Act(c)' \in {None, Act(c)} /\ Act(c) \in Instances
        /\ cpc'[c] = "bump" => Cur(c)' = Cur(c)
        /\ wpc' = [wpc EXCEPT ![Act(c)] = "start"]
        /\ UNCHANGED <<rec, table, proc, wloc, history>>
    BY <1>t, <1>3
    DEF LaunchWatcher, AfterStart, At, Move, Act, Cur, IInv, HandlerInv, Holding, NoLocals
  <2>2. /\ wpc'[Act(c)] = "start"
        /\ \A w \in Instances : w # Act(c) => wpc'[w] = wpc[w]
    BY <1>t, <2>1
  <2>3. \A a : (Saving(a)' <=> Saving(a)) /\ (Popping(a)' => Popping(a))
    <3> TAKE a
    <3>1. Saving(a)' <=> Saving(a)
      BY <1>0, <2>1 DEF Saving
    <3>2. Popping(a)' => Popping(a)
      BY <1>0, <2>1, <2>2 DEF Popping, PopPoints
    <3> QED
      BY <3>1, <3>2
  <2>4. NewInv'
    <3>1. \A j \in Instances : New(j) /\ Act(c) # j => New(j)'
      BY <2>1, <2>2 DEF New
    <3>2. ASSUME NEW j \in Instances, proc'[j] = "absent"
          PROVE  New(j)' /\ \A d \in Callers : Act(d)' # j
      BY <1>0, <2>1, <3>1, <3>2 DEF Calm, NewInv
    <3>3. ASSUME NEW j \in Instances, NEW d \in Callers, cpc'[d] = "attach", Act(d)' = j
          PROVE  New(j)' /\ \A e \in Callers \ {d} : Act(e)' # j
      <4>1. d # c /\ cpc[d] = "attach" /\ Act(d) = j
        BY <1>0, <2>1, <3>3
      <4>2. New(j) /\ \A e \in Callers \ {d} : Act(e) # j
        BY <4>1 DEF Calm, NewInv
      <4> QED
        BY <1>0, <2>1, <3>1, <4>1, <4>2
    <3> QED
      BY <3>2, <3>3 DEF NewInv
  <2>5. CopyInv'
    <3>1. CopyAt(c)'
      BY <2>1 DEF CopyAt, Copying, Looked, AbortPoints, Calm, CopyInv, history
    <3>2. \A d \in Callers \ {c} : Dead(Act(d)) => Dead(Act(d))'
      BY <1>0, <2>1 DEF Dead
    <3> QED
      BY <1>0, <2>1, <3>1, <3>2 DEF Calm, CopyInv, CopyAt, history
  <2>6. WatchInv'
    BY <2>1, <2>2 DEF Calm, WatchInv, WatchAt, history
  <2>7. RecordInv'
    <3>1. Live(table)' <=> Live(table)
      BY <2>1 DEF Live
    <3> QED
      BY <1>0, <2>1, <2>3, <3>1 DEF Calm, RecordInv, history
  <2> QED
    BY <2>4, <2>5, <2>6, <2>7 DEF Calm
<1> QED
  BY <1>1, <1>2, <1>3

\* _current_record hands on the copy it made, and what it found in the table.
LEMMA ResumeKeeps ==
  ASSUME IInv, NEW c \in Callers, NEW here, Resume(c, here)
  PROVE  /\ cpc[c] = here /\ cpc'[c] \in {"idle", "status_save", "start", "stop", "get"}
         /\ \A d \in Callers \ {c} : cpc'[d] = cpc[d] /\ loc'[d] = loc[d]
         /\ cpc'[c] = "idle" => Act(c)' = None
         /\ cpc'[c] # "idle" => Act(c)' = Act(c) /\ Cur(c)' = Cur(c)
<1>t. /\ cpc \in [Callers -> Points] /\ loc \in [Callers -> Locals] /\ loc[c] \in Locals
      /\ NoLocals.act = None
  BY DEF IInv, TypeOK, NoLocals
<1>1. PICK next, l : /\ Move(c, here, next, l) /\ l.act = Act(c) /\ l.cur = Cur(c)
  <2> DEFINE m == [loc[c] EXCEPT !.op = "restart_stop", !.count = Succ(Cur(c).count)]
  <2>1. m.act = Act(c) /\ m.cur = Cur(c) /\ loc[c].act = Act(c) /\ loc[c].cur = Cur(c)
    BY <1>t DEF Locals, Act, Cur
  <2>2. Move(c, here, AfterCurrent[Op(c)], m) \/ Move(c, here, AfterCurrent[Op(c)], loc[c])
    BY DEF Resume
  <2> QED
    BY <2>1, <2>2
<1>2. cpc[c] = here /\ cpc'[c] \in {"idle", "status_save", "start", "stop", "get"}
      /\ \A d \in Callers \ {c} : cpc'[d] = cpc[d] /\ loc'[d] = loc[d]
  BY ResumeTypes DEF IInv
<1> QED
  BY <1>t, <1>1, <1>2 DEF Move, Act, Cur

\* A handler that moves on with the local variables it has, or returns.
LEMMA AtKeeps ==
  ASSUME IInv, NEW c \in Callers, NEW here, NEW next, At(c, here, next)
  PROVE  /\ cpc[c] = here /\ cpc'[c] = next
         /\ \A d \in Callers \ {c} : cpc'[d] = cpc[d] /\ loc'[d] = loc[d]
         /\ next = "idle" => Act(c)' = None
         /\ next # "idle" => Act(c)' = Act(c) /\ Cur(c)' = Cur(c)
  BY DEF At, Move, Act, Cur, IInv, TypeOK, NoLocals

\* Steps of the tool handlers that save, attach and pop nothing.
LEMMA QuietCalm ==
  ASSUME IInv, Calm, NEW c \in Callers,
         \/ Call(c) \/ GetRecord(c) \/ CurrentRaises(c) \/ GetProcess(c) \/ CurrentIsReturned(c)
         \/ CurrentHasEnded(c) \/ StatusHealthRaises(c) \/ AlreadyRunning(c) \/ NotRunning(c)
         \/ StartRefused(c) \/ SpawnFails(c) \/ StartHealth(c) \/ Terminate(c)
         \/ NothingToTerminate(c) \/ Kill(c) \/ Reap(c) \/ KillStalls(c)
  PROVE  Calm'
<1> USE Known DEF watch, history
<1>t. /\ cpc \in [Callers -> Points] /\ loc \in [Callers -> Locals] /\ loc[c] \in Locals
      /\ NoLocals.act = None /\ CopyAt(c)
  BY DEF IInv, TypeOK, NoLocals, Calm, CopyInv
<1> DEFINE Quietly ==
      /\ \A d \in Callers \ {c} : cpc'[d] = cpc[d] /\ loc'[d] = loc[d]
      /\ UNCHANGED <<rec, table, proc, watch>> /\ fresh \subseteq fresh' /\ fresh' \subseteq fresh \cup {c}
      /\ cpc[c] \notin {"attach", "save"} \cup PopPoints
      /\ cpc'[c] \notin {"attach", "save"} \cup PopPoints
      /\ Act(c)' \in {None, Act(c), table}
      /\ CopyAt(c)'
<1>1. CASE Call(c)
  <2>1. PICK o \in Calls : Move(c, "idle", "get", [NoLocals EXCEPT !.op = o])
    BY <1>1 DEF Call
  <2>2. [NoLocals EXCEPT !.op = o].act = None
    BY DEF NoLocals
  <2>3. Quietly
    BY <1>t, <1>1, <2>1, <2>2
    DEF Call, Move, Act, CopyAt, Copying, Looked, AbortPoints, PopPoints
  <2> QED
    BY <2>3, QuietMove
<1>2. CASE GetRecord(c)
  <2>1. [loc[c] EXCEPT !.cur = rec].act = Act(c) /\ [loc[c] EXCEPT !.cur = rec].cur = rec
    BY <1>t DEF Locals, Act
  <2>2. Quietly
    BY <1>t, <1>2, <2>1
    DEF GetRecord, Move, Act, Cur, CopyAt, Copying, Looked, AbortPoints, PopPoints
  <2> QED
    BY <2>2, QuietMove
<1>3. CASE CurrentRaises(c)
  <2>1. Quietly
    BY <1>t, <1>3, AtKeeps DEF CurrentRaises, CopyAt, Copying, Looked, AbortPoints, PopPoints
  <2> QED
    BY <2>1, QuietMove
<1>4. CASE GetProcess(c)
  <2>1. [loc[c] EXCEPT !.act = table].act = table /\ [loc[c] EXCEPT !.act = table].cur = Cur(c)
    BY <1>t DEF Locals, Cur
  <2>2. /\ cpc[c] \in {"peek", "start", "stop"} /\ cpc'[c] \in {"poll", "start_poll", "stop_poll"}
        /\ \A d \in Callers \ {c} : cpc'[d] = cpc[d] /\ loc'[d] = loc[d]
        /\ Act(c)' = table /\ Cur(c)' = Cur(c)
    BY <1>t, <1>4, <2>1 DEF GetProcess, Move, Act, Cur
  <2>3. CopyAt(c)'
    BY <1>t, <1>4, <2>2 DEF GetProcess, CopyAt, Copying, Looked, AbortPoints
  <2>4. Quietly
    BY <1>4, <2>2, <2>3 DEF GetProcess, PopPoints
  <2> QED
    BY <2>4, QuietMove
<1>5. CASE CurrentIsReturned(c)
  <2>1. Quietly
    BY <1>t, <1>5, ResumeKeeps
    DEF CurrentIsReturned, CopyAt, Copying, Looked, AbortPoints, PopPoints
  <2> QED
    BY <2>1, QuietMove
<1>6. CASE CurrentHasEnded(c)
  <2> DEFINE e == Ended(Cur(c), ExitStatus(Act(c)))
  <2>1. e.status # "running" /\ e.inst = None
    BY DEF Ended, ExitStatus, Records
  <2>2. [loc[c] EXCEPT !.cur = e].act = Act(c) /\ [loc[c] EXCEPT !.cur = e].cur = e
    BY <1>t DEF Locals, Act
  <2>3. Move(c, "poll", "fin_save", [loc[c] EXCEPT !.cur = e])
    BY <1>6 DEF CurrentHasEnded, Cur
  <2>4. Quietly
    BY <1>t, <1>6, <2>1, <2>2, <2>3
    DEF CurrentHasEnded, Move, Act, Cur, CopyAt, Copying, Looked, AbortPoints, PopPoints
  <2> QED
    BY <2>4, QuietMove
<1>7. CASE StatusHealthRaises(c)
  <2>1. Quietly
    BY <1>t, <1>7, AtKeeps DEF StatusHealthRaises, CopyAt, Copying, Looked, AbortPoints, PopPoints
  <2> QED
    BY <2>1, QuietMove
<1>8. CASE AlreadyRunning(c)
  <2>1. Quietly
    BY <1>t, <1>8, AtKeeps DEF AlreadyRunning, AfterStart, CopyAt, Copying, Looked, AbortPoints, PopPoints
  <2> QED
    BY <2>1, QuietMove
<1>9. CASE NotRunning(c)
  <2>1. Quietly
    BY <1>t, <1>9, AtKeeps DEF NotRunning, PollsExit, CopyAt, Copying, Looked, AbortPoints, PopPoints, Dead
  <2> QED
    BY <2>1, QuietMove
<1>10. CASE StartRefused(c)
  <2>1. Quietly
    BY <1>t, <1>10, AtKeeps DEF StartRefused, CopyAt, Copying, Looked, AbortPoints, PopPoints
  <2> QED
    BY <2>1, QuietMove
<1>11. CASE SpawnFails(c)
  <2> DEFINE l == [loc[c] EXCEPT !.cur.status = "failed"]
  <2>1. l.act = Act(c) /\ l.cur.status = "failed" /\ l.cur.inst = Cur(c).inst
    BY <1>t DEF Locals, Records, Act, Cur
  <2>2. Quietly
    BY <1>t, <1>11, <2>1
    DEF SpawnFails, Move, Act, Cur, CopyAt, Copying, Looked, AbortPoints, PopPoints, Dead
  <2> QED
    BY <2>2, QuietMove
<1>12. CASE StartHealth(c)
  <2>1. Quietly
    BY <1>t, <1>12, AtKeeps DEF StartHealth, CopyAt, Copying, Looked, AbortPoints, PopPoints
  <2> QED
    BY <2>1, QuietMove
<1>13. CASE Terminate(c)
  <2>1. Quietly
    BY <1>t, <1>13, AtKeeps DEF Terminate, CopyAt, Copying, Looked, AbortPoints, PopPoints
  <2> QED
    BY <2>1, QuietMove
<1>14. CASE NothingToTerminate(c)
  <2>1. Quietly
    BY <1>t, <1>14, AtKeeps DEF NothingToTerminate, CopyAt, Copying, Looked, AbortPoints, PopPoints
  <2> QED
    BY <2>1, QuietMove
<1>15. CASE Kill(c)
  <2>1. Quietly
    BY <1>t, <1>15, AtKeeps DEF Kill, CopyAt, Copying, Looked, AbortPoints, PopPoints
  <2> QED
    BY <2>1, QuietMove
<1>16. CASE Reap(c)
  <2>1. Quietly
    BY <1>t, <1>16, AtKeeps DEF Reap, CopyAt, Copying, Looked, AbortPoints, PopPoints
  <2> QED
    BY <2>1, QuietMove
<1>17. CASE KillStalls(c)
  <2>1. Quietly
    BY <1>t, <1>17, AtKeeps DEF KillStalls, CopyAt, Copying, Looked, AbortPoints, PopPoints
  <2> QED
    BY <2>1, QuietMove
<1> QED
  BY <1>1, <1>2, <1>3, <1>4, <1>5, <1>6, <1>7, <1>8, <1>9, <1>10, <1>11, <1>12, <1>13, <1>14,
     <1>15, <1>16, <1>17

\* Steps of the tool handlers that save.
SavesARecord(c) ==
  \/ SaveEnded(c) \/ StatusSaves(c) \/ SaveFailed(c) \/ SaveStarted(c)
  \/ SaveAborted(c) \/ SaveRestartCount(c) \/ SaveStopped(c)

\* Each saves what its handler has made of a copy that is the record.
LEMMA SavingCalm ==
  ASSUME IInv, Calm, NEW c \in Callers, ~clobbered', SavesARecord(c)
  PROVE  Calm'
<1> USE Known DEF watch
<1>t. /\ cpc \in [Callers -> Points] /\ loc \in [Callers -> Locals] /\ loc[c] \in Locals
      /\ NoLocals.act = None /\ Cur(c) \in Records /\ CopyAt(c)
      /\ \A st \in Statuses : /\ Ended(Cur(c), st) \in Records
                              /\ Ended(Cur(c), st).inst = None /\ Ended(Cur(c), st).status = st
      /\ cpc[c] \in Ending => Act(c) = None \/ Dead(Act(c))
  BY RecordTypes DEF IInv, TypeOK, NoLocals, Calm, CopyInv, Ended, Records, HandlerInv
<1>0. \A r : Save(c, r) => c \in fresh /\ rec' = r /\ fresh' = {c}
  BY DEF Save, IInv, TypeOK
\* A thread that has a fresh copy and a dead process saves no end of a live one.
<1>d. ASSUME c \in fresh, cpc[c] \in Looked \cup {"abort_save"}, Act(c) = None \/ Dead(Act(c))
      PROVE  ~(Live(table) /\ rec.status = "running" /\ rec.inst = table)
  BY <1>t, <1>d DEF CopyAt, Copying, AbortPoints
<1>1. CASE SaveEnded(c)
  <2>1. cpc[c] = "fin_save" /\ cpc'[c] = "fin_pop" /\ Act(c)' = Act(c) /\ Cur(c)' = Cur(c)
        /\ (\A d \in Callers \ {c} : cpc'[d] = cpc[d] /\ loc'[d] = loc[d])
        /\ Save(c, Cur(c)) /\ UNCHANGED <<table, proc, watch>>
    BY <1>1, AtKeeps DEF SaveEnded
  <2>2. ~(Live(table) /\ rec.status = "running" /\ rec.inst = table)
    BY <1>t, <1>0, <1>d, <2>1 DEF Looked, Ending
  <2>3. CopyAt(c)'
    BY <1>0, <2>1 DEF CopyAt, Copying, Looked, AbortPoints
  <2>4. Cur(c).status # "running" /\ Cur(c).inst \in {None, rec.inst}
    BY <1>t, <1>0, <2>1 DEF CopyAt
  <2> QED
    BY <1>t, <2>1, <2>2, <2>3, <2>4, SaveMove DEF PopPoints
<1>2. CASE StatusSaves(c)
  <2>1. cpc[c] = "status_save" /\ cpc'[c] = "idle" /\ Act(c)' = None
        /\ (\A d \in Callers \ {c} : cpc'[d] = cpc[d] /\ loc'[d] = loc[d])
        /\ Save(c, Cur(c)) /\ UNCHANGED <<table, proc, watch>>
    BY <1>2, AtKeeps DEF StatusSaves
  <2>2. Cur(c) = rec /\ CopyAt(c)'
    BY <1>t, <1>0, <2>1 DEF CopyAt, Copying, Looked, AbortPoints
  <2> QED
    BY <1>t, <2>1, <2>2, SaveMove DEF PopPoints
<1>3. CASE SaveFailed(c)
  <2>1. cpc[c] = "fail_save" /\ cpc'[c] = "idle" /\ Act(c)' = None
        /\ (\A d \in Callers \ {c} : cpc'[d] = cpc[d] /\ loc'[d] = loc[d])
        /\ Save(c, Cur(c)) /\ UNCHANGED <<table, proc, watch>>
    BY <1>3, AtKeeps DEF SaveFailed
  <2>2. /\ Act(c) = None \/ Dead(Act(c))
        /\ Cur(c).status # "running" /\ Cur(c).inst \in {None, rec.inst}
    BY <1>t, <1>0, <2>1 DEF CopyAt
  <2>3. ~(Live(table) /\ rec.status = "running" /\ rec.inst = table)
    BY <1>0, <1>d, <2>1, <2>2 DEF Looked
  <2>4. CopyAt(c)'
    BY <2>1 DEF CopyAt, Copying, Looked, AbortPoints
  <2> QED
    BY <1>t, <2>1, <2>2, <2>3, <2>4, SaveMove DEF PopPoints
<1>4. CASE SaveStarted(c)
  <2>1. /\ \/ cpc[c] = "save" /\ cpc'[c] = "health"
           \/ cpc[c] = "save_again" /\ cpc'[c] = "watch"
        /\ Act(c)' = Act(c) /\ Cur(c)' = Cur(c)
        /\ \A d \in Callers \ {c} : cpc'[d] = cpc[d] /\ loc'[d] = loc[d]
        /\ Save(c, Cur(c)) /\ UNCHANGED <<table, proc, watch>>
    BY <1>4, AtKeeps DEF SaveStarted
  <2>2. CopyAt(c)'
    BY <1>t, <1>0, <2>1 DEF CopyAt, Copying, Looked, AbortPoints
  <2>3. /\ cpc[c] = "save" => Cur(c).status = "running" /\ Cur(c).inst = Act(c)
        /\ cpc[c] = "save_again" => Cur(c) = rec
    BY <1>t, <1>0, <2>1 DEF CopyAt, Copying
  <2> QED
    BY <1>t, <2>1, <2>2, <2>3, SaveMove DEF PopPoints
<1>5. CASE SaveAborted(c)
  <2> DEFINE r == Ended(Cur(c), "failed")
  <2>1. cpc[c] = "abort_save" /\ cpc'[c] = "abort_pop" /\ Act(c)' = Act(c) /\ Cur(c)' = Cur(c)
        /\ (\A d \in Callers \ {c} : cpc'[d] = cpc[d] /\ loc'[d] = loc[d])
        /\ Save(c, r) /\ UNCHANGED <<table, proc, watch>>
    BY <1>5, AtKeeps DEF SaveAborted
  <2>2. ~(Live(table) /\ rec.status = "running" /\ rec.inst = table)
    BY <1>t, <1>0, <1>d, <2>1 DEF Ending
  <2>3. CopyAt(c)'
    BY <2>1 DEF CopyAt, Copying, Looked, AbortPoints
  <2>4. r \in Records /\ r.status # "running" /\ r.inst = None
    BY <1>t DEF Statuses
  <2> QED
    BY <2>1, <2>2, <2>3, <2>4, SaveMove DEF PopPoints
<1>6. CASE SaveRestartCount(c)
  <2> DEFINE r == [Cur(c) EXCEPT !.count = loc[c].count]
  <2>1. cpc[c] = "bump" /\ cpc'[c] = "idle" /\ Act(c)' = None
        /\ (\A d \in Callers \ {c} : cpc'[d] = cpc[d] /\ loc'[d] = loc[d])
        /\ Save(c, r) /\ UNCHANGED <<table, proc, watch>>
    BY <1>6, AtKeeps DEF SaveRestartCount
  <2>2. Cur(c) = rec /\ CopyAt(c)'
    BY <1>t, <1>0, <2>1 DEF CopyAt, Copying, Looked, AbortPoints
  <2>3. r \in Records /\ r.status = Cur(c).status /\ r.inst = Cur(c).inst
    BY <1>t, LocalTypes DEF Records
  <2> QED
    BY <2>1, <2>2, <2>3, SaveMove DEF PopPoints
<1>7. CASE SaveStopped(c)
  <2> DEFINE r == Ended(Cur(c), "stopped")
  <2>1. cpc[c] = "stop_save" /\ cpc'[c] = "stop_pop" /\ Act(c)' = Act(c) /\ Cur(c)' = Cur(c)
        /\ (\A d \in Callers \ {c} : cpc'[d] = cpc[d] /\ loc'[d] = loc[d])
        /\ Save(c, r) /\ UNCHANGED <<table, proc, watch>>
    BY <1>7, AtKeeps DEF SaveStopped
  <2>2. ~(Live(table) /\ rec.status = "running" /\ rec.inst = table)
    BY <1>t, <1>0, <1>d, <2>1 DEF Ending, Looked
  <2>3. CopyAt(c)'
    BY <2>1 DEF CopyAt, Copying, Looked, AbortPoints
  <2>4. r \in Records /\ r.status # "running" /\ r.inst = None
    BY <1>t DEF Statuses
  <2> QED
    BY <2>1, <2>2, <2>3, <2>4, SaveMove DEF PopPoints
<1> QED
  BY <1>1, <1>2, <1>3, <1>4, <1>5, <1>6, <1>7 DEF SavesARecord

\* Steps of the tool handlers that pop.
LEMMA PoppingCalm ==
  ASSUME IInv, Calm, NEW c \in Callers, ~clobbered', PopEnded(c) \/ PopAborted(c) \/ PopStopped(c)
  PROVE  Calm'
<1> USE Known DEF watch
<1>t. /\ cpc \in [Callers -> Points] /\ loc \in [Callers -> Locals] /\ loc[c] \in Locals
      /\ CopyAt(c)
  BY DEF IInv, TypeOK, Calm, CopyInv
<1>0. Pop(Act(c)) /\ UNCHANGED <<rec, proc, watch, fresh>>
  BY DEF PopEnded, PopAborted, PopStopped, Pop
<1>1. CASE PopEnded(c)
  <2>1. CopyAt(c)'
    BY <1>t, <1>0, <1>1, ResumeKeeps DEF PopEnded, CopyAt, Copying, Looked, AbortPoints
  <2> QED
    BY <1>0, <1>1, <2>1, ResumeKeeps, PopMove DEF PopEnded, PopPoints
<1>2. CASE PopAborted(c)
  <2>1. CopyAt(c)'
    BY <1>2, AtKeeps DEF PopAborted, CopyAt, Copying, Looked, AbortPoints
  <2> QED
    BY <1>0, <1>2, <2>1, AtKeeps, PopMove DEF PopAborted, PopPoints
<1>3. CASE PopStopped(c)
  <2>1. /\ cpc[c] = "stop_pop" /\ cpc'[c] \in {"get", "idle"} /\ Act(c)' \in {None, Act(c)}
        /\ \A d \in Callers \ {c} : cpc'[d] = cpc[d] /\ loc'[d] = loc[d]
    <3>1. CASE Op(c) = "restart_stop"
      <4>1. [loc[c] EXCEPT !.op = "restart_start"].act = Act(c)
        BY <1>t DEF Locals, Act
      <4> QED
        BY <1>t, <1>3, <3>1, <4>1 DEF PopStopped, Move, Act
    <3>2. CASE Op(c) # "restart_stop"
      BY <1>3, <3>2, AtKeeps DEF PopStopped
    <3> QED
      BY <3>1, <3>2
  <2>2. CopyAt(c)'
    BY <2>1 DEF CopyAt, Copying, Looked, AbortPoints
  <2> QED
    BY <1>0, <2>1, <2>2, PopMove DEF PopPoints
<1> QED
  BY <1>1, <1>2, <1>3

\* While nothing is clobbered, every step keeps what the threads know true.
RecordsIInv == IInv /\ (clobbered \/ Calm)

\* A service that was never started has a true record.
LEMMA RecordsInit == Init => RecordsIInv
<1> SUFFICES ASSUME Init PROVE Calm
  BY InitInv DEF RecordsIInv
<1> USE NoneIsNoInstance DEF Init, DefaultRecord, NoLocals, NoWatch, Act, Cur
<1>1. NewInv
  BY DEF NewInv, New
<1>2. CopyInv
  BY DEF CopyInv, CopyAt, Copying, Looked, AbortPoints
<1>3. WatchInv
  BY DEF WatchInv, WatchAt
<1>4. RecordInv
  BY DEF RecordInv, Live
<1> QED
  BY <1>1, <1>2, <1>3, <1>4 DEF Calm

\* Once an update was lost, that is not forgotten.
LEMMA ClobberedIsForEver == ASSUME IInv, Next, clobbered PROVE clobbered'
  BY DEF IInv, TypeOK, Next, Call, CallerStep, CurrentStep, StartStep, StopStep, WatcherStep, ProcessExits,
         GetRecord, CurrentRaises, GetProcess, CurrentIsReturned, CurrentHasEnded, SaveEnded, PopEnded,
         StatusSaves, StatusHealthRaises, AlreadyRunning, NotRunning, StartRefused, SpawnFails,
         SaveFailed, Spawn, Attach, SaveStarted, StartHealth, LaunchWatcher, SaveAborted, PopAborted,
         SaveRestartCount, Terminate, NothingToTerminate, Kill, Reap, KillStalls, SaveStopped,
         PopStopped, WatcherLookup, WatcherReaps, WatcherChecks, WatcherSaves, WatcherPops,
         Save, Pop, history

\* Every step keeps the invariant.
LEMMA RecordsStep == RecordsIInv /\ [Next]_vars => RecordsIInv'
<1> SUFFICES ASSUME RecordsIInv, [Next]_vars PROVE RecordsIInv'
  OBVIOUS
<1>1. IInv /\ IInv'
  BY NextInv DEF RecordsIInv
<1> SUFFICES ASSUME ~clobbered' PROVE Calm'
  BY <1>1 DEF RecordsIInv
<1>2. CASE UNCHANGED vars
  <2>1. Calm
    BY <1>2 DEF RecordsIInv, vars, history
  <2>2. \A a : Popping(a)' <=> Popping(a)
    BY <1>2 DEF vars, watch, Popping, Act
  <2>3. \A a : (Saving(a)' <=> Saving(a)) /\ (New(a)' <=> New(a))
    BY <1>2 DEF vars, watch, Saving, Act, New
  <2>4. NewInv'
    BY <1>2, <2>1, <2>3 DEF vars, Calm, NewInv, Act
  <2>5. CopyInv' /\ WatchInv'
    BY <1>2, <2>1 DEF vars, watch, history, Calm, CopyInv, CopyAt, WatchInv, WatchAt, Act, Cur, Dead
  <2>6. RecordInv'
    BY <1>2, <2>1, <2>2, <2>3 DEF vars, history, Calm, RecordInv, Live
  <2> QED
    BY <2>4, <2>5, <2>6 DEF Calm
<1>3. CASE Next
  <2>1. Calm
    BY <1>1, <1>3, ClobberedIsForEver DEF RecordsIInv
  <2>2. ASSUME NEW c \in Callers, Call(c) \/ CallerStep(c) PROVE Calm'
    BY <1>1, <2>1, <2>2, QuietCalm, SavingCalm, PoppingCalm, StartingCalm
    DEF CallerStep, CurrentStep, StartStep, StopStep, SavesARecord
  <2>3. ASSUME NEW i \in Instances, WatcherStep(i) \/ ProcessExits(i) PROVE Calm'
    BY <1>1, <2>1, <2>3, WatcherCalm, ExitCalm
  <2> QED
    BY <1>3, <2>2, <2>3 DEF Next
<1> QED
  BY <1>2, <1>3

\* When no handler is at work and no update was lost, the record is what the
\* processes are (manager.py:200-277), whatever clients have called and however
\* processes have ended.
THEOREM RecordsStayTrue == Spec => []RecordsAreTrue
<1>1. RecordsIInv => RecordsAreTrue
  <2> SUFFICES ASSUME RecordsIInv, Quiet, ~clobbered
               PROVE  /\ rec.status # "running" => \A i \in Instances : ~Live(i)
                      /\ rec.status = "running" => rec.inst # None /\ table = rec.inst
    BY DEF RecordsAreTrue, NotRunningMeansGone, RunningMeansAttached
  <2>1. \A a : ~Saving(a)
    BY DEF Quiet, Saving
  <2>2. ASSUME NEW i \in Instances, Live(i) PROVE table = i
    BY <2>2 DEF RecordsIInv, IInv, NoSilentOrphan, Quiet
  <2> QED
    BY <2>1, <2>2 DEF RecordsIInv, Calm, RecordInv
<1> QED
  BY <1>1, RecordsInit, RecordsStep, PTL DEF Spec

------------------------------------------------------------------------------
\* restart_service writes a count it took before its stop and its start, so two
\* restarts at a time may count one; a single client's restarts do not, nor does
\* any number of clients that restart nothing.
OneClient == \A c, d \in Callers : c = d
NoRestartsRace == OneClient \/ "restart" \notin Calls

\* What a handler and a watcher know of restart_count.
CountAt(c) ==
  /\ (c \in fresh \/ OneClient) /\ cpc[c] \notin {"idle", "get"} => Cur(c).count = rec.count
  /\ Op(c) = "restart" => OneClient
  /\ Op(c) \in {"restart_stop", "restart_start"} => OneClient /\ loc[c].count >= rec.count
  /\ cpc[c] = "bump" => Op(c) = "restart_start"
CountInv ==
  /\ \A c \in Callers : CountAt(c)
  /\ \A w \in Instances : w \in fresh /\ wpc[w] = "save" => wloc[w].rec.count = rec.count

\* A handler that moves on has the local variables it had, or none.
LEMMA AtLocals ==
  ASSUME IInv, NEW c \in Callers, NEW here, NEW next, At(c, here, next)
  PROVE  /\ cpc[c] = here /\ cpc'[c] = next
         /\ loc'[c] = IF next = "idle" THEN NoLocals ELSE loc[c]
         /\ \A d \in Callers \ {c} : cpc'[d] = cpc[d] /\ loc'[d] = loc[d]
  BY DEF At, Move, IInv, TypeOK

\* The count a handler has, when it moves on without a save.
LEMMA QuietCount ==
  ASSUME IInv, CountInv, NoRestartsRace, NEW c \in Callers, Call(c) \/ CallerStep(c),
         ~SavesARecord(c)
  PROVE  CountAt(c)' /\ UNCHANGED rec /\ fresh' \subseteq fresh \cup {c}
<1>t. /\ loc[c] \in Locals /\ CountAt(c) /\ NoLocals.op = "list"
      /\ \A l \in Locals : l.op \in Ops /\ l.cur \in Records /\ l.count \in 0..MaxRestarts
      /\ \A r \in Records : r.count \in Nat
      /\ cpc \in [Callers -> Points] /\ loc \in [Callers -> Locals]
  BY BoundIsNat DEF IInv, TypeOK, CountInv, NoLocals, Locals, Records
<1>u. UNCHANGED rec /\ fresh' \subseteq fresh \cup {c}
  BY DEF Call, CallerStep, CurrentStep, StartStep, StopStep, SavesARecord, GetRecord, CurrentRaises,
         GetProcess, CurrentIsReturned, CurrentHasEnded, PopEnded, StatusHealthRaises,
         AlreadyRunning, NotRunning, StartRefused, SpawnFails, Spawn, Attach, StartHealth,
         LaunchWatcher, PopAborted, Terminate, NothingToTerminate, Kill, Reap, KillStalls,
         PopStopped, Pop, history
<1> USE <1>u
<1>a. ASSUME NEW here, NEW next, At(c, here, next), here \notin {"idle", "get"} \/ next = "idle",
             next = "bump" => Op(c) = "restart_start", UNCHANGED fresh
      PROVE  CountAt(c)'
  BY <1>t, <1>a, AtLocals DEF CountAt, Op, Cur
<1>r. ASSUME NEW here, here \notin {"idle", "get"}, Resume(c, here), UNCHANGED fresh
      PROVE  CountAt(c)'
  <2>1. cpc[c] = here /\ cpc'[c] \in {"idle", "status_save", "start", "stop", "get"}
    BY <1>r, ResumeKeeps
  <2>2. CASE Op(c) = "restart"
    <3> DEFINE l == [loc[c] EXCEPT !.op = "restart_stop", !.count = Succ(Cur(c).count)]
    <3>1. l.op = "restart_stop" /\ l.count = Succ(Cur(c).count) /\ l.cur = Cur(c)
      BY <1>t DEF Locals, Cur
    <3>2. OneClient /\ Cur(c).count = rec.count
      BY <1>t, <1>r, <2>1, <2>2 DEF CountAt
    <3>3. Succ(Cur(c).count) >= rec.count
      BY <1>t, <3>2, BoundIsNat DEF Succ, Cur, Records
    <3>4. Move(c, here, AfterCurrent[Op(c)], l)
      BY <1>r, <2>2 DEF Resume
    <3>5. loc'[c] \in {l, NoLocals} /\ (cpc'[c] # "idle" => loc'[c] = l)
      BY <1>t, <3>4 DEF Move
    <3> QED
      BY <1>t, <2>1, <3>1, <3>2, <3>3, <3>5 DEF CountAt, Op, Cur
  <2>3. CASE Op(c) # "restart"
    <3>1. loc'[c] \in {loc[c], NoLocals} /\ (cpc'[c] # "idle" => loc'[c] = loc[c])
      BY <1>t, <1>r, <2>3 DEF Resume, Move
    <3> QED
      BY <1>t, <1>r, <2>1, <3>1 DEF CountAt, Op, Cur
  <2> QED
    BY <2>2, <2>3
<1>1. CASE Call(c)
  <2>1. PICK o \in Calls : Move(c, "idle", "get", [NoLocals EXCEPT !.op = o])
    BY <1>1 DEF Call
  <2>2. [NoLocals EXCEPT !.op = o].op = o
    BY DEF NoLocals
  <2> QED
    BY <1>t, <2>1, <2>2, CallsAreTools DEF Move, CountAt, Op, Tools, NoRestartsRace
<1>2. CASE GetRecord(c)
  <2> DEFINE l == [loc[c] EXCEPT !.cur = rec]
  <2>1. l.cur = rec /\ l.op = Op(c) /\ l.count = loc[c].count
    BY <1>t DEF Locals, Op
  <2> QED
    BY <1>t, <1>2, <2>1 DEF GetRecord, Move, CountAt, Op, Cur
<1>3. CASE GetProcess(c)
  <2> DEFINE l == [loc[c] EXCEPT !.act = table]
  <2>1. l.cur = Cur(c) /\ l.op = Op(c) /\ l.count = loc[c].count
    BY <1>t DEF Locals, Op, Cur
  <2> QED
    BY <1>t, <1>3, <2>1 DEF GetProcess, Move, CountAt, Op, Cur, history
<1>4. CASE CurrentHasEnded(c)
  <2> DEFINE e == Ended(Cur(c), ExitStatus(Act(c)))
             l == [loc[c] EXCEPT !.cur = e]
  <2>1. e.count = Cur(c).count
    BY <1>t DEF Ended, Cur, Records
  <2>2. l.cur = e /\ l.op = Op(c) /\ l.count = loc[c].count
    BY <1>t DEF Locals, Op
  <2>3. Move(c, "poll", "fin_save", l) /\ UNCHANGED fresh
    BY <1>4 DEF CurrentHasEnded, Cur, history
  <2> QED
    BY <1>t, <2>1, <2>2, <2>3 DEF Move, CountAt, Op, Cur
<1>5. CASE SpawnFails(c)
  <2> DEFINE l == [loc[c] EXCEPT !.cur.status = "failed"]
  <2>1. l.cur.count = Cur(c).count /\ l.op = Op(c) /\ l.count = loc[c].count
    BY <1>t DEF Locals, Records, Op, Cur
  <2> QED
    BY <1>t, <1>5, <2>1 DEF SpawnFails, Move, CountAt, Op, Cur, history
<1>6. CASE Spawn(c)
  <2>1. PICK i \in Instances :
          /\ Move(c, "spawn", "attach",
                  [loc[c] EXCEPT !.act = i, !.cur.status = "running", !.cur.inst = i])
          /\ UNCHANGED fresh
    BY <1>6 DEF Spawn, history
  <2> DEFINE l == [loc[c] EXCEPT !.act = i, !.cur.status = "running", !.cur.inst = i]
  <2>2. l.cur.count = Cur(c).count /\ l.op = Op(c) /\ l.count = loc[c].count
    BY <1>t DEF Locals, Records, Op, Cur
  <2> QED
    BY <1>t, <2>1, <2>2 DEF Move, CountAt, Op, Cur
<1>7. CASE PopStopped(c)
  <2>1. CASE Op(c) = "restart_stop"
    <3> DEFINE l == [loc[c] EXCEPT !.op = "restart_start"]
    <3>1. l.op = "restart_start" /\ l.count = loc[c].count /\ l.cur = Cur(c)
      BY <1>t DEF Locals, Cur
    <3> QED
      BY <1>t, <1>7, <2>1, <3>1 DEF PopStopped, Move, CountAt, Op, Cur, Pop
  <2>2. CASE Op(c) # "restart_stop"
    BY <1>7, <1>a, <2>2 DEF PopStopped, Pop
  <2> QED
    BY <2>1, <2>2
<1>8. CASE CurrentIsReturned(c)
  BY <1>8, <1>r DEF CurrentIsReturned, history
<1>9. CASE PopEnded(c)
  BY <1>9, <1>r DEF PopEnded, Pop
<1>10. CASE AlreadyRunning(c) \/ LaunchWatcher(c)
  BY <1>10, <1>a DEF AlreadyRunning, LaunchWatcher, AfterStart, history
<1>11. CASE CurrentRaises(c) \/ StatusHealthRaises(c) \/ NotRunning(c) \/ StartRefused(c)
            \/ StartHealth(c) \/ Terminate(c) \/ NothingToTerminate(c) \/ Kill(c) \/ KillStalls(c)
  BY <1>11, <1>a
  DEF CurrentRaises, StatusHealthRaises, NotRunning, StartRefused, StartHealth, Terminate,
      NothingToTerminate, Kill, KillStalls, history
<1>12. CASE Reap(c) \/ Attach(c) \/ PopAborted(c)
  BY <1>12, <1>a DEF Reap, Attach, PopAborted, Pop, history
<1> QED
  BY <1>1, <1>2, <1>3, <1>4, <1>5, <1>6, <1>7, <1>8, <1>9, <1>10, <1>11, <1>12
  DEF CallerStep, CurrentStep, StartStep, StopStep, SavesARecord

\* The count a handler saves.
LEMMA SaveCount ==
  ASSUME IInv, CountInv, NEW c \in Callers, ~clobbered', SavesARecord(c)
  PROVE  /\ CountAt(c)' /\ c \in fresh /\ fresh' = {c} /\ rec'.count >= rec.count
         /\ rec'.count = rec.count \/ OneClient
<1>t. /\ loc[c] \in Locals /\ CountAt(c) /\ NoLocals.op = "list"
      /\ Cur(c) \in Records /\ loc[c].count \in Nat /\ rec.count \in Nat
      /\ \A r \in Records : \A st : Ended(r, st).count = r.count
      /\ cpc \in [Callers -> Points] /\ loc \in [Callers -> Locals]
  BY BoundIsNat DEF IInv, TypeOK, CountInv, NoLocals, Locals, Records, Ended, Cur
<1>0. \A r : Save(c, r) => c \in fresh /\ rec' = r /\ fresh' = {c}
  BY DEF Save, IInv, TypeOK
<1>1. CASE SaveRestartCount(c)
  <2>1. [Cur(c) EXCEPT !.count = loc[c].count].count = loc[c].count
    BY <1>t DEF Records
  <2>2. At(c, "bump", "idle") /\ rec'.count = loc[c].count /\ c \in fresh /\ fresh' = {c}
    BY <1>0, <1>1, <2>1 DEF SaveRestartCount
  <2>3. cpc[c] = "bump" /\ cpc'[c] = "idle" /\ loc'[c] = NoLocals
    BY <2>2, AtLocals
  <2>4. OneClient /\ loc[c].count >= rec.count
    BY <1>t, <2>3 DEF CountAt
  <2>5. CountAt(c)'
    BY <1>t, <2>3 DEF CountAt, Op
  <2> QED
    BY <2>2, <2>4, <2>5
<1>2. CASE ~SaveRestartCount(c)
  <2>1. PICK here, next, r :
          /\ At(c, here, next) /\ here \notin {"idle", "get"} /\ next # "bump"
          /\ Save(c, r) /\ r.count = Cur(c).count
    BY <1>t, <1>2
    DEF SavesARecord, SaveEnded, StatusSaves, SaveFailed, SaveStarted, SaveAborted, SaveStopped
  <2>2. /\ cpc[c] = here /\ cpc'[c] = next /\ loc'[c] = IF next = "idle" THEN NoLocals ELSE loc[c]
    BY <2>1, AtLocals
  <2>3. rec'.count = Cur(c).count /\ rec'.count = rec.count /\ c \in fresh /\ fresh' = {c}
    BY <1>t, <1>0, <2>1, <2>2 DEF CountAt
  <2>4. rec'.count >= rec.count
    BY <1>t, <2>3
  <2>5. CountAt(c)'
    <3>1. CASE next = "idle"
      BY <1>t, <2>2, <3>1 DEF CountAt, Op
    <3>2. CASE next # "idle"
      BY <1>t, <2>1, <2>2, <2>3, <3>2 DEF CountAt, Op, Cur
    <3> QED
      BY <3>1, <3>2
  <2> QED
    BY <2>3, <2>4, <2>5
<1> QED
  BY <1>1, <1>2

\* While nothing is clobbered, no step lowers the count.
LEMMA CountStep ==
  ASSUME IInv, CountInv, NoRestartsRace, Next, ~clobbered'
  PROVE  CountInv' /\ rec'.count >= rec.count
<1>t. /\ rec.count \in Nat /\ fresh \subseteq Callers \cup Instances
      /\ wpc \in [Instances -> WatcherPoints]
      /\ wloc \in [Instances -> [act : Instances \cup {None}, rec : Records]]
  BY BoundIsNat DEF IInv, TypeOK, Records
<1>1. ASSUME NEW c \in Callers, Call(c) \/ CallerStep(c)
      PROVE  CountInv' /\ rec'.count >= rec.count
  <2>1. /\ CountAt(c)' /\ rec'.count >= rec.count /\ (rec'.count = rec.count \/ OneClient)
        /\ (rec' = rec /\ fresh' \subseteq fresh \cup {c}) \/ fresh' = {c}
    <3>1. CASE SavesARecord(c)
      BY <3>1, SaveCount
    <3>2. CASE ~SavesARecord(c)
      BY <1>t, <1>1, <3>2, QuietCount
    <3> QED
      BY <3>1, <3>2
  <2>2. /\ \A d \in Callers \ {c} : cpc'[d] = cpc[d] /\ loc'[d] = loc[d]
        /\ wloc' = wloc /\ \A w \in Instances : wpc'[w] = "save" => wpc[w] = "save"
    <3>1. CASE PopEnded(c) \/ CurrentIsReturned(c)
      BY <3>1, ResumeKeeps DEF PopEnded, CurrentIsReturned, watch
    <3>2. CASE ~(PopEnded(c) \/ CurrentIsReturned(c))
      BY <1>t, <1>1, <3>2
      DEF IInv, TypeOK, Call, CallerStep, CurrentStep, StartStep, StopStep, GetRecord, CurrentRaises,
          GetProcess, CurrentHasEnded, SaveEnded, StatusSaves, StatusHealthRaises,
          AlreadyRunning, NotRunning, StartRefused, SpawnFails, SaveFailed, Spawn, Attach,
          SaveStarted, StartHealth, LaunchWatcher, SaveAborted, PopAborted, SaveRestartCount,
          Terminate, NothingToTerminate, Kill, Reap, KillStalls, SaveStopped, PopStopped,
          At, Move, watch
    <3> QED
      BY <3>1, <3>2
  <2>3. ASSUME NEW d \in Callers \ {c} PROVE CountAt(d)'
    <3>1. ~OneClient
      BY <2>3 DEF OneClient
    <3> QED
      BY <2>1, <2>2, <3>1 DEF CountInv, CountAt, Op, Cur
  <2>4. \A w \in Instances : w \in fresh' /\ wpc'[w] = "save" => wloc'[w].rec.count = rec'.count
    BY <2>1, <2>2, ThreadsDiffer DEF CountInv
  <2> QED
    BY <2>1, <2>3, <2>4 DEF CountInv
<1>2. ASSUME NEW w \in Instances, WatcherStep(w) \/ ProcessExits(w)
      PROVE  CountInv' /\ rec'.count >= rec.count
  <2>1. UNCHANGED <<cpc, loc>> /\ \A c \in Callers : Op(c)' = Op(c) /\ Cur(c)' = Cur(c)
    BY <1>2
    DEF WatcherStep, WatcherLookup, WatcherReaps, WatcherChecks, WatcherSaves, WatcherPops,
        WatcherMove, ProcessExits, Op, Cur
  <2>2. /\ rec'.count = rec.count /\ fresh' \subseteq fresh \cup {w}
        /\ \A v \in Instances : v \in fresh' /\ wpc'[v] = "save" => wloc'[v].rec.count = rec'.count
    <3>1. CASE WatcherChecks(w)
      <4>1. Ended(rec, ExitStatus(wloc[w].act)).count = rec.count
        BY DEF Ended, IInv, TypeOK, Records
      <4>2. /\ rec' = rec /\ fresh' = fresh \cup {w}
            /\ wpc'[w] = "save" => wloc'[w].rec = Ended(rec, ExitStatus(wloc[w].act))
            /\ \A v \in Instances \ {w} : wpc'[v] = wpc[v] /\ wloc'[v] = wloc[v]
        BY <1>t, <3>1 DEF WatcherChecks, WatcherMove
      <4> QED
        BY <4>1, <4>2 DEF CountInv
    <3>2. CASE WatcherSaves(w)
      <4>1. /\ w \in fresh /\ wpc[w] = "save" /\ rec' = wloc[w].rec /\ fresh' = {w} /\ wpc'[w] = "pop"
        BY <1>t, <3>2 DEF WatcherSaves, WatcherMove, Save, IInv, TypeOK
      <4> QED
        BY <4>1 DEF CountInv
    <3>3. CASE WatcherLookup(w) \/ WatcherReaps(w) \/ WatcherPops(w) \/ ProcessExits(w)
      <4>1. /\ UNCHANGED <<rec, fresh>> /\ (wpc'[w] = "save" => wpc[w] = "save" /\ wloc'[w] = wloc[w])
            /\ \A v \in Instances \ {w} : wpc'[v] = wpc[v] /\ wloc'[v] = wloc[v]
        BY <1>t, <3>3
        DEF WatcherLookup, WatcherReaps, WatcherPops, WatcherMove, ProcessExits, watch, history, Pop
      <4> QED
        BY <4>1 DEF CountInv
    <3> QED
      BY <1>2, <3>1, <3>2, <3>3 DEF WatcherStep
  <2>3. \A c \in Callers : CountAt(c)'
    <3>1. \A c \in Callers : c \in fresh' => c \in fresh
      BY <2>2, ThreadsDiffer
    <3> QED
      BY <2>1, <2>2, <3>1 DEF CountInv, CountAt
  <2> QED
    BY <1>t, <2>2, <2>3 DEF CountInv
<1> QED
  BY <1>1, <1>2 DEF Next

\* restart_count never drops unless an update was lost (manager.py:137-154), for
\* one client at a time, and for any number of them that restart nothing.
THEOREM RestartsAreCounted == ASSUME NoRestartsRace PROVE Spec => RestartCountIsKept
<1> DEFINE Inv == IInv /\ (clobbered \/ CountInv)
<1>1. Init => Inv
  BY InitInv DEF Init, CountInv, CountAt, Op, NoLocals
<1>2. Inv /\ [Next]_vars => Inv' /\ (clobbered' \/ rec'.count >= rec.count)
  <2> SUFFICES ASSUME Inv, [Next]_vars, ~clobbered' PROVE CountInv' /\ rec'.count >= rec.count
    BY NextInv
  <2>1. CASE UNCHANGED vars
    BY <2>1, BoundIsNat
    DEF vars, watch, history, CountInv, CountAt, Op, Cur, IInv, TypeOK, Records
  <2>2. CASE Next
    BY <2>2, CountStep, ClobberedIsForEver
  <2> QED
    BY <2>1, <2>2
<1> QED
  BY <1>1, <1>2, PTL DEF Spec, RestartCountIsKept
==============================================================================

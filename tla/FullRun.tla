------------------------------- MODULE FullRun -------------------------------
(***************************************************************************)
(* Ingest ("full") runs: the full_runs table of state.py and the managers  *)
(* of full_run.py, one in every process that serves the controller API.    *)
(*                                                                         *)
(* A run is owned through its row: a manager claims a row in one immediate *)
(* transaction, its controller thread works until it is told to stop or    *)
(* all queues are idle, and a heartbeat thread refreshes heartbeat_at so   *)
(* that no other manager takes the row for abandoned.  A stop reaches the  *)
(* controller through the row (stop_requested) and, in the process that    *)
(* runs it, through the manager's current stop event.                      *)
(*                                                                         *)
(* Time is the age of each heartbeat, counted up to the first age that is  *)
(* stale.  Dropped: the phases, texts and events of a run, its options and *)
(* counters, and completed_with_errors, which is a kind of succeeded.      *)
(***************************************************************************)
EXTENDS Integers

CONSTANTS
  Run,          \* run_ids; a bound on how many runs are ever claimed
  Manager,      \* FullRunManager objects, one in each process
  None,         \* Python's None
  Stale         \* stale_after_seconds, in ticks

ASSUME FullRunAssumption ==
  /\ None \notin Run
  /\ Stale \in Nat \ {0}

VARIABLES
  runs,      \* the full_runs table
  manager,   \* per manager: where start() is, and the active run
  control,   \* per run: its controller thread, and where it runs
  beat,      \* per run: its heartbeat thread
  signal,    \* per run: whether the stop event of its controller is set
  stopping   \* per manager: the stop() call it is in the middle of

vars == <<runs, manager, control, beat, signal, stopping>>

Finished == {"succeeded", "stopped", "failed", "interrupted"}
Outcome == {"succeeded", "stopped", "failed"}
MaybeRun == Run \cup {None}

RunRow == [ status : {"absent", "running", "stopping"} \cup Finished,
            stop   : BOOLEAN,            \* stop_requested
            age    : 0 .. Stale + 1 ]    \* now - heartbeat_at

FullRunTypeOK ==
  /\ runs \in [Run -> RunRow]
  /\ manager \in [Manager -> [claimed : MaybeRun,   \* by a start() under way
                              active  : MaybeRun]]  \* _active_run_id
  /\ control \in [Run -> [pc : {"off", "check", "work", "preview", "finish",
                                "cleanup"},
                          outcome : Outcome, at : Manager \cup {None},
                          raced : BOOLEAN]]  \* history: see StartThread
  /\ beat \in [Run -> {"off", "on", "failed"}]
  /\ signal \in [Run -> BOOLEAN]
  /\ stopping \in [Manager -> [pc : {"idle", "compare", "set"},
                               target : MaybeRun]]

NoManager == [claimed |-> None, active |-> None]
NoStop == [pc |-> "idle", target |-> None]
NoThread ==
  [pc |-> "off", outcome |-> "failed", at |-> None, raced |-> FALSE]

Init ==
  /\ runs = [r \in Run |-> [status |-> "absent", stop |-> FALSE, age |-> 0]]
  /\ manager = [m \in Manager |-> NoManager]
  /\ control = [r \in Run |-> NoThread]
  /\ beat = [r \in Run |-> "off"]
  /\ signal = [r \in Run |-> FALSE]
  /\ stopping = [m \in Manager |-> NoStop]

(* status in ('running', 'stopping') and finished_at is null               *)
Active(r) == runs[r].status \in {"running", "stopping"}

FreshForEver(r) == Active(r)
Fresh(r) == Active(r) /\ runs[r].age <= Stale

(* update_full_run and heartbeat_full_run, which match active rows only.   *)
Touched(r) == IF Active(r) THEN [runs EXCEPT ![r].age = 0] ELSE runs

RecordedByPhase(r, status) ==
  IF Active(r) THEN [runs EXCEPT ![r].status = "complete", ![r].age = 0] ELSE runs
RecordedAlways(r, status) == [runs EXCEPT ![r].status = status, ![r].age = 0]
Recorded(r, status) ==
  IF Active(r) THEN [runs EXCEPT ![r].status = status, ![r].age = 0] ELSE runs

-----------------------------------------------------------------------------
(* start(): create_full_run under the manager's lock, then the thread.     *)

Startable(m) == manager[m].claimed = None /\ manager[m].active = None

(* Active rows that are not fresh are interrupted, and a new one inserted. *)
OldRunsKept(r) ==
  [runs EXCEPT ![r] = [status |-> "running", stop |-> FALSE, age |-> 0]]
OldRunsInterrupted(r) ==
  [q \in Run |->
     IF q = r THEN [status |-> "running", stop |-> FALSE, age |-> 0]
     ELSE IF Active(q) THEN [runs[q] EXCEPT !.status = "interrupted", !.age = 0]
     ELSE runs[q]]

Claim(m, r) ==
  /\ Startable(m)
  /\ ~\E q \in Run : Fresh(q)
  /\ runs[r].status = "absent"
  /\ runs' = OldRunsInterrupted(r)
  /\ manager' = [manager EXCEPT ![m].claimed = r]
  /\ UNCHANGED <<control, beat, signal, stopping>>

(* (With a fresh run in the table start() adopts it and starts no thread.  *)
(* The other active rows it then interrupts are duplicates that only an    *)
(* older schema could leave: OneActiveRun.)                                *)

(* The controller thread first starts its heartbeat thread; then a dry run *)
(* goes straight to its preview.  It is remembered whether a stop() of the *)
(* same manager was between its comparison and its setting of the event.   *)
StartThread(m) ==
  LET r == manager[m].claimed IN
  /\ r # None
  /\ manager' = [manager EXCEPT ![m] = [claimed |-> None, active |-> r]]
  /\ \E pc \in {"check", "preview"} :
       control' = [control EXCEPT ![r] =
                     [pc |-> pc, outcome |-> "succeeded", at |-> m,
                      raced |-> stopping[m].pc = "set"]]
  /\ beat' = [beat EXCEPT ![r] = "on"]
  /\ runs' = Touched(r)
  /\ UNCHANGED <<signal, stopping>>

(* Either thread fails to start: the row is recorded as failed.            *)
StartThreadFails(m) ==
  LET r == manager[m].claimed IN
  /\ r # None
  /\ runs' = Recorded(r, "failed")
  /\ manager' = [manager EXCEPT ![m] = NoManager]
  /\ UNCHANGED <<control, beat, signal, stopping>>

-----------------------------------------------------------------------------
(* _run: the controller thread.                                            *)

At(r, pc) == control[r].pc = pc
Goto(r, pc) == control' = [control EXCEPT ![r].pc = pc]
Finishing(r, outcome) ==
  control' = [control EXCEPT ![r].pc = "finish", ![r].outcome = outcome]

(* The test at the head of the loop: the stop event, then the row.         *)
SignalledOnly(r) == signal[r]
StopSeen(r) == signal[r] \/ runs[r].stop

CheckStop(r) ==
  /\ At(r, "check")
  /\ StopSeen(r)
  /\ Finishing(r, "stopped")
  /\ UNCHANGED <<runs, manager, beat, signal, stopping>>

(* One cycle: intake, then a drain of every ready queue, a wait for        *)
(* running jobs or an idle pause, with a stage recorded on either side.    *)
WorkBegin(r) ==
  /\ At(r, "check")
  /\ ~StopSeen(r)
  /\ Goto(r, "work")
  /\ runs' = Touched(r)
  /\ UNCHANGED <<manager, beat, signal, stopping>>

WorkEnd(r) ==
  /\ At(r, "work")
  /\ Goto(r, "check") \/ Finishing(r, "succeeded")
  /\ runs' = Touched(r)
  /\ UNCHANGED <<manager, beat, signal, stopping>>

PreviewEnd(r) ==
  /\ At(r, "preview")
  /\ Finishing(r, "succeeded")
  /\ UNCHANGED <<runs, manager, beat, signal, stopping>>

(* Anything that raises, a store error included, is recorded as failed.    *)
Raise(r) ==
  /\ \E pc \in {"check", "work", "preview"} : At(r, pc)
  /\ Finishing(r, "failed")
  /\ UNCHANGED <<runs, manager, beat, signal, stopping>>

Finish(r) ==
  /\ At(r, "finish")
  /\ runs' = Recorded(r, control[r].outcome)
  /\ Goto(r, "cleanup")
  /\ UNCHANGED <<manager, beat, signal, stopping>>

(* A store error in the last record is recorded as failed; a second one    *)
(* leaves the row active with nobody behind it.                            *)
FinishError(r) ==
  /\ At(r, "finish")
  /\ IF control[r].outcome = "failed" THEN Goto(r, "cleanup")
     ELSE Finishing(r, "failed")
  /\ UNCHANGED <<runs, manager, beat, signal, stopping>>

(* finally: the heartbeat thread is joined, the run is no longer active.   *)
Cleanup(r) ==
  LET m == control[r].at IN
  /\ At(r, "cleanup")
  /\ control' = [control EXCEPT ![r] = NoThread]
  /\ beat' = [beat EXCEPT ![r] = "off"]
  /\ signal' = [signal EXCEPT ![r] = FALSE]
  /\ manager' = [manager EXCEPT ![m].active = IF @ = r THEN None ELSE @]
  /\ UNCHANGED <<runs, stopping>>

-----------------------------------------------------------------------------
(* _heartbeat_loop                                                         *)
Heartbeat(r) ==
  /\ beat[r] = "on"
  /\ runs' = Touched(r)
  /\ IF Active(r) THEN UNCHANGED <<beat, signal>>
     ELSE /\ beat' = [beat EXCEPT ![r] = "off"]
          /\ signal' = [signal EXCEPT ![r] = TRUE]
  /\ UNCHANGED <<manager, control, stopping>>

HeartbeatErrorLogged(r) ==
  /\ beat[r] = "on"
  /\ beat' = [beat EXCEPT ![r] = "failed"]
  /\ UNCHANGED <<runs, manager, control, signal, stopping>>
HeartbeatError(r) ==
  /\ beat[r] = "on"
  /\ beat' = [beat EXCEPT ![r] = "failed"]
  /\ signal' = [signal EXCEPT ![r] = TRUE]
  /\ UNCHANGED <<runs, manager, control, stopping>>

-----------------------------------------------------------------------------
(* stop(): request_full_run_stop (of a row that is not active: nothing),   *)
(* then, without the lock, a comparison of the target with the active run, *)
(* then the current stop event is set.                                     *)

StopRequest(m, r) ==
  /\ stopping[m].pc = "idle"
  /\ Active(r)
  /\ runs' = IF runs[r].stop THEN runs
             ELSE [runs EXCEPT ![r] = [status |-> "stopping", stop |-> TRUE,
                                       age |-> 0]]
  /\ stopping' = [stopping EXCEPT ![m] = [pc |-> "compare", target |-> r]]
  /\ UNCHANGED <<manager, control, beat, signal>>

TargetAny(m) == manager[m].active # None
TargetActive(m) == stopping[m].target = manager[m].active

StopCompare(m) ==
  /\ stopping[m].pc = "compare"
  /\ stopping' = [stopping EXCEPT ![m] = IF TargetActive(m)
                                         THEN [@ EXCEPT !.pc = "set"] ELSE NoStop]
  /\ UNCHANGED <<runs, manager, control, beat, signal>>

(* The event is that of the manager's last run; once that run is over,     *)
(* nobody looks at its event.                                              *)
StopSet(m) ==
  /\ stopping[m].pc = "set"
  /\ signal' = [r \in Run |-> signal[r] \/ r = manager[m].active]
  /\ stopping' = [stopping EXCEPT ![m] = NoStop]
  /\ UNCHANGED <<runs, manager, control, beat>>

-----------------------------------------------------------------------------
(* A process dies and is started again: its threads and calls are gone.    *)
Crash(m) ==
  /\ manager' = [manager EXCEPT ![m] = NoManager]
  /\ control' = [r \in Run |-> IF control[r].at = m THEN NoThread ELSE control[r]]
  /\ beat' = [r \in Run |-> IF control[r].at = m THEN "off" ELSE beat[r]]
  /\ signal' = [r \in Run |-> signal[r] /\ control[r].at # m]
  /\ stopping' = [stopping EXCEPT ![m] = NoStop]
  /\ UNCHANGED runs

(* A heartbeat thread that is up (or about to be) beats within the stale   *)
(* time: it beats every 30 s and may wait 30 s for the database, and a row *)
(* is stale after 300 s.                                                   *)
Owned(r) == beat[r] = "on" \/ \E m \in Manager : manager[m].claimed = r

Tick ==
  /\ \A r \in Run : Owned(r) /\ Active(r) => runs[r].age < Stale
  /\ \E r \in Run : Active(r) /\ runs[r].age <= Stale
  /\ runs' = [r \in Run |-> IF Active(r) /\ runs[r].age <= Stale
                            THEN [runs[r] EXCEPT !.age = @ + 1] ELSE runs[r]]
  /\ UNCHANGED <<manager, control, beat, signal, stopping>>

-----------------------------------------------------------------------------
Controller(r) ==
  CheckStop(r) \/ WorkBegin(r) \/ WorkEnd(r) \/ PreviewEnd(r)
    \/ Raise(r) \/ Finish(r) \/ FinishError(r) \/ Cleanup(r)

Call(m) ==
  \/ \E r \in Run : Claim(m, r) \/ StopRequest(m, r)
  \/ StartThread(m) \/ StartThreadFails(m) \/ StopCompare(m) \/ StopSet(m)

Next ==
  \/ \E r \in Run : Controller(r) \/ Heartbeat(r) \/ HeartbeatError(r)
  \/ \E m \in Manager : Call(m) \/ Crash(m)
  \/ Tick

(* The threads of a living process run on, the work of one cycle ends, and *)
(* somebody asks for a run again and again.                                *)
Fairness ==
  /\ \A r \in Run : WF_vars(Controller(r)) /\ WF_vars(Heartbeat(r))
  /\ \A m \in Manager : WF_vars(StartThread(m) \/ StartThreadFails(m))
                          /\ WF_vars(StopCompare(m) \/ StopSet(m))
                          /\ WF_vars(\E r \in Run : Claim(m, r))
  /\ WF_vars(Tick)

Spec == Init /\ [][Next]_vars /\ Fairness

-----------------------------------------------------------------------------
(* Properties.                                                             *)

(* Whoever claims, dies or comes back, one run at most is active.          *)
OneActiveRun == \A q, r \in Run : Active(q) /\ Active(r) => q = r

(* When two controllers work on the queues at the same time, in one        *)
(* process or in two, one of them has lost its heartbeat and its row to    *)
(* the other and has been told to stop: it ends a cycle begun before and   *)
(* begins no other.                                                        *)
LateControllerIsLast ==
  \A q, r \in Run : q # r /\ At(q, "work") /\ At(r, "work") =>
    \E late \in {q, r} : beat[late] = "failed" /\ signal[late] /\ ~Active(late)

(* A controller that has recorded its run as "stopped by request" was      *)
(* asked to stop or had lost its heartbeat, or a stop() of an earlier run  *)
(* was between its two steps when this one started: with no other timing   *)
(* does a stop of one run reach another.                                   *)
StopReachesItsRun ==
  \A r \in Run : At(r, "cleanup") /\ runs[r].status = "stopped" =>
                   runs[r].stop \/ beat[r] = "failed" \/ control[r].raced

(* No two controllers ever work at the same time.                          *)
OneController == \A q, r \in Run : At(q, "work") /\ At(r, "work") => q = r

(* A run recorded as "stopped by request" was asked to stop, or had lost   *)
(* its heartbeat.                                                          *)
StopsOnlyOnRequest ==
  \A r \in Run : At(r, "cleanup") /\ runs[r].status = "stopped" =>
                   runs[r].stop \/ beat[r] = "failed"

(* Late records, heartbeats and stop requests leave a finished run alone.  *)
FinishedStaysFinished ==
  [][\A r \in Run : runs[r].status \in Finished => runs'[r] = runs[r]]_vars

(* A stop asked of any process ends the run, whichever process runs it:    *)
(* unless the process dies or the last record cannot be written, the row   *)
(* does not stay active.                                                   *)
StopHonoured ==
  \A r \in Run : (Active(r) /\ runs[r].stop) ~> (~Active(r) \/ At(r, "off"))

(* A run nobody works on any more does not block the next for ever: asked  *)
(* often enough, start() finds it stale and interrupts it.                 *)
NoRunLeft == \A r \in Run : runs[r].status # "absent"
AbandonedRunReplaced ==
  \A r \in Run : (Active(r) /\ At(r, "off")) ~>
                   (~Active(r) \/ ~At(r, "off") \/ NoRunLeft)
=============================================================================

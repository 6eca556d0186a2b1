---------------------------- MODULE FullRunProofs ----------------------------
(***************************************************************************)
(* The safety properties of FullRun, for any sets of runs and managers and *)
(* any stale time, and those of IngestLoop, for any set of jobs and any    *)
(* limits.                                                                 *)
(*                                                                         *)
(* A run lives in four places: its row, its controller, its heartbeat      *)
(* thread and the manager's memory.  None of the properties is inductive,  *)
(* because each follows from how these places agree; RunInv says how.      *)
(* The loop reads five queues at five moments; IngestInv says what it may  *)
(* conclude from them.                                                     *)
(***************************************************************************)
EXTENDS FullRun, IngestLoop, TLAPS

-----------------------------------------------------------------------------
(* The inductive invariant.                                                *)

(* The controller has yet to record how the run ended.                     *)
Alive(r) == control[r].pc \in {"check", "work", "preview", "finish"}
(* The reasons there are for a controller to stop.                         *)
Asked(r) == runs[r].stop \/ beat[r] = "failed" \/ control[r].raced

(* A row that is not there has no controller; while there is one, nobody   *)
(* but another manager ends its row.                                       *)
RowPart(r) ==
  /\ runs[r].status = "absent" => ~runs[r].stop /\ At(r, "off")
  /\ Alive(r) => runs[r].status \in {"running", "stopping", "interrupted"}

(* A heartbeat thread that works keeps the row from becoming stale.        *)
ThreadPart(r) ==
  /\ At(r, "off") => beat[r] = "off" /\ ~signal[r]
  /\ ~At(r, "off") => control[r].at \in Manager
  /\ beat[r] = "on" /\ Active(r) => runs[r].age <= Stale

(* A controller has an active row that is beaten for, or has lost its      *)
(* heartbeat and been told so: only such a one can lose its row.           *)
WorkPart(r) ==
  Alive(r) => \/ beat[r] = "on" /\ Active(r)
              \/ beat[r] = "failed" /\ signal[r]

(* Whoever has seen a stop on an active row had a reason.                  *)
StopPart(r) ==
  /\ Alive(r) /\ signal[r] /\ Active(r) => Asked(r)
  /\ At(r, "finish") /\ control[r].outcome = "stopped" /\ Active(r)
       => Asked(r)
  /\ At(r, "cleanup") /\ runs[r].status = "stopped" => Asked(r)

(* A run that is being started is fresh, and nobody else starts it.        *)
ClaimPart(m) ==
  LET r == manager[m].claimed IN
  r # None => /\ Active(r) /\ runs[r].age <= Stale
              /\ At(r, "off")
              /\ \A n \in Manager : manager[n].claimed = r => n = m

(* The run a manager takes for active has its controller there, and a      *)
(* stop() under way has left its mark on the row.                          *)
CallPart(m) ==
  /\ manager[m].active # None => LET r == manager[m].active IN
                                 ~At(r, "off") /\ control[r].at = m
  /\ stopping[m].pc # "idle" => /\ stopping[m].target \in Run
                                /\ runs[stopping[m].target].stop
  /\ stopping[m].pc = "set"
        => \/ manager[m].active \in {stopping[m].target, None}
           \/ control[manager[m].active].raced

RunInv ==
  /\ FullRunTypeOK
  /\ OneActiveRun
  /\ \A r \in Run : RowPart(r) /\ ThreadPart(r) /\ WorkPart(r) /\ StopPart(r)
  /\ \A m \in Manager : ClaimPart(m) /\ CallPart(m)
-----------------------------------------------------------------------------
(* What the statements on full_runs make of the table.                     *)

(* The statements keep the columns in their types.                         *)
LEMMA RowsTyped ==
  ASSUME FullRunTypeOK, NEW r \in Run
  PROVE  /\ Touched(r) \in [Run -> RunRow]
         /\ \A s \in Outcome : Recorded(r, s) \in [Run -> RunRow]
         /\ OldRunsInterrupted(r) \in [Run -> RunRow]
<1> USE DEF Finished, Outcome
<1>1. 0 \in 0 .. Stale + 1
  BY FullRunAssumption
<1>2. runs \in [Run -> RunRow]
  BY DEF FullRunTypeOK
<1>3. ASSUME NEW row \in RunRow, NEW s \in Finished
      PROVE  /\ [row EXCEPT !.age = 0] \in RunRow
             /\ [row EXCEPT !.status = s, !.age = 0] \in RunRow
  BY <1>1 DEF RunRow
<1>4. Touched(r) = IF Active(r) THEN [runs EXCEPT ![r] = [@ EXCEPT !.age = 0]]
                   ELSE runs
  BY DEF Touched
<1>5. Touched(r) \in [Run -> RunRow]
  BY <1>2, <1>3, <1>4
<1>6. ASSUME NEW s \in Outcome
      PROVE  Recorded(r, s) \in [Run -> RunRow]
  <2>1. Recorded(r, s) = IF Active(r)
          THEN [runs EXCEPT ![r] = [@ EXCEPT !.status = s, !.age = 0]]
          ELSE runs
    BY DEF Recorded
  <2>2. [runs[r] EXCEPT !.status = s, !.age = 0] \in RunRow
    BY <1>2, <1>3
  <2> QED BY <1>2, <2>1, <2>2
<1>7. OldRunsInterrupted(r) \in [Run -> RunRow]
  <2>1. [status |-> "running", stop |-> FALSE, age |-> 0] \in RunRow
    BY <1>1 DEF RunRow
  <2> QED BY <1>2, <1>3, <2>1 DEF OldRunsInterrupted
<1> QED BY <1>5, <1>6, <1>7

(* A row that is not yet stale can age.                                    *)
LEMMA AgedTyped ==
  ASSUME NEW row \in RunRow, row.age <= Stale
  PROVE  [row EXCEPT !.age = @ + 1] \in RunRow
<1>1. row.age + 1 \in 0 .. Stale + 1
  BY FullRunAssumption DEF RunRow
<1> QED BY <1>1 DEF RunRow

(* A thread that moves on is still a thread.                               *)
Thread == [pc : {"off", "check", "work", "preview", "finish", "cleanup"},
           outcome : Outcome, at : Manager \cup {None}, raced : BOOLEAN]

LEMMA ThreadsTyped ==
  ASSUME FullRunTypeOK, NEW r \in Run,
         NEW to \in {"off", "check", "work", "preview", "finish", "cleanup"},
         NEW outcome \in Outcome
  PROVE  /\ [control EXCEPT ![r].pc = to] \in [Run -> Thread]
         /\ [control EXCEPT ![r].pc = to, ![r].outcome = outcome]
              \in [Run -> Thread]
<1>1. control \in [Run -> Thread]
  BY DEF FullRunTypeOK, Thread
<1>2. ASSUME NEW thread \in Thread
      PROVE  /\ [thread EXCEPT !.pc = to] \in Thread
             /\ [thread EXCEPT !.pc = to, !.outcome = outcome] \in Thread
  BY DEF Thread
<1>3. /\ [control EXCEPT ![r].pc = to] =
             [control EXCEPT ![r] = [@ EXCEPT !.pc = to]]
      /\ [control EXCEPT ![r].pc = to, ![r].outcome = outcome] =
             [control EXCEPT ![r] = [@ EXCEPT !.pc = to, !.outcome = outcome]]
  BY <1>1
<1> QED BY <1>1, <1>2, <1>3

-----------------------------------------------------------------------------
(* Every step keeps the type invariant.                                    *)
LEMMA TypeStep ==
  ASSUME FullRunTypeOK, [Next]_vars
  PROVE  FullRunTypeOK'
<1> USE DEF FullRunTypeOK, Finished, Outcome, MaybeRun
<1>1. ASSUME NEW m \in Manager, NEW r \in Run, Claim(m, r)
      PROVE  FullRunTypeOK'
  <2>1. runs' \in [Run -> RunRow]
    BY <1>1, RowsTyped DEF Claim
  <2>2. manager' \in [Manager -> [claimed : MaybeRun, active : MaybeRun]]
    <3>1. [manager[m] EXCEPT !.claimed = r]
            \in [claimed : MaybeRun, active : MaybeRun]
      OBVIOUS
    <3>2. manager' = [manager EXCEPT ![m] = [@ EXCEPT !.claimed = r]]
      BY <1>1 DEF Claim
    <3> QED BY <3>1, <3>2
  <2> QED BY <1>1, <2>1, <2>2 DEF Claim
<1>2. ASSUME NEW m \in Manager, StartThread(m)
      PROVE  FullRunTypeOK'
  BY <1>2, RowsTyped DEF StartThread
<1>3. ASSUME NEW m \in Manager, StartThreadFails(m)
      PROVE  FullRunTypeOK'
  BY <1>3, RowsTyped DEF StartThreadFails, NoManager
<1>4. ASSUME NEW m \in Manager, NEW r \in Run, StopRequest(m, r)
      PROVE  FullRunTypeOK'
  BY <1>4, FullRunAssumption DEF StopRequest, RunRow
<1>5. ASSUME NEW m \in Manager, StopCompare(m)
      PROVE  FullRunTypeOK'
  BY <1>5 DEF StopCompare, NoStop
<1>6. ASSUME NEW m \in Manager, StopSet(m)
      PROVE  FullRunTypeOK'
  <2>1. signal' \in [Run -> BOOLEAN]
    <3>1. \A r \in Run : (signal[r] \/ r = manager[m].active) \in BOOLEAN
      BY Zenon
    <3> QED BY <1>6, <3>1, Zenon DEF StopSet
  <2>2. stopping' \in [Manager -> [pc : {"idle", "compare", "set"},
                                   target : MaybeRun]]
    BY <1>6 DEF StopSet, NoStop
  <2> QED BY <1>6, <2>1, <2>2 DEF StopSet
<1>7. ASSUME NEW m \in Manager, Crash(m)
      PROVE  FullRunTypeOK'
  <2>1. signal' \in [Run -> BOOLEAN]
    <3>1. \A r \in Run : (signal[r] /\ control[r].at # m) \in BOOLEAN
      BY Zenon
    <3> QED BY <1>7, <3>1, Zenon DEF Crash
  <2> QED BY <1>7, <2>1 DEF Crash, NoManager, NoThread, NoStop
<1>8. ASSUME NEW r \in Run, Controller(r)
      PROVE  FullRunTypeOK'
  <2>0. control[r].outcome \in Outcome
    OBVIOUS
  <2>1. runs' \in [Run -> RunRow]
    <3>1. CASE Finish(r)
      BY <2>0, <3>1, RowsTyped DEF Finish
    <3>2. CASE ~Finish(r)
      <4>1. runs' = runs \/ runs' = Touched(r)
        BY <1>8, <3>2 DEF Controller, CheckStop, WorkBegin, WorkEnd,
           PreviewEnd, Raise, FinishError, Cleanup
      <4> QED BY <4>1, RowsTyped
    <3> QED BY <3>1, <3>2
  <2>2. control' \in [Run -> Thread]
    <3>1. CASE ~Cleanup(r)
      <4>1. \/ \E to \in {"check", "work", "cleanup"} : Goto(r, to)
            \/ \E out \in Outcome : Finishing(r, out)
        BY <1>8, <3>1 DEF Controller, CheckStop, WorkBegin, WorkEnd,
           PreviewEnd, Raise, Finish, FinishError
      <4>2. ASSUME NEW to \in {"check", "work", "cleanup"}, Goto(r, to)
            PROVE  control' \in [Run -> Thread]
        BY <4>2, ThreadsTyped DEF Goto
      <4>3. ASSUME NEW out \in Outcome, Finishing(r, out)
            PROVE  control' \in [Run -> Thread]
        BY <4>3, ThreadsTyped DEF Finishing
      <4> QED BY <4>1, <4>2, <4>3
    <3>2. CASE Cleanup(r)
      BY <3>2 DEF Cleanup, NoThread, Thread
    <3> QED BY <3>1, <3>2
  <2>3. CASE ~Cleanup(r)
    BY <1>8, <2>1, <2>2, <2>3 DEF Controller, CheckStop, WorkBegin, WorkEnd,
       PreviewEnd, Raise, Finish, FinishError, Thread
  <2>4. CASE Cleanup(r)
    <3>1. /\ beat' \in [Run -> {"off", "on", "failed"}]
          /\ signal' \in [Run -> BOOLEAN]
      BY <2>4 DEF Cleanup
    <3>2. manager' \in [Manager -> [claimed : MaybeRun, active : MaybeRun]]
      <4> DEFINE at == control[r].at
                 row == [manager[at] EXCEPT !.active = IF @ = r THEN None ELSE @]
      <4>1. manager' = [manager EXCEPT ![at] = row]
        BY <2>4 DEF Cleanup
      <4>2. \A old \in [claimed : MaybeRun, active : MaybeRun] :
              [old EXCEPT !.active = IF @ = r THEN None ELSE @]
                \in [claimed : MaybeRun, active : MaybeRun]
        OBVIOUS
      <4>3. at \in Manager => manager[at] \in [claimed : MaybeRun, active : MaybeRun]
        OBVIOUS
      <4> HIDE DEF at, MaybeRun
      <4> QED BY <4>1, <4>2, <4>3
    <3>3. stopping' = stopping
      BY <2>4 DEF Cleanup
    <3> HIDE DEF Outcome, MaybeRun
    <3> QED BY <2>1, <2>2, <3>1, <3>2, <3>3, Zenon DEF Thread
  <2> QED BY <2>3, <2>4
<1>9. ASSUME NEW r \in Run, Heartbeat(r)
      PROVE  FullRunTypeOK'
  <2>1. runs' \in [Run -> RunRow]
    BY <1>9, RowsTyped DEF Heartbeat
  <2>2. beat' \in [Run -> {"off", "on", "failed"}]
    BY <1>9 DEF Heartbeat
  <2>3. signal' \in [Run -> BOOLEAN]
    BY <1>9 DEF Heartbeat
  <2> QED BY <1>9, <2>1, <2>2, <2>3 DEF Heartbeat
<1>10. ASSUME NEW r \in Run, HeartbeatError(r)
       PROVE  FullRunTypeOK'
  BY <1>10 DEF HeartbeatError
<1>11. CASE Tick
  BY <1>11, AgedTyped DEF Tick
<1>12. CASE UNCHANGED vars
  BY <1>12 DEF vars
<1> QED
  BY <1>1, <1>2, <1>3, <1>4, <1>5, <1>6, <1>7, <1>8, <1>9, <1>10, <1>11, <1>12
     DEF Next, Call
-----------------------------------------------------------------------------
(* The invariant holds at the start, and one lemma for each action says    *)
(* that the action keeps every part of it.                                 *)
LEMMA RunInit == Init => RunInv
BY FullRunAssumption DEF Init, NoManager, NoThread, NoStop, RunInv,
     OneActiveRun, RowPart, ThreadPart, WorkPart, StopPart, ClaimPart,
     CallPart, Alive, Asked, Active, At, FullRunTypeOK, RunRow, Finished,
     Outcome, MaybeRun

(* create_full_run refuses while a row is fresh, so it meets no working run.*)
LEMMA ClaimStep ==
  ASSUME RunInv, FullRunTypeOK', NEW m \in Manager, NEW r \in Run, Claim(m, r)
  PROVE  RunInv'
<1>0. /\ \A q \in Run : ~Fresh(q)
      /\ runs[r].status = "absent"
      /\ runs'[r] = [status |-> "running", stop |-> FALSE, age |-> 0]
      /\ \A q \in Run \ {r} :
           /\ runs'[q].stop = runs[q].stop
           /\ ~Active(q)'
           /\ \/ runs'[q].status = runs[q].status
              \/ Active(q) /\ runs'[q].status = "interrupted"
  <2>1. /\ \A q \in Run : ~Fresh(q)
        /\ runs[r].status = "absent"
        /\ runs'[r] = [status |-> "running", stop |-> FALSE, age |-> 0]
    BY DEF Claim, OldRunsInterrupted
  <2>2. ASSUME NEW q \in Run \ {r}
        PROVE  /\ runs'[q].stop = runs[q].stop
               /\ ~Active(q)'
               /\ \/ runs'[q].status = runs[q].status
                  \/ Active(q) /\ runs'[q].status = "interrupted"
    <3>1. runs'[q] = IF Active(q)
            THEN [runs[q] EXCEPT !.status = "interrupted", !.age = 0]
            ELSE runs[q]
      BY DEF Claim, OldRunsInterrupted
    <3>2. runs[q] \in RunRow
      BY DEF RunInv, FullRunTypeOK
    <3>3. CASE Active(q)
      BY <3>1, <3>2, <3>3 DEF Active, RunRow
    <3>4. CASE ~Active(q)
      BY <3>1, <3>4 DEF Active
    <3> QED BY <3>3, <3>4
  <2> QED BY <2>1, <2>2
<1>1. OneActiveRun'
  BY <1>0 DEF RunInv, OneActiveRun, Claim
<1>2. ASSUME NEW q \in Run PROVE RowPart(q)'
  <2>1. RowPart(q) /\ RowPart(r)
    BY DEF RunInv
  <2>2. control' = control
    BY DEF Claim
  <2>3. CASE q = r
    BY <1>0, <2>1, <2>2, <2>3 DEF RowPart, At, Alive
  <2>4. CASE q # r
    BY <1>0, <2>1, <2>2, <2>4 DEF RowPart, At, Alive, Active
  <2> QED BY <2>3, <2>4
<1>3. ASSUME NEW q \in Run PROVE ThreadPart(q)'
  BY <1>0, FullRunAssumption DEF RunInv, ThreadPart, At, Claim
<1>4. ASSUME NEW q \in Run PROVE WorkPart(q)'
  BY DEF RunInv, WorkPart, Alive, ThreadPart, At, Claim, Fresh
<1>5. ASSUME NEW q \in Run PROVE StopPart(q)'
  BY <1>0 DEF RunInv, StopPart, RowPart, ThreadPart, Asked, At, Claim
<1>6. ASSUME NEW n \in Manager PROVE ClaimPart(n)'
  BY <1>0, FullRunAssumption DEF RunInv, ClaimPart, RowPart, At, Active,
       FullRunTypeOK, RunRow, MaybeRun, Claim, Fresh
<1>7. ASSUME NEW n \in Manager PROVE CallPart(n)'
  <2>1. CallPart(n) /\ RowPart(r)
    BY DEF RunInv
  <2>2. /\ control' = control /\ stopping' = stopping
        /\ manager'[n].active = manager[n].active
    BY DEF Claim, RunInv, FullRunTypeOK
  <2>3. ASSUME stopping[n].pc # "idle"
        PROVE  runs'[stopping[n].target].stop
    BY <1>0, <2>1, <2>3 DEF CallPart, RowPart
  <2> QED BY <2>1, <2>2, <2>3 DEF CallPart, At
<1> QED BY <1>1, <1>2, <1>3, <1>4, <1>5, <1>6, <1>7 DEF RunInv

(* start() hands the claimed row over to its controller.                   *)
LEMMA StartThreadStep ==
  ASSUME RunInv, FullRunTypeOK', NEW m \in Manager, StartThread(m)
  PROVE  RunInv'
<1>1. OneActiveRun'
  BY DEF RunInv, OneActiveRun, Active, StartThread, Touched
<1>2. ASSUME NEW q \in Run PROVE RowPart(q)'
  BY DEF RunInv, RowPart, ClaimPart, Alive, At, Active, StartThread, Touched
<1>3. ASSUME NEW q \in Run PROVE ThreadPart(q)'
  BY FullRunAssumption DEF RunInv, ThreadPart, At, Active, FullRunTypeOK,
       StartThread, Touched
<1>4. ASSUME NEW q \in Run PROVE WorkPart(q)'
  BY DEF RunInv, WorkPart, Alive, ClaimPart, At, Active, FullRunTypeOK, StartThread,
       Touched
<1>5. ASSUME NEW q \in Run PROVE StopPart(q)'
  BY DEF RunInv, StopPart, ThreadPart, ClaimPart, Alive, Asked, At, Active,
       StartThread, Touched
<1>6. ASSUME NEW n \in Manager PROVE ClaimPart(n)'
  BY DEF RunInv, ClaimPart, At, Active, FullRunTypeOK, StartThread, Touched
<1>7. ASSUME NEW n \in Manager PROVE CallPart(n)'
  <2> DEFINE r == manager[m].claimed
  <2>1. CallPart(n) /\ ClaimPart(m) /\ r \in Run /\ r # None
    BY DEF RunInv, FullRunTypeOK, MaybeRun, StartThread
  <2>2. \A q \in Run : runs'[q].stop = runs[q].stop
    BY DEF StartThread, Touched, RunInv, FullRunTypeOK, RunRow
  <2>3. /\ stopping' = stopping
        /\ manager'[m].active = r
        /\ n # m => manager'[n] = manager[n]
    BY DEF StartThread, RunInv, FullRunTypeOK
  <2>4. PICK to \in {"check", "preview"} :
          control' = [control EXCEPT ![r] =
                        [pc |-> to, outcome |-> "succeeded", at |-> m,
                         raced |-> stopping[m].pc = "set"]]
    BY DEF StartThread
  <2> HIDE DEF r
  <2>5. /\ control'[r].pc = to /\ control'[r].at = m
        /\ control'[r].raced = (stopping[m].pc = "set")
    <3>1. control'[r] = [pc |-> to, outcome |-> "succeeded", at |-> m,
                         raced |-> stopping[m].pc = "set"]
      BY <2>1, <2>4, Zenon DEF RunInv, FullRunTypeOK
    <3> QED BY <3>1
  <2>6. \A q \in Run \ {r} : control'[q] = control[q]
    BY <2>4 DEF RunInv, FullRunTypeOK
  <2>7. stopping[n].pc # "idle" => /\ stopping[n].target \in Run
                                   /\ runs'[stopping[n].target].stop
    BY <2>1, <2>2 DEF CallPart
  <2>8. CASE n = m
    BY <2>1, <2>3, <2>5, <2>7, <2>8 DEF CallPart, At
  <2>9. CASE n # m
    <3>1. manager[n].active \in Run \cup {None}
      <4>1. manager[n] \in [claimed : MaybeRun, active : MaybeRun]
        BY DEF RunInv, FullRunTypeOK
      <4> QED BY <4>1 DEF MaybeRun
    <3>2. manager[n].active # r
      <4>1. control[r].pc = "off"
        BY <2>1 DEF ClaimPart, At, r
      <4> QED BY <2>1, <4>1 DEF CallPart, At
    <3> QED BY <2>1, <2>3, <2>6, <2>7, <2>9, <3>1, <3>2 DEF CallPart, At
  <2> QED BY <2>8, <2>9
<1> QED BY <1>1, <1>2, <1>3, <1>4, <1>5, <1>6, <1>7 DEF RunInv

(* start() records the row it has claimed, which has no controller.        *)
LEMMA StartThreadFailsStep ==
  ASSUME RunInv, FullRunTypeOK', NEW m \in Manager, StartThreadFails(m)
  PROVE  RunInv'
<1>1. OneActiveRun'
  BY DEF RunInv, OneActiveRun, Active, FullRunTypeOK, StartThreadFails,
       Recorded, NoManager
<1>2. ASSUME NEW q \in Run PROVE RowPart(q)'
  BY DEF RunInv, RowPart, ClaimPart, Alive, At, FullRunTypeOK,
       StartThreadFails, Recorded, NoManager
<1>3. ASSUME NEW q \in Run PROVE ThreadPart(q)'
  BY DEF RunInv, ThreadPart, At, Active, FullRunTypeOK, StartThreadFails,
       Recorded, NoManager
<1>4. ASSUME NEW q \in Run PROVE WorkPart(q)'
  BY DEF RunInv, WorkPart, Alive, ClaimPart, OneActiveRun, At, FullRunTypeOK,
       StartThreadFails, Recorded, NoManager
<1>5. ASSUME NEW q \in Run PROVE StopPart(q)'
  BY DEF RunInv, StopPart, Alive, Asked, At, Active, FullRunTypeOK,
       StartThreadFails, Recorded, NoManager
<1>6. ASSUME NEW n \in Manager PROVE ClaimPart(n)'
  BY DEF RunInv, ClaimPart, At, Active, FullRunTypeOK, MaybeRun,
       StartThreadFails, Recorded, NoManager
<1>7. ASSUME NEW n \in Manager PROVE CallPart(n)'
  BY DEF RunInv, CallPart, At, FullRunTypeOK, StartThreadFails, Recorded,
       NoManager
<1> QED BY <1>1, <1>2, <1>3, <1>4, <1>5, <1>6, <1>7 DEF RunInv

(* request_full_run_stop marks an active row.                              *)
LEMMA StopRequestStep ==
  ASSUME RunInv, FullRunTypeOK', NEW m \in Manager, NEW r \in Run,
         StopRequest(m, r)
  PROVE  RunInv'
<1>1. OneActiveRun'
  BY DEF RunInv, OneActiveRun, Active, StopRequest
<1>2. ASSUME NEW q \in Run PROVE RowPart(q)'
  BY DEF RunInv, RowPart, Alive, At, StopRequest
<1>3. ASSUME NEW q \in Run PROVE ThreadPart(q)'
  BY FullRunAssumption DEF RunInv, ThreadPart, At, Active, StopRequest
<1>4. ASSUME NEW q \in Run PROVE WorkPart(q)'
  BY FullRunAssumption DEF RunInv, WorkPart, Alive, At, Active, StopRequest
<1>5. ASSUME NEW q \in Run PROVE StopPart(q)'
  BY DEF RunInv, StopPart, Alive, Asked, At, Active, StopRequest
<1>6. ASSUME NEW n \in Manager PROVE ClaimPart(n)'
  BY FullRunAssumption DEF RunInv, ClaimPart, At, Active, StopRequest
<1>7. ASSUME NEW n \in Manager PROVE CallPart(n)'
  BY DEF RunInv, CallPart, At, FullRunTypeOK, StopRequest
<1> QED BY <1>1, <1>2, <1>3, <1>4, <1>5, <1>6, <1>7 DEF RunInv

(* stop() compares its target with the active run.                         *)
LEMMA StopCompareStep ==
  ASSUME RunInv, FullRunTypeOK', NEW m \in Manager, StopCompare(m)
  PROVE  RunInv'
<1>1. OneActiveRun'
  BY DEF RunInv, OneActiveRun, Active, StopCompare, NoStop
<1>2. ASSUME NEW q \in Run PROVE RowPart(q)'
  BY DEF RunInv, RowPart, Alive, At, StopCompare, NoStop
<1>3. ASSUME NEW q \in Run PROVE ThreadPart(q)'
  BY DEF RunInv, ThreadPart, At, Active, StopCompare, NoStop
<1>4. ASSUME NEW q \in Run PROVE WorkPart(q)'
  BY DEF RunInv, WorkPart, Alive, At, Active, StopCompare, NoStop
<1>5. ASSUME NEW q \in Run PROVE StopPart(q)'
  BY DEF RunInv, StopPart, Alive, Asked, At, Active, StopCompare, NoStop
<1>6. ASSUME NEW n \in Manager PROVE ClaimPart(n)'
  BY DEF RunInv, ClaimPart, At, Active, StopCompare, NoStop
<1>7. ASSUME NEW n \in Manager PROVE CallPart(n)'
  BY DEF RunInv, CallPart, At, StopCompare, TargetActive, NoStop
<1> QED BY <1>1, <1>2, <1>3, <1>4, <1>5, <1>6, <1>7 DEF RunInv

(* stop() sets the event of the run it has marked.                         *)
LEMMA StopSetStep ==
  ASSUME RunInv, FullRunTypeOK', NEW m \in Manager, StopSet(m)
  PROVE  RunInv'
<1>1. OneActiveRun'
  BY DEF RunInv, OneActiveRun, Active, StopSet, NoStop
<1>2. ASSUME NEW q \in Run PROVE RowPart(q)'
  BY DEF RunInv, RowPart, Alive, At, StopSet, NoStop
<1>3. ASSUME NEW q \in Run PROVE ThreadPart(q)'
  BY ZenonT(30), FullRunAssumption DEF RunInv, ThreadPart, CallPart, At, Active, StopSet,
       NoStop
<1>4. ASSUME NEW q \in Run PROVE WorkPart(q)'
  BY DEF RunInv, WorkPart, Alive, At, Active, StopSet, NoStop
<1>5. ASSUME NEW q \in Run PROVE StopPart(q)'
  BY FullRunAssumption DEF RunInv, StopPart, CallPart, Alive, Asked, At,
       Active, FullRunTypeOK, StopSet, NoStop
<1>6. ASSUME NEW n \in Manager PROVE ClaimPart(n)'
  BY DEF RunInv, ClaimPart, At, Active, StopSet, NoStop
<1>7. ASSUME NEW n \in Manager PROVE CallPart(n)'
  BY DEF RunInv, CallPart, At, StopSet, NoStop
<1> QED BY <1>1, <1>2, <1>3, <1>4, <1>5, <1>6, <1>7 DEF RunInv

(* A process dies and leaves its rows as they are.                         *)
LEMMA CrashStep ==
  ASSUME RunInv, FullRunTypeOK', NEW m \in Manager, Crash(m)
  PROVE  RunInv'
<1>1. OneActiveRun'
  BY DEF RunInv, OneActiveRun, Active, Crash, NoManager, NoThread, NoStop
<1>2. ASSUME NEW q \in Run PROVE RowPart(q)'
  BY DEF RunInv, RowPart, Alive, At, Crash, NoManager, NoThread, NoStop
<1>3. ASSUME NEW q \in Run PROVE ThreadPart(q)'
  BY DEF RunInv, ThreadPart, At, Active, Crash, NoManager, NoThread, NoStop
<1>4. ASSUME NEW q \in Run PROVE WorkPart(q)'
  BY DEF RunInv, WorkPart, Alive, At, Active, Crash, NoManager, NoThread, NoStop
<1>5. ASSUME NEW q \in Run PROVE StopPart(q)'
  BY DEF RunInv, StopPart, Alive, Asked, At, Active, Crash, NoManager,
       NoThread, NoStop
<1>6. ASSUME NEW n \in Manager PROVE ClaimPart(n)'
  BY DEF RunInv, ClaimPart, At, Active, FullRunTypeOK, MaybeRun, Crash,
       NoManager, NoThread, NoStop
<1>7. ASSUME NEW n \in Manager PROVE CallPart(n)'
  BY DEF RunInv, CallPart, At, FullRunTypeOK, MaybeRun, Crash, NoManager,
       NoThread, NoStop
<1> QED BY <1>1, <1>2, <1>3, <1>4, <1>5, <1>6, <1>7 DEF RunInv

(* The controller sees a stop.                                             *)
LEMMA CheckStopStep ==
  ASSUME RunInv, FullRunTypeOK', NEW r \in Run, CheckStop(r)
  PROVE  RunInv'
<1>1. OneActiveRun'
  BY DEF RunInv, OneActiveRun, Active, CheckStop, Finishing
<1>2. ASSUME NEW q \in Run PROVE RowPart(q)'
  BY DEF RunInv, RowPart, Alive, At, FullRunTypeOK, CheckStop, Finishing
<1>3. ASSUME NEW q \in Run PROVE ThreadPart(q)'
  BY DEF RunInv, ThreadPart, At, Active, FullRunTypeOK, CheckStop, Finishing
<1>4. ASSUME NEW q \in Run PROVE WorkPart(q)'
  BY DEF RunInv, WorkPart, Alive, At, Active, FullRunTypeOK, CheckStop, Finishing
<1>5. ASSUME NEW q \in Run PROVE StopPart(q)'
  BY DEF RunInv, StopPart, Alive, Asked, At, Active, FullRunTypeOK, CheckStop,
       StopSeen, Finishing
<1>6. ASSUME NEW n \in Manager PROVE ClaimPart(n)'
  BY DEF RunInv, ClaimPart, At, Active, FullRunTypeOK, MaybeRun, CheckStop,
       Finishing
<1>7. ASSUME NEW n \in Manager PROVE CallPart(n)'
  BY DEF RunInv, CallPart, At, FullRunTypeOK, MaybeRun, CheckStop, Finishing
<1> QED BY <1>1, <1>2, <1>3, <1>4, <1>5, <1>6, <1>7 DEF RunInv

(* The controller sees no stop: its heartbeat works, its row is active.    *)
LEMMA WorkBeginStep ==
  ASSUME RunInv, FullRunTypeOK', NEW r \in Run, WorkBegin(r)
  PROVE  RunInv'
<1>1. OneActiveRun'
  BY DEF RunInv, OneActiveRun, Active, WorkBegin, Goto, Touched
<1>2. ASSUME NEW q \in Run PROVE RowPart(q)'
  BY DEF RunInv, RowPart, Alive, At, WorkBegin, Goto, Touched
<1>3. ASSUME NEW q \in Run PROVE ThreadPart(q)'
  BY FullRunAssumption DEF RunInv, ThreadPart, At, Active, WorkBegin, Goto,
       Touched
<1>4. ASSUME NEW q \in Run PROVE WorkPart(q)'
  BY FullRunAssumption DEF RunInv, WorkPart, Alive, At, Active, FullRunTypeOK,
       WorkBegin, StopSeen, Goto, Touched
<1>5. ASSUME NEW q \in Run PROVE StopPart(q)'
  BY DEF RunInv, StopPart, Alive, Asked, At, Active, WorkBegin, Goto, Touched
<1>6. ASSUME NEW n \in Manager PROVE ClaimPart(n)'
  BY DEF RunInv, ClaimPart, At, Active, WorkBegin, Goto, Touched
<1>7. ASSUME NEW n \in Manager PROVE CallPart(n)'
  BY DEF RunInv, CallPart, At, WorkBegin, Goto, Touched
<1> QED BY <1>1, <1>2, <1>3, <1>4, <1>5, <1>6, <1>7 DEF RunInv

(* One cycle of work ends.                                                 *)
LEMMA WorkEndStep ==
  ASSUME RunInv, FullRunTypeOK', NEW r \in Run, WorkEnd(r)
  PROVE  RunInv'
<1>0. /\ control' = [control EXCEPT ![r] = control'[r]]
      /\ control'[r].at = control[r].at /\ control'[r].raced = control[r].raced
      /\ \/ control'[r].pc = "check"
         \/ control'[r].pc = "finish" /\ control'[r].outcome = "succeeded"
  BY DEF WorkEnd, Goto, Finishing, RunInv, FullRunTypeOK
<1>1. OneActiveRun'
  BY DEF RunInv, OneActiveRun, Active, WorkEnd, Touched
<1>2. ASSUME NEW q \in Run PROVE RowPart(q)'
  BY <1>0 DEF RunInv, RowPart, Alive, At, FullRunTypeOK, WorkEnd, Touched
<1>3. ASSUME NEW q \in Run PROVE ThreadPart(q)'
  BY <1>0, FullRunAssumption DEF RunInv, ThreadPart, At, Active,
       FullRunTypeOK, WorkEnd, Touched
<1>4. ASSUME NEW q \in Run PROVE WorkPart(q)'
  BY <1>0 DEF RunInv, WorkPart, Alive, At, Active, FullRunTypeOK, WorkEnd, Touched
<1>5. ASSUME NEW q \in Run PROVE StopPart(q)'
  BY <1>0 DEF RunInv, StopPart, Alive, Asked, At, Active, FullRunTypeOK,
       WorkEnd, Touched
<1>6. ASSUME NEW n \in Manager PROVE ClaimPart(n)'
  BY <1>0 DEF RunInv, ClaimPart, At, Active, FullRunTypeOK, MaybeRun, WorkEnd,
       Touched
<1>7. ASSUME NEW n \in Manager PROVE CallPart(n)'
  <2>1. CallPart(n)
    BY DEF RunInv
  <2>2. ASSUME NEW q \in Run
        PROVE  /\ control'[q].at = control[q].at
               /\ control'[q].raced = control[q].raced
               /\ ~At(q, "off") => ~At(q, "off")'
    BY <1>0 DEF RunInv, FullRunTypeOK, At
  <2>3. manager' = manager /\ stopping' = stopping
    BY DEF WorkEnd
  <2>4. \A q \in Run : runs[q].stop => runs'[q].stop
    BY DEF WorkEnd, Touched, RunInv, FullRunTypeOK, RunRow
  <2>5. manager[n].active \in Run \cup {None}
    <3>1. manager[n] \in [claimed : MaybeRun, active : MaybeRun]
      BY DEF RunInv, FullRunTypeOK
    <3> QED BY <3>1 DEF MaybeRun
  <2>6. manager[n].active # None =>
          /\ control'[manager[n].active].pc # "off"
          /\ control'[manager[n].active].at = n
          /\ control'[manager[n].active].raced = control[manager[n].active].raced
    <3> DEFINE a == manager[n].active
    <3>1. a # None => control[a].pc # "off" /\ control[a].at = n
      BY <2>1 DEF CallPart, At
    <3>2. a # None => a \in Run
      BY <2>5
    <3> HIDE DEF a
    <3>3. ASSUME a # None
          PROVE  /\ control'[a].pc # "off" /\ control'[a].at = n
                 /\ control'[a].raced = control[a].raced
      BY <2>2, <3>1, <3>2, <3>3 DEF At
    <3> QED BY <3>3 DEF a
  <2>7. stopping[n].pc # "idle" => /\ stopping[n].target \in Run
                                   /\ runs'[stopping[n].target].stop
    BY <2>1, <2>4 DEF CallPart
  <2> QED BY <2>1, <2>3, <2>6, <2>7 DEF CallPart, At
<1> QED BY <1>1, <1>2, <1>3, <1>4, <1>5, <1>6, <1>7 DEF RunInv

(* A dry run ends.                                                         *)
LEMMA PreviewEndStep ==
  ASSUME RunInv, FullRunTypeOK', NEW r \in Run, PreviewEnd(r)
  PROVE  RunInv'
<1>1. OneActiveRun'
  BY DEF RunInv, OneActiveRun, Active, PreviewEnd, Finishing
<1>2. ASSUME NEW q \in Run PROVE RowPart(q)'
  BY DEF RunInv, RowPart, Alive, At, FullRunTypeOK, PreviewEnd, Finishing
<1>3. ASSUME NEW q \in Run PROVE ThreadPart(q)'
  BY DEF RunInv, ThreadPart, At, Active, FullRunTypeOK, PreviewEnd, Finishing
<1>4. ASSUME NEW q \in Run PROVE WorkPart(q)'
  BY DEF RunInv, WorkPart, Alive, At, Active, FullRunTypeOK, PreviewEnd, Finishing
<1>5. ASSUME NEW q \in Run PROVE StopPart(q)'
  BY DEF RunInv, StopPart, Alive, Asked, At, Active, FullRunTypeOK,
       PreviewEnd, Finishing
<1>6. ASSUME NEW n \in Manager PROVE ClaimPart(n)'
  BY DEF RunInv, ClaimPart, At, Active, FullRunTypeOK, MaybeRun, PreviewEnd,
       Finishing
<1>7. ASSUME NEW n \in Manager PROVE CallPart(n)'
  BY DEF RunInv, CallPart, At, FullRunTypeOK, MaybeRun, PreviewEnd, Finishing
<1> QED BY <1>1, <1>2, <1>3, <1>4, <1>5, <1>6, <1>7 DEF RunInv

(* An error ends the loop.                                                 *)
LEMMA RaiseStep ==
  ASSUME RunInv, FullRunTypeOK', NEW r \in Run, Raise(r)
  PROVE  RunInv'
<1>1. OneActiveRun'
  BY DEF RunInv, OneActiveRun, Active, Raise, Finishing
<1>2. ASSUME NEW q \in Run PROVE RowPart(q)'
  BY DEF RunInv, RowPart, Alive, At, FullRunTypeOK, Raise, Finishing
<1>3. ASSUME NEW q \in Run PROVE ThreadPart(q)'
  BY DEF RunInv, ThreadPart, At, Active, FullRunTypeOK, Raise, Finishing
<1>4. ASSUME NEW q \in Run PROVE WorkPart(q)'
  BY DEF RunInv, WorkPart, Alive, At, Active, FullRunTypeOK, Raise, Finishing
<1>5. ASSUME NEW q \in Run PROVE StopPart(q)'
  BY DEF RunInv, StopPart, Alive, Asked, At, Active, FullRunTypeOK, Raise,
       Finishing
<1>6. ASSUME NEW n \in Manager PROVE ClaimPart(n)'
  BY DEF RunInv, ClaimPart, At, Active, FullRunTypeOK, MaybeRun, Raise,
       Finishing
<1>7. ASSUME NEW n \in Manager PROVE CallPart(n)'
  BY DEF RunInv, CallPart, At, FullRunTypeOK, MaybeRun, Raise, Finishing
<1> QED BY <1>1, <1>2, <1>3, <1>4, <1>5, <1>6, <1>7 DEF RunInv

(* The controller records the outcome.                                     *)
LEMMA FinishStep ==
  ASSUME RunInv, FullRunTypeOK', NEW r \in Run, Finish(r)
  PROVE  RunInv'
<1>1. OneActiveRun'
  BY DEF RunInv, OneActiveRun, Active, FullRunTypeOK, Finish, Recorded, Goto
<1>2. ASSUME NEW q \in Run PROVE RowPart(q)'
  BY DEF RunInv, RowPart, Alive, At, FullRunTypeOK, Outcome, Finish, Recorded,
       Goto
<1>3. ASSUME NEW q \in Run PROVE ThreadPart(q)'
  BY DEF RunInv, ThreadPart, At, Active, FullRunTypeOK, RunRow, Finish,
       Recorded, Goto
<1>4. ASSUME NEW q \in Run PROVE WorkPart(q)'
  BY DEF RunInv, WorkPart, Alive, At, Active, FullRunTypeOK, Finish, Recorded, Goto
<1>5. ASSUME NEW q \in Run PROVE StopPart(q)'
  BY DEF RunInv, StopPart, RowPart, Alive, Asked, At, Active, FullRunTypeOK,
       Finish, Recorded, Goto
<1>6. ASSUME NEW n \in Manager PROVE ClaimPart(n)'
  BY DEF RunInv, ClaimPart, At, Active, FullRunTypeOK, MaybeRun, Finish,
       Recorded, Goto
<1>7. ASSUME NEW n \in Manager PROVE CallPart(n)'
  BY DEF RunInv, CallPart, At, FullRunTypeOK, Finish, Recorded, Goto
<1> QED BY <1>1, <1>2, <1>3, <1>4, <1>5, <1>6, <1>7 DEF RunInv

(* The outcome cannot be recorded.                                         *)
LEMMA FinishErrorStep ==
  ASSUME RunInv, FullRunTypeOK', NEW r \in Run, FinishError(r)
  PROVE  RunInv'
<1>0. /\ control' = [control EXCEPT ![r] = control'[r]]
      /\ control'[r].at = control[r].at /\ control'[r].raced = control[r].raced
      /\ \/ control'[r].pc = "cleanup"
         \/ control'[r].pc = "finish" /\ control'[r].outcome = "failed"
  BY DEF FinishError, Goto, Finishing, RunInv, FullRunTypeOK
<1>1. OneActiveRun'
  BY DEF RunInv, OneActiveRun, Active, FinishError
<1>2. ASSUME NEW q \in Run PROVE RowPart(q)'
  BY <1>0 DEF RunInv, RowPart, Alive, At, FullRunTypeOK, FinishError
<1>3. ASSUME NEW q \in Run PROVE ThreadPart(q)'
  BY <1>0 DEF RunInv, ThreadPart, At, Active, FullRunTypeOK, FinishError
<1>4. ASSUME NEW q \in Run PROVE WorkPart(q)'
  BY <1>0 DEF RunInv, WorkPart, Alive, At, Active, FullRunTypeOK, FinishError
<1>5. ASSUME NEW q \in Run PROVE StopPart(q)'
  BY <1>0 DEF RunInv, StopPart, RowPart, Alive, Asked, At, Active,
       FullRunTypeOK, FinishError
<1>6. ASSUME NEW n \in Manager PROVE ClaimPart(n)'
  BY <1>0 DEF RunInv, ClaimPart, At, Active, FullRunTypeOK, MaybeRun,
       FinishError
<1>7. ASSUME NEW n \in Manager PROVE CallPart(n)'
  <2>1. CallPart(n)
    BY DEF RunInv
  <2>2. ASSUME NEW q \in Run
        PROVE  /\ control'[q].at = control[q].at
               /\ control'[q].raced = control[q].raced
               /\ ~At(q, "off") => ~At(q, "off")'
    BY <1>0 DEF RunInv, FullRunTypeOK, At
  <2>3. manager' = manager /\ stopping' = stopping
    BY DEF FinishError
  <2>4. \A q \in Run : runs[q].stop => runs'[q].stop
    BY DEF FinishError, RunInv, FullRunTypeOK, RunRow
  <2>5. manager[n].active \in Run \cup {None}
    <3>1. manager[n] \in [claimed : MaybeRun, active : MaybeRun]
      BY DEF RunInv, FullRunTypeOK
    <3> QED BY <3>1 DEF MaybeRun
  <2>6. manager[n].active # None =>
          /\ control'[manager[n].active].pc # "off"
          /\ control'[manager[n].active].at = n
          /\ control'[manager[n].active].raced = control[manager[n].active].raced
    <3> DEFINE a == manager[n].active
    <3>1. a # None => control[a].pc # "off" /\ control[a].at = n
      BY <2>1 DEF CallPart, At
    <3>2. a # None => a \in Run
      BY <2>5
    <3> HIDE DEF a
    <3>3. ASSUME a # None
          PROVE  /\ control'[a].pc # "off" /\ control'[a].at = n
                 /\ control'[a].raced = control[a].raced
      BY <2>2, <3>1, <3>2, <3>3 DEF At
    <3> QED BY <3>3 DEF a
  <2>7. stopping[n].pc # "idle" => /\ stopping[n].target \in Run
                                   /\ runs'[stopping[n].target].stop
    BY <2>1, <2>4 DEF CallPart
  <2> QED BY <2>1, <2>3, <2>6, <2>7 DEF CallPart, At
<1> QED BY <1>1, <1>2, <1>3, <1>4, <1>5, <1>6, <1>7 DEF RunInv

(* The controller and its heartbeat thread end.                            *)
LEMMA CleanupStep ==
  ASSUME RunInv, FullRunTypeOK', NEW r \in Run, Cleanup(r)
  PROVE  RunInv'
<1>1. OneActiveRun'
  BY DEF RunInv, OneActiveRun, Active, Cleanup, NoThread
<1>2. ASSUME NEW q \in Run PROVE RowPart(q)'
  BY DEF RunInv, RowPart, Alive, At, Cleanup, NoThread
<1>3. ASSUME NEW q \in Run PROVE ThreadPart(q)'
  BY DEF RunInv, ThreadPart, At, Active, FullRunTypeOK, Cleanup, NoThread
<1>4. ASSUME NEW q \in Run PROVE WorkPart(q)'
  BY DEF RunInv, WorkPart, Alive, At, Active, Cleanup, NoThread
<1>5. ASSUME NEW q \in Run PROVE StopPart(q)'
  BY DEF RunInv, StopPart, Alive, Asked, At, Active, FullRunTypeOK, Cleanup,
       NoThread
<1>6. ASSUME NEW n \in Manager PROVE ClaimPart(n)'
  BY DEF RunInv, ClaimPart, At, Active, Cleanup, NoThread
<1>7. ASSUME NEW n \in Manager PROVE CallPart(n)'
  <2>1. CallPart(n)
    BY DEF RunInv
  <2>2. \A q \in Run \ {r} : control'[q] = control[q]
    BY DEF Cleanup
  <2>3. runs' = runs /\ stopping' = stopping
    BY DEF Cleanup
  <2>4. manager'[n].active \in {manager[n].active, None} \ {r}
    <3>1. manager[n].active = r => control[r].at = n
      BY <2>1, FullRunAssumption DEF CallPart
    <3>2. CASE n = control[r].at
      BY <3>2, FullRunAssumption DEF Cleanup, RunInv, FullRunTypeOK
    <3>3. CASE n # control[r].at
      BY <3>1, <3>3 DEF Cleanup, RunInv, FullRunTypeOK
    <3> QED BY <3>2, <3>3
  <2>5. manager[n].active \in Run \cup {None}
    <3>1. manager[n] \in [claimed : MaybeRun, active : MaybeRun]
      BY DEF RunInv, FullRunTypeOK
    <3> QED BY <3>1 DEF MaybeRun
  <2> QED BY <2>1, <2>2, <2>3, <2>4, <2>5 DEF CallPart, At
<1> QED BY <1>1, <1>2, <1>3, <1>4, <1>5, <1>6, <1>7 DEF RunInv

(* A heartbeat, which tells the controller if the row is gone.             *)
LEMMA HeartbeatStep ==
  ASSUME RunInv, FullRunTypeOK', NEW r \in Run, Heartbeat(r)
  PROVE  RunInv'
<1>1. OneActiveRun'
  BY DEF RunInv, OneActiveRun, Active, Heartbeat, Touched
<1>2. ASSUME NEW q \in Run PROVE RowPart(q)'
  BY DEF RunInv, RowPart, Alive, At, Heartbeat, Touched
<1>3. ASSUME NEW q \in Run PROVE ThreadPart(q)'
  BY FullRunAssumption DEF RunInv, ThreadPart, At, Active, FullRunTypeOK,
       Heartbeat, Touched
<1>4. ASSUME NEW q \in Run PROVE WorkPart(q)'
  BY FullRunAssumption DEF RunInv, WorkPart, Alive, At, Active, FullRunTypeOK,
       Heartbeat, Touched
<1>5. ASSUME NEW q \in Run PROVE StopPart(q)'
  BY DEF RunInv, StopPart, Alive, Asked, At, Active, FullRunTypeOK, Heartbeat,
       Touched
<1>6. ASSUME NEW n \in Manager PROVE ClaimPart(n)'
  BY FullRunAssumption DEF RunInv, ClaimPart, At, Active, Heartbeat, Touched
<1>7. ASSUME NEW n \in Manager PROVE CallPart(n)'
  BY DEF RunInv, CallPart, At, Heartbeat, Touched
<1> QED BY <1>1, <1>2, <1>3, <1>4, <1>5, <1>6, <1>7 DEF RunInv

(* A heartbeat fails for good.                                             *)
LEMMA HeartbeatErrorStep ==
  ASSUME RunInv, FullRunTypeOK', NEW r \in Run, HeartbeatError(r)
  PROVE  RunInv'
<1>1. OneActiveRun'
  BY DEF RunInv, OneActiveRun, Active, HeartbeatError
<1>2. ASSUME NEW q \in Run PROVE RowPart(q)'
  BY DEF RunInv, RowPart, Alive, At, HeartbeatError
<1>3. ASSUME NEW q \in Run PROVE ThreadPart(q)'
  BY DEF RunInv, ThreadPart, At, Active, HeartbeatError
<1>4. ASSUME NEW q \in Run PROVE WorkPart(q)'
  BY DEF RunInv, WorkPart, Alive, At, Active, FullRunTypeOK, HeartbeatError
<1>5. ASSUME NEW q \in Run PROVE StopPart(q)'
  BY DEF RunInv, StopPart, Alive, Asked, At, Active, FullRunTypeOK,
       HeartbeatError
<1>6. ASSUME NEW n \in Manager PROVE ClaimPart(n)'
  BY DEF RunInv, ClaimPart, At, Active, HeartbeatError
<1>7. ASSUME NEW n \in Manager PROVE CallPart(n)'
  BY DEF RunInv, CallPart, At, HeartbeatError
<1> QED BY <1>1, <1>2, <1>3, <1>4, <1>5, <1>6, <1>7 DEF RunInv

(* Rows age, but not those that are beaten for.                            *)
LEMMA TickStep ==
  ASSUME RunInv, FullRunTypeOK', Tick
  PROVE  RunInv'
<1>1. OneActiveRun'
  BY DEF RunInv, OneActiveRun, Active, Tick
<1>2. ASSUME NEW q \in Run PROVE RowPart(q)'
  BY DEF RunInv, RowPart, Alive, At, Tick
<1>3. ASSUME NEW q \in Run PROVE ThreadPart(q)'
  BY FullRunAssumption DEF RunInv, ThreadPart, At, Active, FullRunTypeOK,
       RunRow, Tick, Owned
<1>4. ASSUME NEW q \in Run PROVE WorkPart(q)'
  BY FullRunAssumption DEF RunInv, WorkPart, Alive, At, Active, FullRunTypeOK,
       RunRow, Tick
<1>5. ASSUME NEW q \in Run PROVE StopPart(q)'
  BY DEF RunInv, StopPart, Alive, Asked, At, Active, Tick
<1>6. ASSUME NEW n \in Manager PROVE ClaimPart(n)'
  <2> DEFINE r == manager[n].claimed
  <2>1. /\ ClaimPart(n)
        /\ manager' = manager /\ control' = control
    BY DEF RunInv, Tick
  <2>2. r # None => r \in Run
    BY DEF RunInv, FullRunTypeOK, MaybeRun
  <2>3. ASSUME r # None
        PROVE  Active(r)' /\ runs'[r].age <= Stale
    <3>1. Active(r) /\ Owned(r)
      BY <2>1, <2>3 DEF ClaimPart, Owned
    <3>2. runs[r].age < Stale /\ runs[r] \in RunRow
      BY <2>2, <2>3, <3>1 DEF Tick, RunInv, FullRunTypeOK
    <3>3. runs'[r] = [runs[r] EXCEPT !.age = @ + 1]
      <4>1. runs[r].age <= Stale
        BY <3>2, FullRunAssumption DEF RunRow
      <4>2. runs' = [q \in Run |-> IF Active(q) /\ runs[q].age <= Stale
                                THEN [runs[q] EXCEPT !.age = @ + 1] ELSE runs[q]]
        BY DEF Tick
      <4>3. r \in Run
        BY <2>2, <2>3
      <4> HIDE DEF r
      <4>4. runs'[r] = IF Active(r) /\ runs[r].age <= Stale
                       THEN [runs[r] EXCEPT !.age = @ + 1] ELSE runs[r]
        BY <4>2, <4>3 DEF Active
      <4> QED BY <3>1, <4>1, <4>4
    <3>4. /\ runs'[r].status = runs[r].status
          /\ runs'[r].age = runs[r].age + 1
      BY <3>2, <3>3 DEF RunRow
    <3>5. runs[r].age + 1 <= Stale
      <4>1. runs[r].age \in Int /\ Stale \in Int
        BY <3>2, FullRunAssumption DEF RunRow
      <4>2. \A a, b \in Int : a < b => a + 1 <= b
        OBVIOUS
      <4> QED BY <3>2, <4>1, <4>2
    <3> QED BY <2>1, <3>1, <3>4, <3>5 DEF Active
  <2> QED BY <2>1, <2>3 DEF ClaimPart, At
<1>7. ASSUME NEW n \in Manager PROVE CallPart(n)'
  BY DEF RunInv, CallPart, At, Tick
<1> QED BY <1>1, <1>2, <1>3, <1>4, <1>5, <1>6, <1>7 DEF RunInv
-----------------------------------------------------------------------------
(* Together: the invariant is inductive.                                   *)
LEMMA RunInvStep == RunInv /\ [Next]_vars => RunInv'
<1> SUFFICES ASSUME RunInv, [Next]_vars
             PROVE  RunInv'
  OBVIOUS
<1>1. FullRunTypeOK'
  BY TypeStep DEF RunInv
<1>2. ASSUME NEW m \in Manager, NEW r \in Run, Claim(m, r) \/ StopRequest(m, r)
      PROVE  RunInv'
  BY <1>1, <1>2, ClaimStep, StopRequestStep
<1>3. ASSUME NEW m \in Manager,
             \/ StartThread(m) \/ StartThreadFails(m)
             \/ StopCompare(m) \/ StopSet(m) \/ Crash(m)
      PROVE  RunInv'
  BY <1>1, <1>3, StartThreadStep, StartThreadFailsStep, StopCompareStep,
     StopSetStep, CrashStep
<1>4. ASSUME NEW r \in Run, Controller(r)
      PROVE  RunInv'
  BY <1>1, <1>4, CheckStopStep, WorkBeginStep, WorkEndStep, PreviewEndStep,
     RaiseStep, FinishStep, FinishErrorStep, CleanupStep DEF Controller
<1>5. ASSUME NEW r \in Run, Heartbeat(r) \/ HeartbeatError(r)
      PROVE  RunInv'
  BY <1>1, <1>5, HeartbeatStep, HeartbeatErrorStep
<1>6. CASE Tick
  BY <1>1, <1>6, TickStep
<1>7. CASE UNCHANGED vars
  BY <1>7 DEF vars, RunInv, OneActiveRun, RowPart, ThreadPart, WorkPart,
     StopPart, ClaimPart, CallPart, Alive, Asked, At, Active, FullRunTypeOK
<1> QED BY <1>2, <1>3, <1>4, <1>5, <1>6, <1>7 DEF Next, Call

(* The four places a run lives in always agree.                            *)
THEOREM RunInvariant == Spec => []RunInv
<1>1. Init => RunInv
  BY RunInit
<1>2. RunInv /\ [Next]_vars => RunInv'
  BY RunInvStep
<1> QED BY <1>1, <1>2, PTL DEF Spec

-----------------------------------------------------------------------------
(* The properties.                                                         *)

(* Every row, thread and call has its type.                                *)
THEOREM FullRunTypeCorrect == Spec => []FullRunTypeOK
<1>1. RunInv => FullRunTypeOK
  BY DEF RunInv
<1> QED BY <1>1, RunInvariant, PTL

(* Whichever processes claim, die and claim again, create_full_run leaves  *)
(* one active row at most.                                                 *)
THEOREM OneActiveRunAlways == Spec => []OneActiveRun
<1>1. RunInv => OneActiveRun
  BY DEF RunInv
<1> QED BY <1>1, RunInvariant, PTL

(* However long a drain takes and whichever heartbeat fails: of two        *)
(* controllers that work at once, one has lost heartbeat and row and has   *)
(* been told to stop.                                                      *)
THEOREM LateControllerAlwaysLast == Spec => []LateControllerIsLast
<1>1. RunInv => LateControllerIsLast
  BY DEF RunInv, LateControllerIsLast, OneActiveRun, WorkPart, Alive, At
<1> QED BY <1>1, RunInvariant, PTL

(* A stop reaches a run that was neither asked to stop nor has lost its    *)
(* heartbeat only if the run started between the two steps of that stop(). *)
THEOREM StopReachesItsRunAlways == Spec => []StopReachesItsRun
<1>1. RunInv => StopReachesItsRun
  BY DEF RunInv, StopReachesItsRun, StopPart, Asked
<1> QED BY <1>1, RunInvariant, PTL

(* update_full_run, heartbeat_full_run, request_full_run_stop and the next *)
(* claim leave a finished row alone.                                       *)
THEOREM FinishedAlwaysStaysFinished == Spec => FinishedStaysFinished
<1>1. RunInv /\ [Next]_vars =>
        [\A r \in Run : runs[r].status \in Finished => runs'[r] = runs[r]]_vars
  <2> SUFFICES ASSUME RunInv, Next, NEW q \in Run, runs[q].status \in Finished
               PROVE  runs'[q] = runs[q]
    BY DEF vars
  <2>1. ~Active(q)
    BY DEF Active, Finished
  <2>2. runs \in [Run -> RunRow]
    BY DEF RunInv, FullRunTypeOK
  <2>3. ASSUME NEW r \in Run, runs' = Touched(r) PROVE runs'[q] = runs[q]
    BY <2>1, <2>2, <2>3 DEF Touched
  <2>4. ASSUME NEW r \in Run, NEW s, runs' = Recorded(r, s)
        PROVE  runs'[q] = runs[q]
    BY <2>1, <2>2, <2>4 DEF Recorded
  <2>5. ASSUME NEW m \in Manager, NEW r \in Run, Claim(m, r)
        PROVE  runs'[q] = runs[q]
    BY <2>1, <2>5 DEF Claim, OldRunsInterrupted, Finished
  <2>6. ASSUME NEW m \in Manager, NEW r \in Run, StopRequest(m, r)
        PROVE  runs'[q] = runs[q]
    BY <2>1, <2>2, <2>6 DEF StopRequest
  <2>7. ASSUME NEW m \in Manager,
               \/ StartThread(m) \/ StartThreadFails(m) \/ StopCompare(m)
               \/ StopSet(m) \/ Crash(m)
        PROVE  runs'[q] = runs[q]
    <3>1. manager[m].claimed # None => manager[m].claimed \in Run
      BY DEF RunInv, FullRunTypeOK, MaybeRun
    <3> QED BY <2>3, <2>4, <2>7, <3>1 DEF StartThread, StartThreadFails,
            StopCompare, StopSet, Crash
  <2>8. ASSUME NEW r \in Run, Controller(r) \/ Heartbeat(r) \/ HeartbeatError(r)
        PROVE  runs'[q] = runs[q]
    BY <2>3, <2>4, <2>8 DEF Controller, CheckStop, WorkBegin, WorkEnd,
       PreviewEnd, Raise, Finish, FinishError, Cleanup, Heartbeat, HeartbeatError
  <2>9. CASE Tick
    BY <2>1, <2>9 DEF Tick
  <2> QED BY <2>5, <2>6, <2>7, <2>8, <2>9 DEF Next, Call
<1> QED BY <1>1, RunInvariant, PTL DEF Spec, FinishedStaysFinished

-----------------------------------------------------------------------------
(* The loop of a run.  What it has read of a queue as idle goes on being   *)
(* idle, if all it has read so far was: only a full-text job enqueues for  *)
(* another queue, and the queues it enqueues for are read after its own.   *)

Quiet(t) ==
  \A j \in Job : jobs[j].type = t => jobs[j].status \in {"absent", "settled"}
Clear(t) == ~seen[t].queued /\ ~seen[t].running

ReadIsQuiet ==
  (\A i \in 1..read : Clear(ReadOrder[i])) => (\A i \in 1..read : Quiet(ReadOrder[i]))

LoopOK ==
  /\ pc = "head" => read = 0
  /\ pc = "read" => read < Len(ReadOrder)
  /\ pc = "decide" => read = Len(ReadOrder)
  /\ pc \in {"read", "decide"} => ReadIsQuiet
  /\ pc # "drain" => active = NoDrain /\ scan # "due"
  /\ pc # "complete" => idle < options.idleCycles

IngestInv == IngestTypeOK /\ LoopOK /\ CompleteIsQuiet

IngestJob == [type : Type, holder : Holder, lapsed : BOOLEAN,
              status : {"absent", "queued", "running", "settled"}]

LEMMA OrderOfReading ==
  /\ Len(ReadOrder) = 5
  /\ ReadOrder \in Seq(Type)
  /\ ReadOrder[1] = "enrich" /\ ReadOrder[2] = "arxiv_html"
  /\ ReadOrder[3] = "full_text" /\ ReadOrder[4] = "researchgate_pdf"
  /\ ReadOrder[5] = "scihub_pdf"
  BY DEF ReadOrder, Type

LEMMA EveryQueueIsRead ==
  /\ \A t \in Type : \E i \in 1..5 : ReadOrder[i] = t
  /\ \A i \in 1..5 : ReadOrder[i] \in Type
  /\ \A i, k \in 1..5 : ReadOrder[i] = ReadOrder[k] => i = k
<1>1. \A i \in 1..5 : i = 1 \/ i = 2 \/ i = 3 \/ i = 4 \/ i = 5
  OBVIOUS
<1> QED BY <1>1, OrderOfReading DEF Type

LEMMA IdleCyclesPositive ==
  ASSUME IngestTypeOK
  PROVE  options.idleCycles \in Nat \ {0} /\ idle \in Nat
<1>1. options.idleCycles \in IdleCycles
  BY DEF IngestTypeOK
<1>2. options.idleCycles \in Nat \ {0}
  BY <1>1, IngestAssumption
<1>3. idle \in 0 .. options.idleCycles
  BY DEF IngestTypeOK
<1> QED BY <1>2, <1>3

LEMMA QueuedIsJob ==
  /\ \A t \in Type : /\ Queued(t) \in IngestJob /\ Queued(t).type = t
                     /\ Queued(t).status = "queued"
  /\ Absent \in IngestJob /\ Absent.status = "absent"
  BY DEF Queued, Absent, IngestJob, Holder, Type

LEMMA JobParts ==
  ASSUME NEW job \in IngestJob, NEW holder \in Holder, NEW status \in {"running", "settled"}
  PROVE  /\ [job EXCEPT !.status = status, !.holder = holder] \in IngestJob
         /\ [job EXCEPT !.status = status, !.holder = holder].status = status
         /\ [job EXCEPT !.status = status, !.holder = holder].type = job.type
         /\ [job EXCEPT !.holder = holder] \in IngestJob
         /\ [job EXCEPT !.holder = holder].status = job.status
         /\ [job EXCEPT !.holder = holder].type = job.type
         /\ [job EXCEPT !.lapsed = TRUE] \in IngestJob
         /\ [job EXCEPT !.lapsed = TRUE].status = job.status
         /\ [job EXCEPT !.lapsed = TRUE].type = job.type
  BY DEF IngestJob

LEMMA IngestInitInv == IngestInit => IngestInv
<1>1. SUFFICES ASSUME IngestInit PROVE IngestInv
  OBVIOUS
<1>2. jobs \in [Job -> IngestJob]
  <2>1. \A t \in Type : [Queued(t) EXCEPT !.status = "running", !.holder = "elsewhere"]
                          \in IngestJob
    BY DEF Queued, IngestJob, Holder
  <2> QED BY <1>1, <2>1, QueuedIsJob DEF IngestInit, Type
<1>3. IngestTypeOK
  BY <1>1, <1>2, IngestAssumption, OrderOfReading
     DEF IngestInit, IngestTypeOK, IngestJob, NothingSeen, NoDrain, Off
<1>4. LoopOK /\ CompleteIsQuiet
  BY <1>1, IngestAssumption DEF IngestInit, LoopOK, CompleteIsQuiet
<1> QED BY <1>3, <1>4 DEF IngestInv

(* What the steps of the queue do: they take a job of one type, and the    *)
(* sweep of that type may have taken others up.                            *)
LEMMA SweptIsTable ==
  ASSUME jobs \in [Job -> IngestJob], NEW t \in Type
  PROVE  /\ Swept(t) \in [Job -> IngestJob]
         /\ \A k \in Job : /\ Swept(t)[k].type = jobs[k].type
                           /\ Swept(t)[k] # jobs[k] => /\ jobs[k].type = t
                                                      /\ jobs[k].status = "running"
  BY QueuedIsJob DEF Swept

LEMMA LeaseChanges ==
  ASSUME jobs \in [Job -> IngestJob], NEW t \in Type, NEW j \in Job,
         NEW holder \in Holder, LeaseNext(t, j, holder)
  PROVE  /\ jobs' \in [Job -> IngestJob]
         /\ ~Quiet(t)
         /\ \A u \in Type : Quiet(u) => Quiet(u)'
<1> DEFINE table == Swept(t)
<1>1. /\ table \in [Job -> IngestJob]
      /\ \A k \in Job : /\ table[k].type = jobs[k].type
                        /\ table[k] # jobs[k] => /\ jobs[k].type = t
                                                 /\ jobs[k].status = "running"
  BY SweptIsTable
<1>2. table[j].type = t /\ table[j].status = "queued" /\ jobs' = LeasedBy(table, j, holder)
  BY DEF LeaseNext, Leasable
<1>3. ~Quiet(t)
  BY <1>1, <1>2 DEF Quiet
<1> HIDE DEF table
<1> DEFINE rec == [table[j] EXCEPT !.status = "running", !.holder = holder]
<1>4. rec \in IngestJob /\ rec.type = t
  BY <1>1, <1>2, JobParts
<1>5. jobs' = [table EXCEPT ![j] = rec]
  BY <1>2 DEF LeasedBy
<1> HIDE DEF rec
<1>6. jobs' \in [Job -> IngestJob]
  BY <1>1, <1>4, <1>5
<1>7. ASSUME NEW u \in Type, Quiet(u) PROVE Quiet(u)'
  <2>1. u # t
    BY <1>3, <1>7
  <2>2. \A k \in Job : jobs'[k].type = u => jobs'[k] = jobs[k]
    BY <1>1, <1>4, <1>5, <2>1
  <2> QED BY <1>7, <2>2 DEF Quiet
<1> QED BY <1>3, <1>6, <1>7

(* What others do to a queue that is quiet leaves it quiet, as long as the *)
(* full-text queue is quiet too or it is not one of the fallback queues.   *)
LEMMA OthersChange ==
  ASSUME jobs \in [Job -> IngestJob], NEW j \in Job, Elsewhere(j)
  PROVE  /\ jobs' \in [Job -> IngestJob] /\ UNCHANGED loop
         /\ \A u \in Type : Quiet(u) /\ (u \in Fallback => Quiet("full_text"))
                              => Quiet(u)'
<1>1. CASE EnqueueFallback(j)
  <2>1. PICK k \in Job, t \in Fallback : jobs' = [jobs EXCEPT ![k] = Queued(t)]
    BY <1>1 DEF EnqueueFallback
  <2>2. t \in Type /\ ~Quiet("full_text")
    BY <1>1 DEF EnqueueFallback, Quiet, Fallback, Type
  <2>3. jobs' \in [Job -> IngestJob]
    BY <2>1, <2>2, QueuedIsJob
  <2>4. \A u \in Type \ Fallback : Quiet(u) => Quiet(u)'
    BY <2>1, <2>2, QueuedIsJob DEF Quiet
  <2> QED BY <1>1, <2>2, <2>3, <2>4 DEF EnqueueFallback
<1>2. CASE Report(j)
  <2> DEFINE rec == [jobs[j] EXCEPT !.status = "settled", !.holder = "nobody"]
  <2>1. rec \in IngestJob /\ rec.status = "settled"
    <3>1. jobs[j] \in IngestJob /\ "nobody" \in Holder
      BY DEF Holder
    <3> QED BY <3>1, JobParts, Zenon
  <2>2. jobs' = [jobs EXCEPT ![j] = rec]
    BY <1>2 DEF Report, Settled, Released
  <2> HIDE DEF rec
  <2> QED BY <1>2, <2>1, <2>2 DEF Report, Quiet
<1>3. CASE WorkerDies(j)
  <2> DEFINE rec == [jobs[j] EXCEPT !.holder = "dead"]
  <2>1. rec \in IngestJob /\ rec.status = jobs[j].status /\ rec.type = jobs[j].type
    BY JobParts DEF Holder
  <2>2. jobs' = [jobs EXCEPT ![j] = rec]
    BY <1>3 DEF WorkerDies
  <2> HIDE DEF rec
  <2> QED BY <1>3, <2>1, <2>2 DEF WorkerDies, Quiet
<1>4. CASE LeaseLapses(j)
  <2> DEFINE rec == [jobs[j] EXCEPT !.lapsed = TRUE]
  <2>1. rec \in IngestJob /\ rec.status = jobs[j].status /\ rec.type = jobs[j].type
    BY "nobody" \in Holder, JobParts DEF Holder
  <2>2. jobs' = [jobs EXCEPT ![j] = rec]
    BY <1>4 DEF LeaseLapses
  <2> HIDE DEF rec
  <2> QED BY <1>4, <2>1, <2>2 DEF LeaseLapses, Quiet
<1>5. ASSUME NEW t \in Type, LeaseElsewhere(t, j)
      PROVE  /\ jobs' \in [Job -> IngestJob] /\ UNCHANGED loop
             /\ \A u \in Type : Quiet(u) => Quiet(u)'
  BY <1>5, LeaseChanges DEF LeaseElsewhere, Holder
<1> QED BY <1>1, <1>2, <1>3, <1>4, <1>5 DEF Elsewhere

LEMMA ElsewhereStep ==
  ASSUME IngestInv, NEW j \in Job, Elsewhere(j)
  PROVE  IngestInv'
<1>1. /\ jobs \in [Job -> IngestJob] /\ read \in 0..5
  BY OrderOfReading DEF IngestInv, IngestTypeOK, IngestJob
<1>2. /\ jobs' \in [Job -> IngestJob] /\ UNCHANGED loop
      /\ \A u \in Type : Quiet(u) /\ (u \in Fallback => Quiet("full_text"))
                           => Quiet(u)'
  BY <1>1, OthersChange
<1>3. IngestTypeOK'
  BY <1>2 DEF IngestInv, IngestTypeOK, IngestJob, loop
<1>4. ReadIsQuiet => ReadIsQuiet'
  <2>1. SUFFICES ASSUME \A k \in 1..read : Quiet(ReadOrder[k]), NEW i \in 1..read
                 PROVE  Quiet(ReadOrder[i])'
    BY <1>1, <1>2 DEF ReadIsQuiet, loop, Clear
  <2>2. ReadOrder[i] \in Type
    BY <1>1, EveryQueueIsRead
  <2>3. ReadOrder[i] \in Fallback => i \in {4, 5}
    BY <1>1, OrderOfReading, EveryQueueIsRead DEF Fallback
  <2>4. i \in {4, 5} => 3 \in 1..read
    BY <1>1
  <2>5. ReadOrder[i] \in Fallback => Quiet("full_text")
    BY <2>1, <2>3, <2>4, OrderOfReading
  <2> QED BY <1>2, <2>1, <2>2, <2>5
<1>5. LoopOK'
  BY <1>2, <1>4 DEF IngestInv, LoopOK, loop
<1>6. CompleteIsQuiet'
  <2>1. SUFFICES ASSUME pc = "complete"
                 PROVE  \A k \in Job : jobs'[k].status \in {"absent", "settled"}
    BY <1>2 DEF CompleteIsQuiet, loop
  <2>2. \A u \in Type : Quiet(u)
    BY <2>1 DEF IngestInv, CompleteIsQuiet, Quiet
  <2>3. \A u \in Type : Quiet(u)'
    BY <1>2, <2>2 DEF Type
  <2>4. \A k \in Job : jobs'[k].type \in Type
    BY <1>2 DEF IngestJob
  <2> QED BY <2>3, <2>4 DEF Quiet
<1> QED BY <1>3, <1>5, <1>6 DEF IngestInv

(* The steps of the loop itself.                                           *)
LEMMA EnqueuedIsTable ==
  ASSUME jobs \in [Job -> IngestJob], NEW t \in Type, NEW found \in SUBSET Job
  PROVE  Enqueued(found, t) \in [Job -> IngestJob]
  BY QueuedIsJob DEF Enqueued

LEMMA IntakeStep ==
  ASSUME IngestInv, Intake \/ NoIntake
  PROVE  IngestInv'
<1>1. jobs' \in [Job -> IngestJob]
  <2>1. CASE Intake
    <3>1. PICK found \in SUBSET InStatus("absent"),
               t \in {"enrich", "full_text", "arxiv_html"} :
            jobs' = Enqueued(found, t)
      BY <2>1 DEF Intake
    <3> QED BY <3>1, EnqueuedIsTable DEF InStatus, Type, IngestInv, IngestTypeOK, IngestJob
  <2>2. CASE NoIntake
    BY <2>2 DEF NoIntake, IngestInv, IngestTypeOK, IngestJob
  <2> QED BY <2>1, <2>2
<1>2. /\ pc = "head" /\ pc' = "read" /\ scan' \in {scan, "pending"}
      /\ elapsed' \in {elapsed, 0}
      /\ UNCHANGED <<options, seen, read, active, idle>>
  BY DEF Intake, NoIntake
<1>3. read' = 0
  BY <1>2 DEF IngestInv, LoopOK
<1>4. IngestTypeOK'
  BY <1>1, <1>2, IngestAssumption DEF IngestInv, IngestTypeOK, IngestJob
<1>5. ReadIsQuiet'
  BY <1>3 DEF ReadIsQuiet
<1>6. LoopOK'
  BY <1>2, <1>3, <1>5, OrderOfReading DEF IngestInv, LoopOK
<1>7. CompleteIsQuiet'
  BY <1>2 DEF CompleteIsQuiet
<1> QED BY <1>4, <1>6, <1>7 DEF IngestInv

LEMMA ReadSummaryStep ==
  ASSUME IngestInv, ReadSummary
  PROVE  IngestInv'
<1> DEFINE t == ReadOrder[read + 1]
           sum == [queued  |-> InQueue(t, "queued") # {},
                   running |-> InQueue(t, "running") # {}]
<1>1. /\ pc = "read" /\ seen' = [seen EXCEPT ![t] = sum] /\ read' = read + 1
      /\ pc' = IF read' = 5 THEN "decide" ELSE "read"
      /\ UNCHANGED <<jobs, options, active, scan, idle, elapsed>>
  BY OrderOfReading DEF ReadSummary
<1>2. read \in 0..4 /\ t \in Type
  BY <1>1, OrderOfReading, EveryQueueIsRead DEF IngestInv, LoopOK, IngestTypeOK
<1>3. sum \in [queued : BOOLEAN, running : BOOLEAN]
  <2> DEFINE a == InQueue(t, "queued") # {}
             b == InQueue(t, "running") # {}
  <2>1. \A q, run \in BOOLEAN :
          [queued |-> q, running |-> run] \in [queued : BOOLEAN, running : BOOLEAN]
    BY Zenon
  <2>2. a \in BOOLEAN /\ b \in BOOLEAN /\ sum = [queued |-> a, running |-> b]
    BY Zenon
  <2> HIDE DEF a, b, sum
  <2> QED BY <2>1, <2>2, Zenon
<1>4. /\ sum.queued = (InQueue(t, "queued") # {})
      /\ sum.running = (InQueue(t, "running") # {})
  OBVIOUS
<1> HIDE DEF sum
<1>5. IngestTypeOK'
  BY <1>1, <1>2, <1>3, OrderOfReading DEF IngestInv, IngestTypeOK
<1>6. ReadIsQuiet'
  <2>1. SUFFICES ASSUME \A i \in 1..(read + 1) : Clear(ReadOrder[i])',
                        NEW i \in 1..(read + 1)
                 PROVE  Quiet(ReadOrder[i])
    BY <1>1 DEF ReadIsQuiet, Quiet
  <2>2. seen'[t] = sum
    BY <1>1, <1>2 DEF IngestInv, IngestTypeOK
  <2>3. CASE i = read + 1
    <3>1. ~seen'[t].queued /\ ~seen'[t].running
      BY <2>1, <2>3 DEF Clear
    <3> HIDE DEF t
    <3>2. InQueue(t, "queued") = {} /\ InQueue(t, "running") = {}
      BY <1>4, <2>2, <3>1
    <3>3. \A j \in Job : jobs[j].status \in {"absent", "queued", "running", "settled"}
      BY DEF IngestInv, IngestTypeOK
    <3>4. Quiet(t)
      BY <3>2, <3>3 DEF InQueue, Quiet
    <3> QED BY <2>3, <3>4 DEF t
  <2>4. CASE i # read + 1
    <3>1. ASSUME NEW k \in 1..read
          PROVE  k \in 1..(read + 1) /\ seen'[ReadOrder[k]] = seen[ReadOrder[k]]
      <4>1. /\ k \in 1..5 /\ read + 1 \in 1..5 /\ k # read + 1
            /\ k \in 1..(read + 1)
        BY <1>2
      <4>2. ReadOrder[k] \in Type /\ ReadOrder[k] # t
        BY <4>1, EveryQueueIsRead
      <4> HIDE DEF t
      <4> QED BY <1>1, <4>1, <4>2 DEF IngestInv, IngestTypeOK
    <3>2. \A k \in 1..read : Clear(ReadOrder[k])
      BY <2>1, <3>1 DEF Clear
    <3>3. i \in 1..read
      BY <1>2, <2>4
    <3> QED BY <1>1, <3>2, <3>3 DEF IngestInv, LoopOK, ReadIsQuiet
  <2> QED BY <2>3, <2>4
<1>7. LoopOK'
  BY <1>1, <1>2, <1>6, OrderOfReading DEF IngestInv, LoopOK
<1>8. CompleteIsQuiet'
  BY <1>1 DEF CompleteIsQuiet
<1> QED BY <1>5, <1>7, <1>8 DEF IngestInv

(* While drains run, the loop only waits for them.                         *)
LEMMA DrainStep ==
  ASSUME IngestInv,
         StartDrains \/ ScanBacklog \/ DrainsDone
           \/ \E t \in Type : \/ DrainRefused(t) \/ DrainEmpty(t) \/ DrainEnd(t)
                              \/ \E j \in Job : DrainLease(t, j)
  PROVE  IngestInv'
<1>1. CASE StartDrains
  <2>1. \A t \in Type : (IF t \in Ready THEN 0 ELSE Off) \in Off..DrainLimit
    BY IngestAssumption DEF Off
  <2>2. active' \in [Type -> Off..DrainLimit]
    BY <1>1, <2>1 DEF StartDrains
  <2>3. IngestTypeOK'
    BY <1>1, <2>2 DEF StartDrains, IngestInv, IngestTypeOK
  <2> QED BY <1>1, <2>3 DEF StartDrains, IngestInv, LoopOK, CompleteIsQuiet
<1>2. CASE ScanBacklog
  <2>1. PICK found \in SUBSET InStatus("absent") :
          jobs' = Enqueued(found, "scihub_pdf")
    BY <1>2 DEF ScanBacklog
  <2>2. jobs' \in [Job -> IngestJob]
    BY <2>1, EnqueuedIsTable DEF InStatus, Type, IngestInv, IngestTypeOK, IngestJob
  <2>3. IngestTypeOK' /\ pc' = "drain"
    BY <1>2, <2>2
       DEF ScanBacklog, ScanDone, IngestInv, LoopOK, IngestTypeOK, IngestJob
  <2> QED BY <1>2, <2>3 DEF ScanBacklog, IngestInv, LoopOK, CompleteIsQuiet
<1>3. CASE DrainsDone
  <2>1. elapsed' \in 0..IntakeEvery
    BY <1>3, IngestAssumption DEF DrainsDone, IngestInv, IngestTypeOK
  <2>2. IngestTypeOK'
    BY <1>3, <2>1, IdleCyclesPositive, OrderOfReading
       DEF DrainsDone, IngestInv, IngestTypeOK, NewCycle, NothingSeen
  <2> QED BY <1>3, <2>2, IdleCyclesPositive
          DEF DrainsDone, IngestInv, LoopOK, CompleteIsQuiet, NewCycle
<1>4. ASSUME NEW t \in Type, active[t] # Off PROVE pc = "drain"
  BY <1>4 DEF IngestInv, LoopOK, NoDrain
<1>5. ASSUME NEW t \in Type, DrainRefused(t) \/ DrainEmpty(t) \/ DrainEnd(t)
      PROVE  IngestInv'
  <2>1. active[t] # Off /\ UNCHANGED <<jobs, options, pc, seen, read, scan, idle, elapsed>>
    BY <1>5, IngestAssumption DEF DrainRefused, DrainEmpty, DrainEnd, Off
  <2>2. \E slots \in Off..DrainLimit : active' = [active EXCEPT ![t] = slots]
    <3>1. CASE DrainEmpty(t)
      <4>1. PICK slots \in active[t] + 1 .. DrainLimit :
              active' = [active EXCEPT ![t] = slots]
        BY <3>1 DEF DrainEmpty
      <4>2. active[t] \in 0 .. DrainLimit
        BY <3>1, IngestAssumption DEF DrainEmpty
      <4>3. slots \in Off..DrainLimit
        BY <4>1, <4>2, IngestAssumption DEF Off
      <4> QED BY <4>1, <4>3
    <3>2. Off \in Off..DrainLimit
      BY IngestAssumption DEF Off
    <3> QED BY <1>5, <3>1, <3>2 DEF DrainRefused, DrainEnd
  <2>3. IngestTypeOK' /\ pc' = "drain"
    BY <1>4, <2>1, <2>2 DEF IngestInv, IngestTypeOK
  <2> QED BY <1>4, <2>1, <2>3 DEF IngestInv, LoopOK, CompleteIsQuiet
<1>6. ASSUME NEW t \in Type, NEW j \in Job, DrainLease(t, j) PROVE IngestInv'
  <2>1. jobs' \in [Job -> IngestJob]
    BY <1>6, LeaseChanges
       DEF DrainLease, Holder, IngestInv, IngestTypeOK, IngestJob
  <2>2. active[t] + 1 \in Off..DrainLimit
    BY <1>6, IngestAssumption DEF DrainLease, IngestInv, IngestTypeOK, Off
  <2>3. IngestTypeOK' /\ pc' = "drain"
    <3>1. active[t] # Off
      BY <1>6, IngestAssumption DEF DrainLease, Off
    <3> QED BY <1>4, <1>6, <2>1, <2>2, <3>1
            DEF DrainLease, IngestInv, IngestTypeOK, IngestJob
  <2> QED BY <1>6, <2>3 DEF DrainLease, IngestInv, LoopOK, CompleteIsQuiet
<1> QED BY <1>1, <1>2, <1>3, <1>5, <1>6

(* A cycle that found all queues clear found them quiet, the last one too. *)
LEMMA IdleStep ==
  ASSUME IngestInv, Wait \/ IdleCycle
  PROVE  IngestInv'
<1>1. /\ pc = "decide" /\ NewCycle /\ elapsed' = Slept
      /\ UNCHANGED <<jobs, options, active, scan>>
  BY DEF Wait, IdleCycle
<1>2. elapsed' \in 0..IntakeEvery
  BY <1>1, IngestAssumption DEF Slept, IngestInv, IngestTypeOK
<1>3. seen' \in [Type -> [queued : BOOLEAN, running : BOOLEAN]] /\ read' = 0
  BY <1>1 DEF NewCycle, NothingSeen
<1>4. CASE Wait
  <2>1. IngestTypeOK'
    BY <1>1, <1>2, <1>3, <1>4, OrderOfReading DEF Wait, IngestInv, IngestTypeOK
  <2> QED BY <1>1, <1>3, <1>4, <2>1 DEF Wait, IngestInv, LoopOK, CompleteIsQuiet
<1>5. CASE IdleCycle
  <2>1. /\ idle < options.idleCycles /\ idle' = idle + 1
        /\ idle' \in 0..options.idleCycles /\ options' = options
    BY <1>1, <1>5, IdleCyclesPositive DEF IdleCycle, IngestInv, LoopOK, IngestTypeOK
  <2>2. IngestTypeOK'
    BY <1>1, <1>2, <1>3, <1>5, <2>1, OrderOfReading
       DEF IdleCycle, IngestInv, IngestTypeOK
  <2>3. LoopOK'
    <3>1. pc' \in {"head", "complete"} /\ (pc' = "head" => idle' # options.idleCycles)
      BY <1>5 DEF IdleCycle
    <3>2. pc' # "complete" => idle' < options.idleCycles
      BY <2>1, <3>1, IdleCyclesPositive DEF IngestInv
    <3>3. active' = NoDrain /\ scan' # "due"
      BY <1>1 DEF IngestInv, LoopOK
    <3> QED BY <1>3, <2>1, <3>1, <3>2, <3>3 DEF LoopOK
  <2>4. \A t \in Type : Clear(t)
    BY <1>5 DEF IdleCycle, SomethingToDo, SomethingRuns, Ready, Clear
  <2>5. \A t \in Type : Quiet(t)
    BY <1>1, <2>4, OrderOfReading, EveryQueueIsRead DEF IngestInv, LoopOK, ReadIsQuiet
  <2>6. CompleteIsQuiet'
    BY <1>1, <2>5 DEF IngestInv, IngestTypeOK, CompleteIsQuiet, Quiet
  <2> QED BY <2>2, <2>3, <2>6 DEF IngestInv
<1> QED BY <1>4, <1>5

LEMMA IngestNextInv == IngestInv /\ [IngestNext]_ivars => IngestInv'
<1>1. SUFFICES ASSUME IngestInv, [IngestNext]_ivars PROVE IngestInv'
  OBVIOUS
<1>2. CASE Loop
  BY <1>1, <1>2, IntakeStep, ReadSummaryStep, DrainStep, IdleStep DEF Loop
<1>3. CASE UNCHANGED ivars
  BY <1>1, <1>3
     DEF ivars, IngestInv, IngestTypeOK, LoopOK, ReadIsQuiet, Clear, Quiet,
         CompleteIsQuiet
<1>4. CASE \E j \in Job : Elsewhere(j)
  BY <1>1, <1>4, ElsewhereStep
<1> QED BY <1>1, <1>2, <1>3, <1>4 DEF IngestNext, Stutter

(* The invariant of the loop.                                              *)
THEOREM IngestInvariant == IngestSpec => []IngestInv
<1> QED BY IngestInitInv, IngestNextInv, PTL DEF IngestSpec

(* The variables of the loop keep their types: no drain of a cycle leases  *)
(* more than its limit and no more idle cycles are counted than end a run. *)
THEOREM IngestTypeCorrect == IngestSpec => []IngestTypeOK
<1>1. IngestInv => IngestTypeOK
  BY DEF IngestInv
<1> QED BY <1>1, IngestInvariant, PTL

(* A run that says all its queues were idle is right, however other        *)
(* workers, their deaths and the fallback jobs fall between its readings.  *)
THEOREM CompleteIsQuietAlways == IngestSpec => []CompleteIsQuiet
<1>1. IngestInv => CompleteIsQuiet
  BY DEF IngestInv
<1> QED BY <1>1, IngestInvariant, PTL
=============================================================================

---------------------------- MODULE MetadataDrain ----------------------------
(***************************************************************************)
(* Draining the metadata queue (metadata_processor.py, _drain_queue and    *)
(* below).  A drain runs in one process: it sweeps expired leases, then    *)
(* its worker threads lease one job after the other until the drain's      *)
(* limit is used up or the queue is empty.  Each worker has a lease owner  *)
(* of its own (host:uuid:pid, with :worker=n added when there are several),*)
(* so workers stand for owners.  While the handler of a job runs, a second *)
(* thread renews the lease, and the handler asks before each write to      *)
(* Zotero whether that thread has found the lease lost.                    *)
(*                                                                         *)
(* The store is that of MetadataQueue: every step of a worker or of its    *)
(* heartbeat thread is one step of the store with the worker's bookkeeping *)
(* conjoined, and an operator enqueues, retries and cancels meanwhile.     *)
(***************************************************************************)
EXTENDS MetadataQueue

CONSTANTS
  Worker,        \* worker threads of all drains; each is its own lease owner
  Drain,         \* drains, each a process that runs once
  Layouts,       \* the ways workers may be spread over drains
  Intake,        \* the client through which jobs are enqueued
  Limit,         \* the limit argument of a drain
  MaxWrites,     \* bound on the writes to Zotero a handler makes
  MaxStretch,    \* most writes a handler makes after one look at its lease
  MaxClaims,     \* bound on how often a job is leased
  PromptReread   \* whether lease_next returns within the lease, see LeaseReturn

Main(w) == <<w, "main">>
Beat(w) == <<w, "beat">>

ASSUME DrainAssumption ==
  /\ Worker \subseteq Owner
  /\ Layouts \subseteq [Worker -> Drain]
  /\ {Main(w) : w \in Worker} \cup {Beat(w) : w \in Worker}
       \cup Drain \cup {Intake} \subseteq Client
  /\ Intake \notin Drain
  /\ \A w \in Worker : Main(w) \notin Drain \cup {Intake}
                       /\ Beat(w) \notin Drain \cup {Intake}
  /\ Limit \in Nat \ {0}
  /\ MaxWrites \in Nat
  /\ MaxStretch \in Nat
  /\ MaxClaims \in Nat
  /\ PromptReread \in BOOLEAN

VARIABLES
  layout,   \* per worker, the drain it is a thread of; never changes
  drain,    \* per drain: its phase, and the slots its workers have reserved
  work,     \* per worker: where it is and what it holds
  beat,     \* per worker: its heartbeat thread
  claims,   \* history: how often a job has been leased
  author    \* history: the claim whose report wrote the relay columns

own == <<drain, work, beat, claims, author>>
dvars == <<vars, own, layout>>

Phases == {"new", "sweeping", "running", "dead"}
PCs == {"idle", "leasing", "leased", "granted", "probing", "working",
        "writing", "reporting", "failing", "done"}

NoToken == [job |-> None, owner |-> None, attempt |-> 0]
Free == [pc |-> "idle", token |-> NoToken, claim |-> 0, writes |-> 0,
         left |-> 0, late |-> 0]
NoBeat == [pc |-> "off", token |-> NoToken, deadline |-> 0, lost |-> FALSE]
Nobody == [worker |-> None, claim |-> 0]

AnyToken == [job : Job \cup {None}, owner : Owner \cup {None}, attempt : Nat]

DrainTypeOK ==
  /\ TypeOK
  /\ layout \in Layouts
  /\ drain \in [Drain -> [phase : Phases, slots : 0..Limit]]
  /\ work \in [Worker -> [pc : PCs, token : AnyToken, claim : Nat,
                          writes : 0..MaxWrites, left : 0..MaxStretch,
                          late : Nat]]
  /\ beat \in [Worker -> [pc : {"off", "waiting", "sending"}, token : AnyToken,
                          deadline : Nat, lost : BOOLEAN]]
  /\ claims \in [Job -> 0..MaxClaims]
  /\ author \in [Job -> [worker : Worker \cup {None}, claim : Nat]]

DrainInit ==
  /\ Init
  /\ layout \in Layouts
  /\ drain = [d \in Drain |->
                [phase |-> IF \E w \in Worker : layout[w] = d THEN "new" ELSE "dead",
                 slots |-> 0]]
  /\ work = [w \in Worker |-> Free]
  /\ beat = [w \in Worker |-> NoBeat]
  /\ claims = [j \in Job |-> 0]
  /\ author = [j \in Job |-> Nobody]

-----------------------------------------------------------------------------
At(w, pc) == work[w].pc = pc /\ drain[layout[w]].phase # "dead"
Goto(w, pc) == work' = [work EXCEPT ![w].pc = pc]

(* heartbeat_stop.set(): a thread that waits ends; one that is inside its  *)
(* call lives on (join gives up after a second) and ends with the call.    *)
Stopped(w) == IF beat[w].pc = "sending" THEN beat[w] ELSE NoBeat

(* The worker is done with its job, however it went.                       *)
EndJob(w, pc) ==
  /\ work' = [work EXCEPT ![w] = [Free EXCEPT !.pc = pc]]
  /\ beat' = [beat EXCEPT ![w] = Stopped(w)]

-----------------------------------------------------------------------------
(* _drain_queue: the sweep before the workers start.                       *)

DrainStart(d) ==
  /\ drain[d].phase = "new"
  /\ SweepSelect(d, None)
  /\ drain' = [drain EXCEPT ![d].phase = "sweeping"]
  /\ UNCHANGED <<work, beat, claims, author>>

DrainSwept(d) ==
  /\ drain[d].phase = "sweeping"
  /\ SweepUpdate(d)
  /\ drain' = [drain EXCEPT ![d].phase = "running"]
  /\ UNCHANGED <<work, beat, claims, author>>

(* A worker reserves a slot under counter_lock, then starts to lease.  (The*)
(* sequential drain counts its results instead, which comes to the same.)  *)
LeaseStart(w) ==
  LET d == layout[w] IN
  /\ At(w, "idle")
  /\ drain[d].phase = "running"
  /\ drain[d].slots < Limit
  /\ SweepSelect(Main(w), w)
  /\ drain' = [drain EXCEPT ![d].slots = @ + 1]
  /\ Goto(w, "leasing")
  /\ UNCHANGED <<beat, claims, author>>

LimitReached(w) ==
  /\ At(w, "idle")
  /\ drain[layout[w]].phase = "running"
  /\ drain[layout[w]].slots >= Limit
  /\ Goto(w, "done")
  /\ UNCHANGED <<vars, drain, beat, claims, author>>

LeaseSwept(w) ==
  /\ At(w, "leasing")
  /\ SweepUpdate(Main(w))
  /\ UNCHANGED own

LeaseNone(w) ==
  /\ At(w, "leasing")
  /\ LeaseNothing(Main(w))
  /\ Goto(w, "done")
  /\ UNCHANGED <<drain, beat, claims, author>>

LeaseCommit(w, j) ==
  /\ At(w, "leasing")
  /\ claims[j] < MaxClaims
  /\ LeaseJob(Main(w), j)
  /\ claims' = [claims EXCEPT ![j] = @ + 1]
  /\ author' = [author EXCEPT ![j] = Nobody]
  /\ work' = [work EXCEPT ![w] =
                [@ EXCEPT !.pc = "leased", !.claim = claims'[j],
                          !.token = [NoToken EXCEPT !.job = j]]]
  /\ UNCHANGED <<drain, beat>>

(* lease_next_metadata_job does not return the row it has written: it      *)
(* reads it again, on a new connection, and the drain takes owner and      *)
(* attempt from what that read returns.  A row without an owner is refused *)
(* as an invalid lease.                                                    *)
LeaseReturn(w) ==
  LET k   == work[w]
      row == jobs[k.token.job]
  IN
  /\ At(w, "leased")
  /\ work' = [work EXCEPT ![w] =
                IF row.owner = None THEN Free
                ELSE [k EXCEPT !.pc = "granted",
                               !.token = [job |-> k.token.job, owner |-> row.owner,
                                          attempt |-> row.attempts]]]
  /\ UNCHANGED <<vars, drain, beat, claims, author>>

(* The first heartbeat, before the handler.  A thread of the last job that *)
(* is still inside its call is waited for here (one thread per worker).    *)
ProbeSend(w) ==
  /\ At(w, "granted")
  /\ beat[w].pc = "off"
  /\ BeatBegin(Main(w), work[w].token)
  /\ Goto(w, "probing")
  /\ UNCHANGED <<drain, beat, claims, author>>

ProbeOk(w) ==
  /\ At(w, "probing")
  /\ BeatAccepted(Main(w))
  /\ Goto(w, "working")
  /\ beat' = [beat EXCEPT ![w] =
                [pc |-> "waiting", token |-> work[w].token,
                 deadline |-> now + Lease, lost |-> FALSE]]
  /\ UNCHANGED <<drain, claims, author>>

ProbeStale(w) ==
  /\ At(w, "probing")
  /\ BeatRefused(Main(w))
  /\ EndJob(w, "idle")
  /\ UNCHANGED <<drain, claims, author>>

-----------------------------------------------------------------------------
(* The handler: any number of writes to Zotero (the relay, the local       *)
(* mirror, the storage), then one report.  A look at the flag covers a     *)
(* stretch of writes: enrichment looks once before the patch it sends to   *)
(* the relay, which may be sent three times, and the update of the mirror; *)
(* an attachment is looked at once before it is created, copied to the     *)
(* storage and entered in the mirror.                                      *)

(* _ensure_metadata_job_lease_active                                       *)
FlagIgnored(w) == FALSE
LeaseLost(w) == beat[w].lost

CheckLease(w) ==
  /\ At(w, "working")
  /\ work[w].writes < MaxWrites
  /\ ~LeaseLost(w)
  /\ work' = [work EXCEPT ![w].pc = "writing", ![w].left = MaxStretch]
  /\ UNCHANGED <<vars, drain, beat, claims, author>>

(* _MetadataJobLeaseLost is the one exception that reports nothing.        *)
GiveUpJob(w) ==
  /\ At(w, "working")
  /\ LeaseLost(w)
  /\ EndJob(w, "idle")
  /\ UNCHANGED <<vars, drain, claims, author>>

WriteZotero(w) ==
  /\ At(w, "writing")
  /\ work[w].left > 0
  /\ work[w].writes < MaxWrites
  /\ work' = [work EXCEPT ![w].writes = @ + 1, ![w].left = @ - 1,
                          ![w].late = IF beat[w].lost THEN @ + 1 ELSE @]
  /\ UNCHANGED <<vars, drain, beat, claims, author>>

(* The stretch is over, or one of its writes has failed.                   *)
StretchEnds(w) ==
  /\ At(w, "writing")
  /\ work' = [work EXCEPT ![w].pc = "working", ![w].left = 0]
  /\ UNCHANGED <<vars, drain, beat, claims, author>>

(* A report that raises is answered by a failure report; the handler does  *)
(* not look at the flag before either.                                     *)
ReportSend(w, outcome) ==
  /\ \/ At(w, "working")
     \/ At(w, "failing") /\ outcome \in {"skipped", "retryable", "final"}
  /\ ReportBegin(Main(w), work[w].token, outcome)
  /\ Goto(w, IF work[w].pc = "working" THEN "reporting" ELSE "failing")
  /\ UNCHANGED <<drain, beat, claims, author>>

ReportOk(w) ==
  /\ At(w, "reporting") \/ At(w, "failing")
  /\ ReportAccepted(Main(w))
  /\ author' = [author EXCEPT ![work[w].token.job] =
                  [worker |-> w, claim |-> work[w].claim]]
  /\ EndJob(w, "idle")
  /\ UNCHANGED <<drain, claims>>

ReportStale(w) ==
  /\ At(w, "reporting") \/ At(w, "failing")
  /\ ReportDiscarded(Main(w))
  /\ EndJob(w, "idle")
  /\ UNCHANGED <<drain, claims, author>>

(* A store error in the first report leads to the second; anywhere else it *)
(* ends the worker, and the job stays running until its lease expires.     *)
StoreError(w) ==
  /\ \E pc \in {"leasing", "probing", "reporting", "failing"} : At(w, pc)
  /\ AbandonCall(Main(w))
  /\ IF work[w].pc = "reporting"
       THEN Goto(w, "failing") /\ UNCHANGED beat
       ELSE EndJob(w, "done")
  /\ UNCHANGED <<drain, claims, author>>

-----------------------------------------------------------------------------
(* _heartbeat_metadata_job_until_stopped                                   *)

InBeat(w, pc) == beat[w].pc = pc /\ drain[layout[w]].phase # "dead"

(* Whether the thread still serves the job its worker is at.               *)
Serving(w) == work[w].pc \in {"working", "writing", "reporting", "failing"}

AfterBeat(w, alive) ==
  beat' = [beat EXCEPT ![w] =
             IF ~Serving(w) THEN NoBeat
             ELSE IF alive THEN [beat[w] EXCEPT !.pc = "waiting",
                                                !.deadline = now + Lease]
             ELSE [beat[w] EXCEPT !.pc = "off", !.lost = TRUE]]

BeatSend(w) ==
  /\ InBeat(w, "waiting")
  /\ BeatBegin(Beat(w), beat[w].token)
  /\ beat' = [beat EXCEPT ![w].pc = "sending"]
  /\ UNCHANGED <<drain, work, claims, author>>

BeatOk(w) ==
  /\ InBeat(w, "sending")
  /\ BeatAccepted(Beat(w))
  /\ AfterBeat(w, TRUE)
  /\ UNCHANGED <<drain, work, claims, author>>

BeatStale(w) ==
  /\ InBeat(w, "sending")
  /\ BeatRefused(Beat(w))
  /\ AfterBeat(w, FALSE)
  /\ UNCHANGED <<drain, work, claims, author>>

(* An error of the store is survived until the deadline the thread keeps   *)
(* for itself on the monotonic clock.                                      *)
BeatError(w) ==
  /\ InBeat(w, "sending")
  /\ AbandonCall(Beat(w))
  /\ IF Serving(w) /\ now < beat[w].deadline
       THEN beat' = [beat EXCEPT ![w].pc = "waiting"]
       ELSE AfterBeat(w, FALSE)
  /\ UNCHANGED <<drain, work, claims, author>>

-----------------------------------------------------------------------------
(* The process of a drain dies with all its threads.                       *)
Threads(d) ==
  {d} \cup UNION {{Main(w), Beat(w)} : w \in {v \in Worker : layout[v] = d}}

Crash(d) ==
  /\ drain[d].phase # "dead"
  /\ drain' = [drain EXCEPT ![d].phase = "dead"]
  /\ calls' = [c \in Client |-> IF c \in Threads(d) THEN Idle ELSE calls[c]]
  /\ work' = [w \in Worker |-> IF layout[w] = d THEN Free ELSE work[w]]
  /\ beat' = [w \in Worker |-> IF layout[w] = d THEN NoBeat ELSE beat[w]]
  /\ UNCHANGED <<now, jobs, trail, granted, claims, author>>

Enqueue ==
  /\ \/ \E k \in Key, b \in Budgets : EnqueueLookup(Intake, k, b)
     \/ EnqueueInsert(Intake)
  /\ UNCHANGED own

(* A retry clears the relay columns, cancelling keeps them.                *)
OperatorRetry(j, reset) ==
  /\ Retry(j, reset)
  /\ author' = [author EXCEPT ![j] = Nobody]
  /\ UNCHANGED <<drain, work, beat, claims>>

OperatorCancel(j) == Cancel(j) /\ UNCHANGED own

(* With PromptReread no statement that grants or extends a lease waits as  *)
(* long as a lease lasts (busy_timeout is 30 s, a drain's lease at least   *)
(* 60 s), and neither does the read that follows the grant.                *)
PromptAt(t) ==
  /\ \A c \in Client : calls[c].op \in {"claim", "beat"} =>
                         t <= calls[c].since + Lease
  /\ \A w \in Worker : work[w].pc = "leased" =>
                         t <= jobs[work[w].token.job].until

DrainTick ==
  /\ Tick
  /\ PromptReread => PromptAt(now + 1)
  /\ UNCHANGED own

-----------------------------------------------------------------------------
WorkerStep(w) ==
  \/ LeaseStart(w) \/ LimitReached(w) \/ LeaseSwept(w) \/ LeaseNone(w)
  \/ \E j \in Job : LeaseCommit(w, j)
  \/ LeaseReturn(w) \/ ProbeSend(w) \/ ProbeOk(w) \/ ProbeStale(w)
  \/ CheckLease(w) \/ GiveUpJob(w) \/ WriteZotero(w) \/ StretchEnds(w)
  \/ \E outcome \in Outcome : ReportSend(w, outcome)
  \/ ReportOk(w) \/ ReportStale(w) \/ StoreError(w)
  \/ BeatSend(w) \/ BeatOk(w) \/ BeatStale(w) \/ BeatError(w)

DrainStep ==
  \/ \E w \in Worker : WorkerStep(w)
  \/ \E d \in Drain : DrainStart(d) \/ DrainSwept(d) \/ Crash(d)
  \/ Enqueue
  \/ \E j \in Job : OperatorCancel(j)
                      \/ \E reset \in BOOLEAN : OperatorRetry(j, reset)
  \/ DrainTick

DrainNext == DrainStep /\ UNCHANGED layout

DrainSpec == DrainInit /\ [][DrainNext]_dvars

-----------------------------------------------------------------------------
(* The queue and its drains implement LeaseQueue: whatever dies, expires,  *)
(* is retried or arrives late, the outcome a settled job shows is the      *)
(* report of the worker that held its latest claim.  What carries this is  *)
(* the fencing of the reports by owner and attempt together with owners    *)
(* that no two workers share.                                              *)
Progress(row) ==
  CASE row.status = "absent"  -> "absent"
    [] row.status = "queued"  -> "available"
    [] row.status = "running" -> "claimed"
    [] OTHER                  -> "settled"

Abstract == INSTANCE LeaseQueue WITH
  NoWorker <- None,
  state    <- [j \in Job |-> Progress(jobs[j])],
  holder   <- [j \in Job |-> jobs[j].owner]

ReportsComeFromHolder == Abstract!Spec

(* No two workers work with the same lease, so that a job one of them has  *)
(* leased is not processed under that lease by another.                    *)
OneWorkerPerLease ==
  \A v, w \in Worker :
    (v # w /\ work[v].token.owner # None) => work[v].token # work[w].token

(* A worker whose heartbeat thread finds the lease gone may still make the *)
(* writes of the stretch it has begun, and no other: the late writes of a  *)
(* handler lie in one stretch, whatever the worker and the thread do, and  *)
(* however often the thread is replaced by that of the next job.           *)
OneLateStretch == \A w \in Worker : work[w].late <= MaxStretch
=============================================================================

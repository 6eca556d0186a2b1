----------------------------- MODULE IngestLoop -----------------------------
(***************************************************************************)
(* The processing loop of one ingest run (full_run.py, _run) over the five *)
(* metadata queues.  In each cycle it may take in backlog, then it reads   *)
(* the summary of one queue after the other, each in a transaction of its  *)
(* own, and from what it has read it drains the ready queues in parallel,  *)
(* waits for running jobs, or counts an idle cycle; enough idle cycles end *)
(* the run.  Other processes drain the same queues meanwhile (the drain    *)
(* endpoints, the compact drain script).  Jobs that others enqueue or      *)
(* retry are left out: whatever the run had read, its queues would not be  *)
(* idle after them.                                                        *)
(*                                                                         *)
(* A job is what MetadataQueue makes of its row, without its clock: queued,*)
(* running under a lease that its worker renews or that has lapsed since   *)
(* the worker died, or settled.  A run whose worker has no relay to write  *)
(* through is refused by its drains.  How a run is stopped is in FullRun.  *)
(***************************************************************************)
EXTENDS Integers, Sequences

CONSTANTS
  Job,         \* rows the queues may come to hold
  IdleCycles,  \* what idle_cycles_to_complete may be
  DrainLimit,  \* drain_limit
  IntakeEvery  \* polls (of poll_seconds) in intake_interval_seconds

ASSUME IngestAssumption ==
  /\ IdleCycles \subseteq Nat \ {0}
  /\ DrainLimit \in Nat \ {0}
  /\ IntakeEvery \in Nat \ {0}

VARIABLES
  jobs,     \* the metadata_jobs table
  options,  \* of the run: idle_cycles_to_complete, and the types whose
            \* drains refuse it because there is no ZOTERO_RELAY_URL
  pc,       \* where the loop is
  seen,     \* the summaries read in this cycle
  read,     \* how many of them have been read
  active,   \* per drain of this cycle, the jobs leased so far, or Off
  scan,     \* scihub_pdf_backlog_scanned, or "due" in a cycle that scans
  idle,     \* idle_cycles
  elapsed   \* polls since last_intake, counted up to IntakeEvery

ivars == <<jobs, options, pc, seen, read, active, scan, idle, elapsed>>
loop == <<options, pc, seen, read, active, scan, idle, elapsed>>

Type == {"enrich", "arxiv_html", "full_text", "researchgate_pdf", "scihub_pdf"}
Fallback == {"researchgate_pdf", "scihub_pdf"}

(* With require_relay, its default, and no relay URL every drain refuses,  *)
(* the arXiv one only when arxiv_html_attach is on.                        *)
RelayMissing == {Type, Type \ {"arxiv_html"}}

(* The order in which _run reads the summaries.                            *)
FallbacksFirst ==
  <<"enrich", "arxiv_html", "researchgate_pdf", "scihub_pdf", "full_text">>
ReadOrder ==
  <<"enrich", "arxiv_html", "full_text", "researchgate_pdf", "scihub_pdf">>

Holder == {"nobody", "run", "elsewhere", "dead"}
Absent == [type |-> "enrich", status |-> "absent", holder |-> "nobody",
           lapsed |-> FALSE]
Queued(t) == [type |-> t, status |-> "queued", holder |-> "nobody",
              lapsed |-> FALSE]

Off == -1

IngestTypeOK ==
  /\ jobs \in [Job -> [type : Type, holder : Holder, lapsed : BOOLEAN,
                       status : {"absent", "queued", "running", "settled"}]]
  /\ options \in [idleCycles : IdleCycles, refused : {{}} \cup RelayMissing]
  /\ pc \in {"head", "read", "decide", "drain", "complete"}
  /\ read \in 0 .. Len(ReadOrder)
  /\ seen \in [Type -> [queued : BOOLEAN, running : BOOLEAN]]
  /\ active \in [Type -> Off .. DrainLimit]
  /\ scan \in {"pending", "due", "scanned"}
  /\ idle \in 0 .. options.idleCycles
  /\ elapsed \in 0 .. IntakeEvery

NothingSeen == [t \in Type |-> [queued |-> FALSE, running |-> FALSE]]
NoDrain == [t \in Type |-> Off]

(* A run may find jobs that others have enqueued or are working on.  Its   *)
(* last_intake is 0.0 on a clock that starts with the host, so the first   *)
(* intake need not be due at once.                                         *)
IngestInit ==
  /\ jobs \in [Job -> {Absent} \cup {Queued(t) : t \in {"enrich", "full_text"}}
                 \cup {[Queued("full_text") EXCEPT !.status = "running",
                                                   !.holder = "elsewhere"]}]
  /\ options \in [idleCycles : IdleCycles, refused : {{}} \cup RelayMissing]
  /\ pc = "head"
  /\ seen = NothingSeen
  /\ read = 0
  /\ active = NoDrain
  /\ scan = "pending"
  /\ idle = 0
  /\ elapsed \in 0 .. IntakeEvery

-----------------------------------------------------------------------------
(* The queues.                                                             *)

InQueue(t, status) == {j \in Job : jobs[j].type = t /\ jobs[j].status = status}

InStatus(status) == {j \in Job : jobs[j].status = status}

Enqueued(found, t) ==
  [j \in Job |-> IF j \in found THEN Queued(t) ELSE jobs[j]]

(* recover_expired_metadata_jobs of one type                               *)
Swept(t) ==
  [j \in Job |-> IF jobs[j].type = t /\ jobs[j].status = "running"
                      /\ jobs[j].lapsed
                 THEN Queued(t) ELSE jobs[j]]

LeasedBy(table, j, holder) ==
  [table EXCEPT ![j] = [table[j] EXCEPT !.status = "running", !.holder = holder]]

Released(j, status) ==
  [jobs EXCEPT ![j] = [jobs[j] EXCEPT !.status = status, !.holder = "nobody"]]
SettledMisspelt(j) == Released(j, "done")
Settled(j) == Released(j, "settled")

(* lease_next_metadata_job, with its sweep                                 *)
Leasable(t, j) == Swept(t)[j].type = t /\ Swept(t)[j].status = "queued"

LeaseNext(t, j, holder) ==
  /\ Leasable(t, j)
  /\ jobs' = LeasedBy(Swept(t), j, holder)

(* The full-text handler enqueues its fallback before it reports, the      *)
(* other handlers just report.                                             *)
EnqueueFallback(j) ==
  /\ jobs[j].status = "running" /\ jobs[j].holder \in {"run", "elsewhere"}
  /\ jobs[j].type = "full_text"
  /\ \E k \in Job, t \in Fallback :
       jobs[k].status = "absent" /\ jobs' = [jobs EXCEPT ![k] = Queued(t)]
  /\ UNCHANGED loop

Report(j) ==
  /\ jobs[j].status = "running" /\ jobs[j].holder \in {"run", "elsewhere"}
  /\ jobs' = Settled(j)
  /\ UNCHANGED loop

LeaseElsewhere(t, j) ==
  /\ LeaseNext(t, j, "elsewhere")
  /\ UNCHANGED loop

WorkerDies(j) ==
  /\ jobs[j].holder = "elsewhere"
  /\ jobs' = [jobs EXCEPT ![j] = [jobs[j] EXCEPT !.holder = "dead"]]
  /\ UNCHANGED loop

LeaseLapses(j) ==
  /\ jobs[j].holder = "dead" /\ ~jobs[j].lapsed
  /\ jobs' = [jobs EXCEPT ![j] = [jobs[j] EXCEPT !.lapsed = TRUE]]
  /\ UNCHANGED loop

-----------------------------------------------------------------------------
(* The loop.                                                               *)

(* The intake interval has passed: the backlog scans enqueue what they     *)
(* find, and the Sci-Hub backlog is to be scanned again.                   *)
Intake ==
  /\ pc = "head" /\ elapsed = IntakeEvery
  /\ \E found \in SUBSET InStatus("absent"), t \in {"enrich", "full_text", "arxiv_html"} :
       jobs' = Enqueued(found, t)
  /\ pc' = "read"
  /\ scan' = "pending"
  /\ elapsed' = 0
  /\ UNCHANGED <<options, seen, read, active, idle>>

NoIntake ==
  /\ pc = "head" /\ elapsed < IntakeEvery
  /\ pc' = "read"
  /\ UNCHANGED <<jobs, options, seen, read, active, scan, idle, elapsed>>

ReadSummary ==
  /\ pc = "read"
  /\ LET t == ReadOrder[read + 1] IN
       seen' = [seen EXCEPT ![t] = [queued  |-> InQueue(t, "queued") # {},
                                    running |-> InQueue(t, "running") # {}]]
  /\ read' = read + 1
  /\ pc' = IF read' = Len(ReadOrder) THEN "decide" ELSE "read"
  /\ UNCHANGED <<jobs, options, active, scan, idle, elapsed>>

(* ready_ingest_actions, with every drain enabled                          *)
Ready == {t \in Type : seen[t].queued /\ ~seen[t].running}
SomethingToDo == Ready # {} \/ scan = "pending"
SomethingRuns == \E t \in Type : seen[t].running

StartDrains ==
  /\ pc = "decide"
  /\ SomethingToDo
  /\ active' = [t \in Type |-> IF t \in Ready THEN 0 ELSE Off]
  /\ scan' = IF scan = "pending" THEN "due" ELSE scan
  /\ pc' = "drain"
  /\ UNCHANGED <<jobs, options, seen, read, idle, elapsed>>

(* scihub_pdf_backlog_scan, beside the drains                              *)
ScanForgotten == "pending"
ScanDone == "scanned"
ScanBacklog ==
  /\ scan = "due"
  /\ \E found \in SUBSET InStatus("absent") : jobs' = Enqueued(found, "scihub_pdf")
  /\ scan' = ScanDone
  /\ UNCHANGED <<options, pc, seen, read, active, idle, elapsed>>

(* _drain_queue without the relay: neither sweep nor lease.                *)
DrainRefused(t) ==
  /\ active[t] # Off /\ t \in options.refused
  /\ active' = [active EXCEPT ![t] = Off]
  /\ UNCHANGED <<jobs, options, pc, seen, read, scan, idle, elapsed>>

(* The workers of a drain together lease up to its limit; a worker that    *)
(* finds nothing ends, with its slot or, the last one, with all that are   *)
(* left ...                                                                *)
DrainLease(t, j) ==
  /\ active[t] \in 0 .. DrainLimit - 1 /\ t \notin options.refused
  /\ LeaseNext(t, j, "run")
  /\ active' = [active EXCEPT ![t] = active[t] + 1]
  /\ UNCHANGED <<options, pc, seen, read, scan, idle, elapsed>>

DrainEmpty(t) ==
  /\ active[t] \in 0 .. DrainLimit - 1 /\ t \notin options.refused
  /\ \A j \in Job : ~Leasable(t, j)
  /\ \E slots \in active[t] + 1 .. DrainLimit :
       active' = [active EXCEPT ![t] = slots]
  /\ UNCHANGED <<jobs, options, pc, seen, read, scan, idle, elapsed>>

(* ... and it ends when no slot is left and their handlers have ended.     *)
DrainEnd(t) ==
  /\ active[t] = DrainLimit
  /\ \A j \in InQueue(t, "running") : jobs[j].holder # "run"
  /\ active' = [active EXCEPT ![t] = Off]
  /\ UNCHANGED <<jobs, options, pc, seen, read, scan, idle, elapsed>>

NewCycle == seen' = NothingSeen /\ read' = 0

(* A drain may take any time; a cycle in which only the Sci-Hub backlog was*)
(* scanned is taken to be short.                                           *)
DrainsDone ==
  /\ pc = "drain"
  /\ active = NoDrain /\ scan # "due"
  /\ elapsed' \in IF Ready = {} THEN {elapsed} ELSE elapsed .. IntakeEvery
  /\ pc' = "head"
  /\ idle' = 0
  /\ NewCycle
  /\ UNCHANGED <<jobs, options, active, scan>>

Slept == IF elapsed < IntakeEvery THEN elapsed + 1 ELSE elapsed

(* phase waiting_for_running_job                                           *)
Wait ==
  /\ pc = "decide"
  /\ ~SomethingToDo /\ SomethingRuns
  /\ pc' = "head"
  /\ NewCycle
  /\ elapsed' = Slept
  /\ UNCHANGED <<jobs, options, active, scan, idle>>

IdleCycle ==
  /\ pc = "decide"
  /\ ~SomethingToDo /\ ~SomethingRuns
  /\ idle' = idle + 1
  /\ pc' = IF idle' = options.idleCycles THEN "complete" ELSE "head"
  /\ NewCycle
  /\ elapsed' = Slept
  /\ UNCHANGED <<jobs, options, active, scan>>

Loop ==
  \/ Intake \/ NoIntake \/ ReadSummary \/ StartDrains \/ ScanBacklog
  \/ \E t \in Type : \/ DrainRefused(t) \/ DrainEmpty(t) \/ DrainEnd(t)
                     \/ \E j \in Job : DrainLease(t, j)
  \/ DrainsDone \/ Wait \/ IdleCycle

Elsewhere(j) ==
  \/ EnqueueFallback(j) \/ Report(j) \/ WorkerDies(j) \/ LeaseLapses(j)
  \/ \E t \in Type : LeaseElsewhere(t, j)

Stutter == pc = "complete" /\ UNCHANGED ivars

IngestNext == Loop \/ Stutter \/ \E j \in Job : Elsewhere(j)

(* The loop runs on, handlers end, leases that nobody renews lapse; nobody *)
(* else is obliged to drain.                                               *)
IngestFairness ==
  /\ WF_ivars(Loop)
  /\ \A j \in Job : WF_ivars(Report(j)) /\ WF_ivars(LeaseLapses(j))

IngestSpec == IngestInit /\ [][IngestNext]_ivars /\ IngestFairness

-----------------------------------------------------------------------------
(* Properties.                                                             *)

(* "All queues were idle" is true when a run says so: no job is queued or  *)
(* running.  The five summaries are read one after the other while jobs    *)
(* move on and full-text jobs spawn fallback jobs, so this hangs on the    *)
(* order: a handler enqueues the fallback before it reports, and the run   *)
(* reads the full-text summary before those of the fallback queues.        *)
CompleteIsQuiet ==
  pc = "complete" => \A j \in Job : jobs[j].status \in {"absent", "settled"}

(* However backlog scans, drains here and elsewhere, waiting and idle      *)
(* cycles alternate, a run comes to its end, unless workers die again and  *)
(* again or one stays dead, or jobs stay queued whose drains refuse this   *)
(* run: it then starts the refused drains for ever.                        *)
RunEnds ==
  \/ <>(pc = "complete")
  \/ []<>(\E j \in Job : jobs[j].holder = "dead")
  \/ <>[](\E t \in options.refused : InQueue(t, "queued") # {})

(* A job whose worker is dead and whose lease has lapsed does not stay     *)
(* "running": a run that waits for it, and is refused by no drain, in the  *)
(* end takes it up again.                                                  *)
LapsedIsRecovered ==
  \A j \in Job :
    (jobs[j].lapsed /\ options.refused = {}) ~> ~jobs[j].lapsed
=============================================================================

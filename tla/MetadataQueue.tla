---------------------------- MODULE MetadataQueue ----------------------------
(***************************************************************************)
(* The metadata_jobs queue of PipelineStateStore (state.py): one table in  *)
(* a SQLite database that the threads of several processes read and write. *)
(*                                                                         *)
(* Every method opens a connection of its own and runs one transaction, so *)
(* a single UPDATE is atomic.  What is not atomic is everything a method   *)
(* does before that UPDATE gets the write lock: it reads the clock, and in *)
(* some methods it reads rows, and then may wait (busy_timeout is 30 s, a  *)
(* process may be stopped for longer) while other transactions commit.  A  *)
(* method of that kind is two actions here: the first stores what the      *)
(* caller has seen in calls[c], the second is the transaction.  A caller   *)
(* that dies, or gets an error from SQLite, leaves no trace: AbandonCall.  *)
(*                                                                         *)
(* The rows are those of one job_type, since every statement filters on    *)
(* it.  Dropped from a row: the columns that only describe the document,   *)
(* the texts (phase, reason, last_error), and the result and relay columns,*)
(* which MetadataDrain keeps as the claim that wrote them.                 *)
(***************************************************************************)
EXTENDS Integers

CONSTANTS
  Job,         \* rows the table may come to hold
  Key,         \* values of dedupe_key
  Client,      \* threads that call the store
  Owner,       \* values of lease_owner
  Budgets,     \* max_attempts values the callers pass; 0 is "unlimited"
  Lease,       \* lease_seconds, in ticks of the clock
  None,        \* SQL null for a key or an owner, and "no owner" in a call
  MaxTime,     \* bound on the clock
  MaxAttempts  \* bound on attempts, needed by jobs with an unlimited budget

ASSUME QueueAssumption ==
  /\ None \notin Key \cup Owner
  /\ Budgets \subseteq Nat
  /\ Lease \in Nat \ {0}
  /\ MaxTime \in Nat
  /\ MaxAttempts \in Nat

VARIABLES
  now,      \* the wall clock all processes share (datetime.now(UTC))
  jobs,     \* the metadata_jobs table; an unused row has status "absent"
  trail,    \* what metadata_job_events says of a row, see below
  granted,  \* lease tokens lease_next_metadata_job has returned
  calls     \* per thread, the store call it is in the middle of

vars == <<now, jobs, trail, granted, calls>>

-----------------------------------------------------------------------------
(* Types.                                                                  *)

NoTime == -1        \* SQL null for a time
Time == 0..MaxTime

Reported == {"succeeded", "skipped", "failed_retryable", "failed_final"}
Terminal == Reported \cup {"cancelled"}
Status == {"absent", "queued", "running"} \cup Terminal

Row == [ status   : Status,
         key      : Key \cup {None},
         attempts : Nat,
         budget   : Nat,                 \* max_attempts
         owner    : Owner \cup {None},   \* lease_owner
         until    : Int,                 \* leased_until
         created  : Nat,                 \* created_at
         updated  : Nat ]                \* updated_at

NoRow == [ status |-> "absent", key |-> None, attempts |-> 0, budget |-> 0,
           owner |-> None, until |-> NoTime, created |-> 0, updated |-> 0 ]

Token == [job : Job, owner : Owner, attempt : Nat]

(* A call holds the arguments, the clock as the caller read it (time) or   *)
(* the earliest moment at which it can have read it (since), and the rows  *)
(* it has seen.                                                            *)
IdleCall   == [op : {"idle"}]
InsertCall == [op : {"insert"}, key : Key, budget : Budgets, time : Nat]
SweepCall  == [op : {"sweep"}, ids : SUBSET Job, time : Nat,
               owner : Owner \cup {None}]
ReapCall   == [op : {"reap"}, time : Nat,
               seen : SUBSET [job : Job, owner : Owner, updated : Nat]]
ClaimCall  == [op : {"claim"}, owner : Owner, since : Nat]
ReportCall == [op : {"report"}, token : Token, status : Reported, since : Nat]
BeatCall   == [op : {"beat"}, token : Token, since : Nat]
Call == IdleCall \cup InsertCall \cup SweepCall \cup ReapCall \cup ClaimCall
          \cup ReportCall \cup BeatCall

Idle == [op |-> "idle"]

(* The events that report a transition of the row, and the status each one *)
(* tells a reader of the event table.  stale_completion_discarded and      *)
(* retry_rejected_exhausted tell of calls that left the row as it was.     *)
Event == {"none", "created", "leased", "recovered", "attempts_exhausted",
          "retry", "retry_generation_reset", "cancelled"} \cup Reported

StatusAfter(event) ==
  CASE event = "none"   -> "absent"
    [] event = "leased" -> "running"
    [] event \in {"created", "recovered", "retry", "retry_generation_reset"}
                        -> "queued"
    [] event = "attempts_exhausted" -> "failed_final"
    [] OTHER            -> event

(* trail[j]: the newest of those events, and how many "leased" events there*)
(* are since the last retry_generation_reset.                              *)
Trail == [event : Event, leases : Nat]

TypeOK ==
  /\ now \in Time
  /\ jobs \in [Job -> Row]
  /\ trail \in [Job -> Trail]
  /\ granted \subseteq Token
  /\ calls \in [Client -> Call]

Init ==
  /\ now = 0
  /\ jobs = [j \in Job |-> NoRow]
  /\ trail = [j \in Job |-> [event |-> "none", leases |-> 0]]
  /\ granted = {}
  /\ calls = [c \in Client |-> Idle]

-----------------------------------------------------------------------------
(* Reading the table.                                                      *)

Present(j) == jobs[j].status # "absent"

(* The WHERE clause of recover_expired_metadata_jobs.                      *)
Expired(j, t) ==
  /\ jobs[j].status = "running"
  /\ jobs[j].until # NoTime
  /\ jobs[j].until < t

(* max_attempts > 0 and attempts >= max_attempts                           *)
BudgetSpentOffByOne(row) == row.budget > 0 /\ row.attempts > row.budget
BudgetSpent(row) == row.budget > 0 /\ row.attempts >= row.budget

(* _terminal_owner_clause, and the same conditions in the heartbeat.       *)
AnyLeaseHeld(token, t) ==
  /\ jobs[token.job].status = "running"
  /\ jobs[token.job].until >= t
LeaseHeld(token, t) ==
  LET row == jobs[token.job] IN
  /\ row.status = "running"
  /\ row.owner = token.owner
  /\ row.until # NoTime
  /\ row.until >= t
  /\ row.attempts = token.attempt

(* The status a report asks for.  A failure is reported as retryable or    *)
(* not; mark_metadata_job_failed then decides from the row it has read.    *)
Outcome == {"succeeded", "skipped", "retryable", "final"}

StatusForMisspelt(outcome, row) ==
  CASE outcome = "retryable" -> "retryable"
    [] outcome = "final"     -> "failed_final"
    [] OTHER                 -> outcome
StatusFor(outcome, row) ==
  CASE outcome = "retryable" -> IF BudgetSpent(row) THEN "failed_final"
                                ELSE "failed_retryable"
    [] outcome = "final"     -> "failed_final"
    [] OTHER                 -> outcome

-----------------------------------------------------------------------------
(* Writing the table: the SET clauses, and the event of the same           *)
(* transaction.                                                            *)

Created(key, budget, t) ==
  [NoRow EXCEPT !.status = "queued", !.key = key, !.budget = budget,
                !.created = t, !.updated = t]

Unleased(row, status, t) ==
  [row EXCEPT !.status = status, !.owner = None, !.until = NoTime,
              !.updated = t]

(* lease_next finalises a spent row without touching its (null) lease.     *)
Exhausted(row, t) == [row EXCEPT !.status = "failed_final", !.updated = t]

Leased(row, owner, t) ==
  [row EXCEPT !.status = "running", !.attempts = @ + 1, !.owner = owner,
              !.until = t + Lease, !.updated = t]

Extended(row, t) == [row EXCEPT !.until = t + Lease, !.updated = t]

RequeuedAlwaysReset(row, reset, t) ==
  [Unleased(row, "queued", t) EXCEPT !.attempts = 0]
Requeued(row, reset, t) ==
  [Unleased(row, "queued", t)
     EXCEPT !.attempts = IF reset THEN 0 ELSE @]

Logged(entry, event) ==
  [ event  |-> event,
    leases |-> CASE event = "leased" -> entry.leases + 1
                 [] event = "retry_generation_reset" -> 0
                 [] OTHER -> entry.leases ]

(* The rows in the domain of rows get new contents and one event each.     *)
Write(rows, events) ==
  /\ jobs' = [j \in Job |-> IF j \in DOMAIN rows THEN rows[j] ELSE jobs[j]]
  /\ trail' = [j \in Job |-> IF j \in DOMAIN rows
                               THEN Logged(trail[j], events[j]) ELSE trail[j]]

WriteOne(j, row, event) == Write([k \in {j} |-> row], [k \in {j} |-> event])

Enter(c, call) == calls[c] = Idle /\ calls' = [calls EXCEPT ![c] = call]
Leave(c) == calls' = [calls EXCEPT ![c] = Idle]

-----------------------------------------------------------------------------
(* enqueue_metadata_job.  The lookup by dedupe_key and the insert are two  *)
(* transactions; a lookup that finds a row returns it and changes nothing. *)
(* (With force the key carries a fresh uuid: a key nobody else passes.)    *)
(* Every caller under src/ enqueues with status "queued".                  *)

HasKey(k) == \E j \in Job : Present(j) /\ jobs[j].key = k

EnqueueLookup(c, k, b) ==
  /\ ~HasKey(k)
  /\ Enter(c, [op |-> "insert", key |-> k, budget |-> b, time |-> now])
  /\ UNCHANGED <<now, jobs, trail, granted>>

(* on conflict(dedupe_key) do nothing                                      *)
NoConflict(k) == FALSE
Conflict(k) == HasKey(k)

EnqueueInsert(c) ==
  /\ calls[c].op = "insert"
  /\ ~Conflict(calls[c].key)
  /\ \E j \in Job :
       /\ ~Present(j)
       /\ WriteOne(j, Created(calls[c].key, calls[c].budget, calls[c].time),
                   "created")
  /\ Leave(c)
  /\ UNCHANGED <<now, granted>>

EnqueueConflict(c) ==
  /\ calls[c].op = "insert"
  /\ Conflict(calls[c].key)
  /\ Leave(c)
  /\ UNCHANGED <<now, jobs, trail, granted>>

-----------------------------------------------------------------------------
(* recover_expired_metadata_jobs: a SELECT outside any transaction, then   *)
(* the UPDATEs in one transaction, each repeating the condition.  A drain  *)
(* calls it when it starts (owner None); lease_next_metadata_job calls it  *)
(* for the owner it is about to lease for.                                 *)

SweepSelect(c, owner) ==
  /\ Enter(c, [op |-> "sweep", ids |-> {j \in Job : Expired(j, now)},
               time |-> now, owner |-> owner])
  /\ UNCHANGED <<now, jobs, trail, granted>>

(* The rows of the SELECT that the UPDATEs still match; each UPDATE repeats *)
(* the status and the expiry.                                              *)
MatchedWithoutRecheck(ids, t) == {j \in ids : Present(j)}
MatchedByStatusOnly(ids, t) == {j \in ids : jobs[j].status = "running"}
Matched(ids, t) == {j \in ids : Expired(j, t)}

SweepUpdate(c) ==
  LET call == calls[c]
      ids  == Matched(call.ids, call.time)
  IN
  /\ call.op = "sweep"
  /\ Write([j \in ids |-> Unleased(jobs[j], "queued", call.time)],
           [j \in ids |-> "recovered"])
  /\ calls' = [calls EXCEPT ![c] =
                 IF call.owner = None THEN Idle
                 ELSE [op |-> "claim", owner |-> call.owner, since |-> now]]
  /\ UNCHANGED <<now, granted>>

(* recover_orphaned_metadata_jobs.  The owners in dead are those whose pid *)
(* the probe does not find; it looks in its own pid namespace, so a living *)
(* owner of the other container can be among them.                         *)
ReapSelect(c, dead) ==
  /\ Enter(c, [op |-> "reap", time |-> now,
               seen |-> {[job |-> j, owner |-> jobs[j].owner,
                          updated |-> jobs[j].updated] :
                           j \in {i \in Job : /\ jobs[i].status = "running"
                                              /\ jobs[i].owner \in dead}}])
  /\ UNCHANGED <<now, jobs, trail, granted>>

ReapUpdate(c) ==
  LET call == calls[c]
      ids  == {j \in Job :
                 /\ jobs[j].status = "running"
                 /\ [job |-> j, owner |-> jobs[j].owner,
                     updated |-> jobs[j].updated] \in call.seen}
  IN
  /\ call.op = "reap"
  /\ Write([j \in ids |-> Unleased(jobs[j], "queued", call.time)],
           [j \in ids |-> "recovered"])
  /\ Leave(c)
  /\ UNCHANGED <<now, granted>>

-----------------------------------------------------------------------------
(* lease_next_metadata_job, after its sweep: begin immediate, but with a   *)
(* clock t read before the write lock was granted.  Queued rows whose      *)
(* budget is spent are finalised; of the others the oldest is leased.      *)

QueuedOrRunning == {j \in Job : jobs[j].status \in {"queued", "running"}}
Queued == {j \in Job : jobs[j].status = "queued"}
Spent == {j \in Queued : BudgetSpent(jobs[j])}
Oldest(S) == {j \in S : \A k \in S : jobs[j].created <= jobs[k].created}

LeaseNothing(c) ==
  /\ calls[c].op = "claim"
  /\ Queued = Spent
  /\ \E t \in calls[c].since .. now :
       Write([j \in Spent |-> Exhausted(jobs[j], t)],
             [j \in Spent |-> "attempts_exhausted"])
  /\ Leave(c)
  /\ UNCHANGED <<now, granted>>

LeaseJob(c, j) ==
  LET owner == calls[c].owner IN
  /\ calls[c].op = "claim"
  /\ j \in Oldest(Queued \ Spent)
  /\ jobs[j].attempts < MaxAttempts
  /\ \E t \in calls[c].since .. now :
       Write([k \in Spent \cup {j} |-> IF k = j THEN Leased(jobs[k], owner, t)
                                       ELSE Exhausted(jobs[k], t)],
             [k \in Spent \cup {j} |-> IF k = j THEN "leased"
                                       ELSE "attempts_exhausted"])
  /\ granted' = granted \cup
       {[job |-> j, owner |-> owner, attempt |-> jobs[j].attempts + 1]}
  /\ Leave(c)
  /\ UNCHANGED now

-----------------------------------------------------------------------------
(* mark_metadata_job_succeeded, _skipped and _failed.  The caller presents *)
(* the token of its lease (no caller under src/ omits the owner).  The     *)
(* failure status is computed from a row read in an earlier transaction.   *)

ReportBegin(c, token, outcome) ==
  /\ Enter(c, [op |-> "report", token |-> token,
               status |-> StatusFor(outcome, jobs[token.job]), since |-> now])
  /\ UNCHANGED <<now, jobs, trail, granted>>

ReportAccepted(c) ==
  LET call == calls[c] IN
  /\ call.op = "report"
  /\ \E t \in call.since .. now :
       /\ LeaseHeld(call.token, t)
       /\ WriteOne(call.token.job,
                   Unleased(jobs[call.token.job], call.status, t),
                   call.status)
  /\ Leave(c)
  /\ UNCHANGED <<now, granted>>

(* The UPDATE matches no row: only stale_completion_discarded is logged.   *)
ReportDiscarded(c) ==
  /\ calls[c].op = "report"
  /\ ~LeaseHeld(calls[c].token, now)
  /\ Leave(c)
  /\ UNCHANGED <<now, jobs, trail, granted>>

(* heartbeat_metadata_job                                                  *)
BeatBegin(c, token) ==
  /\ Enter(c, [op |-> "beat", token |-> token, since |-> now])
  /\ UNCHANGED <<now, jobs, trail, granted>>

BeatAccepted(c) ==
  LET call == calls[c]
      j    == call.token.job
  IN
  /\ call.op = "beat"
  /\ \E t \in call.since .. now :
       /\ LeaseHeld(call.token, t)
       /\ jobs' = [jobs EXCEPT ![j] = Extended(@, t)]
  /\ Leave(c)
  /\ UNCHANGED <<now, trail, granted>>

BeatRefused(c) ==
  /\ calls[c].op = "beat"
  /\ ~LeaseHeld(calls[c].token, now)
  /\ Leave(c)
  /\ UNCHANGED <<now, jobs, trail, granted>>

(* A thread that dies inside a call, or whose connection fails: SQLite     *)
(* rolls the transaction back and the call is forgotten.                   *)
AbandonCall(c) ==
  /\ calls[c] # Idle
  /\ Leave(c)
  /\ UNCHANGED <<now, jobs, trail, granted>>

-----------------------------------------------------------------------------
(* The operator's calls are single transactions.                           *)

(* retry_metadata_job; a rejected retry (budget spent, no reset) or one of *)
(* a row in another status leaves the row alone.                           *)
Retry(j, reset) ==
  /\ jobs[j].status \in Terminal \ {"succeeded"}
  /\ reset \/ ~BudgetSpent(jobs[j])
  /\ WriteOne(j, Requeued(jobs[j], reset, now),
              IF reset THEN "retry_generation_reset" ELSE "retry")
  /\ UNCHANGED <<now, granted, calls>>

(* cancel_metadata_job                                                     *)
Cancel(j) ==
  /\ jobs[j].status \in {"queued", "failed_retryable", "skipped"}
  /\ WriteOne(j, Unleased(jobs[j], "cancelled", now), "cancelled")
  /\ UNCHANGED <<now, granted, calls>>

Tick ==
  /\ now < MaxTime
  /\ now' = now + 1
  /\ UNCHANGED <<jobs, trail, granted, calls>>

-----------------------------------------------------------------------------
ClientStep(c) ==
  \/ \E k \in Key, b \in Budgets : EnqueueLookup(c, k, b)
  \/ EnqueueInsert(c)
  \/ EnqueueConflict(c)
  \/ \E o \in Owner \cup {None} : SweepSelect(c, o)
  \/ SweepUpdate(c)
  \/ \E dead \in SUBSET Owner : ReapSelect(c, dead)
  \/ ReapUpdate(c)
  \/ LeaseNothing(c)
  \/ \E j \in Job : LeaseJob(c, j)
  \/ \E token \in granted, out \in Outcome : ReportBegin(c, token, out)
  \/ ReportAccepted(c)
  \/ ReportDiscarded(c)
  \/ \E token \in granted : BeatBegin(c, token)
  \/ BeatAccepted(c)
  \/ BeatRefused(c)
  \/ AbandonCall(c)

OperatorStep ==
  \E j \in Job : Cancel(j) \/ \E reset \in BOOLEAN : Retry(j, reset)

Next == (\E c \in Client : ClientStep(c)) \/ OperatorStep \/ Tick

Spec == Init /\ [][Next]_vars
-----------------------------------------------------------------------------
(* Safety.                                                                 *)

(* A row carries a lease (an owner and an expiry) exactly while it is      *)
(* running.  Ten UPDATEs of state.py write status, lease_owner and         *)
(* leased_until together; a running row without an expiry is one that no   *)
(* sweep would ever return, a queued row with an owner one that a late     *)
(* completion could still match.                                           *)
LeaseFieldsAgree ==
  \A j \in Job : /\ jobs[j].status = "running" <=> jobs[j].owner # None
                 /\ jobs[j].status = "running" <=> jobs[j].until # NoTime

(* Crashes, expiries and retries never make a job run more often than      *)
(* max_attempts in one generation: the sweep returns a job that has used   *)
(* its last attempt to the queue, and only the next lease_next finalises   *)
(* it (state.py:1615).                                                     *)
BudgetKept ==
  \A j \in Job : jobs[j].budget > 0 => jobs[j].attempts <= jobs[j].budget

(* However many heartbeats there were, and however late they were written, *)
(* a lease ends at most one lease time from now: the job of a dead worker  *)
(* can be recovered after that.                                            *)
LeaseBounded == \A j \in Job : jobs[j].until <= now + Lease

(* The event table replays to the job table: the newest transition event   *)
(* names the row's status, and the row has used as many attempts as there  *)
(* are leased events since its last reset.                                 *)
AuditTrailReplays ==
  \A j \in Job : /\ jobs[j].status = StatusAfter(trail[j].event)
                 /\ jobs[j].attempts = trail[j].leases

(* The two together: the events account for the row, and the leases they   *)
(* tell of since the last reset are within the budget of the job.          *)
TrailWithinBudget == AuditTrailReplays /\ BudgetKept

(* Concurrent enqueues of one document version leave one row.              *)
OneRowPerKey ==
  \A i, j \in Job : Present(i) /\ Present(j) /\ jobs[i].key = jobs[j].key
                      => i = j

(* A job whose lease has not expired is taken from its owner by nobody: it *)
(* stops running when a report with the row's owner and attempt is         *)
(* accepted, or when the orphan sweep, which does not look at the lease,   *)
(* finds owner and updated_at unchanged.  A heartbeat that commits between *)
(* the SELECT and the UPDATE of a sweep therefore keeps the job.           *)
LiveLeaseKept ==
  [][\A j \in Job :
       LET row == jobs[j] IN
       (row.status = "running" /\ row.until >= now /\ jobs'[j] # row) =>
         \/ \E c \in Client :
              /\ calls[c].op \in {"report", "beat"}
              /\ calls[c].token = [job |-> j, owner |-> row.owner,
                                   attempt |-> row.attempts]
         \/ \E c \in Client :
              /\ calls[c].op = "reap"
              /\ [job |-> j, owner |-> row.owner, updated |-> row.updated]
                    \in calls[c].seen]_vars

(* No late completion, sweep, heartbeat or lease moves a job that has been *)
(* settled: succeeded is forever, and the other outcomes are left only by  *)
(* the operator, who retries them or cancels a retryable or skipped job.   *)
SettledStaysSettled ==
  [][\A j \in Job :
       (jobs[j].status \in Terminal /\ jobs'[j] # jobs[j]) =>
         \/ /\ trail'[j].event \in {"retry", "retry_generation_reset"}
            /\ jobs[j].status # "succeeded"
         \/ /\ trail'[j].event = "cancelled"
            /\ jobs[j].status \in {"skipped", "failed_retryable"}]_vars
=============================================================================

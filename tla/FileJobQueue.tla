---------------------------- MODULE FileJobQueue ----------------------------
(***************************************************************************)
(* The ocr_jobs and html_jobs queues of PipelineStateStore (state.py): two *)
(* tables with the same lease protocol, each with outcomes of its own.     *)
(* They differ from metadata_jobs (MetadataQueue) in what protects a row   *)
(* from a late report: the report carries the lease owner but not the      *)
(* attempt, a report may leave the owner out and is then accepted in any   *)
(* status, and an HTML job can be deferred, which gives its attempt back.  *)
(*                                                                         *)
(* The workers of these queues are other programs that share the store.    *)
(* What this module assumes of them is that a lease owner is one           *)
(* sequential worker: it reports or extends only the lease it took last,   *)
(* and takes no other while one of its calls is open.  FencedReports shows *)
(* that the owner is then fence enough.                                    *)
(*                                                                         *)
(* As in MetadataQueue, a method that reads the clock or a row before its  *)
(* transaction is two actions; the first stores what was seen in open[h].  *)
(***************************************************************************)
EXTENDS Integers

CONSTANTS
  FileJob,       \* rows the two tables may come to hold
  Signature,     \* dedupe keys of one file version, the same in both tables
  Holder,        \* lease owners, each a sequential worker
  FileBudgets,   \* max_attempts values passed; 0 is "unlimited"
  FileLease,     \* lease_seconds, in ticks
  Null,          \* SQL null, and "forced": a key with a fresh uuid
  MaxClock,      \* bound on the clock
  MaxClaims,     \* bound on the leases of one job between two resets
  MaxDeferrals   \* bound on its deferrals between two resets

ASSUME FileQueueAssumption ==
  /\ Null \notin Signature \cup Holder \cup FileJob
  /\ FileBudgets \subseteq Nat
  /\ FileLease \in Nat \ {0}
  /\ MaxClock \in Nat
  /\ MaxClaims \in Nat
  /\ MaxDeferrals \in Nat

VARIABLES
  clock,   \* the wall clock
  files,   \* the rows of both tables; an unused one has status "absent"
  open,    \* per worker, the store call it is in the middle of
  hold,    \* per worker, the job it leased last, and (history) whether
           \* that is still the job's newest lease
  ledger   \* history per row: its leases and deferrals since the last reset

fvars == <<clock, files, open, hold, ledger>>

Kinds == {"ocr", "html"}
Unset == -1

(* The outcomes of each table, and what its retry and cancel start from.   *)
FileReports(kind) ==
  {"succeeded", "failed_retryable", "failed_final"} \cup
    IF kind = "ocr" THEN {"manual_review", "problem_document"}
                    ELSE {"needs_chunk_fallback"}
Retryable(kind) == (FileReports(kind) \ {"succeeded"}) \cup {"cancelled"}
Cancellable(kind) ==
  {"queued"} \cup (FileReports(kind) \ {"succeeded", "failed_final"})

FileStatus == {"absent", "queued", "running", "cancelled"}
                \cup FileReports("ocr") \cup FileReports("html")

FileRow == [ status : FileStatus, kind : Kinds, sig : Signature \cup {Null},
             attempts : Nat, budget : Nat, owner : Holder \cup {Null},
             until : Int, created : Nat ]
NoFileRow == [ status |-> "absent", kind |-> "ocr", sig |-> Null,
               attempts |-> 0, budget |-> 0, owner |-> Null,
               until |-> Unset, created |-> 0 ]

NoHold == [job |-> Null, newest |-> FALSE]
NoCall == [op |-> "none"]
OpenCall ==
  [op : {"none"}]
  \cup [op : {"insert"}, kind : Kinds, sig : Signature \cup {Null},
        budget : FileBudgets, time : Nat]
  \cup [op : {"sweep"}, kind : Kinds, ids : SUBSET FileJob, time : Nat]
  \cup [op : {"claim"}, kind : Kinds, since : Nat]
  \cup [op : {"report"}, job : FileJob, spent : BOOLEAN, since : Nat]
  \cup [op : {"extend"}, job : FileJob, since : Nat]

FileTypeOK ==
  /\ clock \in Nat
  /\ files \in [FileJob -> FileRow]
  /\ open \in [Holder -> OpenCall]
  /\ hold \in [Holder -> [job : FileJob \cup {Null}, newest : BOOLEAN]]
  /\ ledger \in [FileJob -> [leases : Nat, deferrals : Nat]]

FileInit ==
  /\ clock = 0
  /\ files = [j \in FileJob |-> NoFileRow]
  /\ open = [c \in Holder |-> NoCall]
  /\ hold = [h \in Holder |-> NoHold]
  /\ ledger = [j \in FileJob |-> [leases |-> 0, deferrals |-> 0]]

Begin(c, call) == open[c] = NoCall /\ open' = [open EXCEPT ![c] = call]
End(c) == open' = [open EXCEPT ![c] = NoCall]

-----------------------------------------------------------------------------
(* Enqueueing: a lookup by dedupe key, then an insert that a conflict on   *)
(* the key turns into a read.  The job id in the row is fresh.  The status *)
(* of the new row is an argument; the worker's rows are queued.            *)

Stored(j) == files[j].status # "absent"
SameFile(kind, sig) ==
  {j \in FileJob : Stored(j) /\ files[j].kind = kind
                     /\ sig # Null /\ files[j].sig = sig}

EnqueueFile(c, kind, sig, budget) ==
  /\ SameFile(kind, sig) = {}
  /\ Begin(c, [op |-> "insert", kind |-> kind, sig |-> sig,
               budget |-> budget, time |-> clock])
  /\ UNCHANGED <<clock, files, hold, ledger>>

EnqueueJob(c) ==
  \E sig \in Signature \cup {Null}, b \in FileBudgets :
    EnqueueFile(c, "ocr", sig, b)
EnqueueHtmlJob(c) ==
  \E sig \in Signature \cup {Null}, b \in FileBudgets :
    EnqueueFile(c, "html", sig, b)

UniqueKeyTaken(kind, sig) == SameFile(kind, sig) # {}

InsertFile(c) ==
  LET call == open[c] IN
  /\ call.op = "insert"
  /\ ~UniqueKeyTaken(call.kind, call.sig)
  /\ \E j \in FileJob :
       /\ ~Stored(j)
       /\ files' = [files EXCEPT ![j] =
            [NoFileRow EXCEPT !.status = "queued", !.kind = call.kind,
                              !.sig = call.sig, !.budget = call.budget,
                              !.created = call.time]]
  /\ End(c)
  /\ UNCHANGED <<clock, hold, ledger>>

InsertConflict(c) ==
  /\ open[c].op = "insert"
  /\ UniqueKeyTaken(open[c].kind, open[c].sig)
  /\ End(c)
  /\ UNCHANGED <<clock, files, hold, ledger>>

-----------------------------------------------------------------------------
(* Leasing: a sweep of the expired leases (SELECT, then UPDATEs that repeat*)
(* the condition), then one immediate transaction that finalises spent     *)
(* rows and leases the oldest queued one, with a clock read before it.     *)

Overdue(j, kind, t) ==
  /\ files[j].status = "running" /\ files[j].kind = kind
  /\ files[j].until # Unset /\ files[j].until < t

RecoverExpiredJobs(h) ==
  /\ Begin(h, [op |-> "sweep", kind |-> "ocr", time |-> clock,
               ids |-> {j \in FileJob : Overdue(j, "ocr", clock)}])
  /\ UNCHANGED <<clock, files, hold, ledger>>
RecoverExpiredHtmlJobs(h) ==
  /\ Begin(h, [op |-> "sweep", kind |-> "html", time |-> clock,
               ids |-> {j \in FileJob : Overdue(j, "html", clock)}])
  /\ UNCHANGED <<clock, files, hold, ledger>>

Released(row, status) ==
  [row EXCEPT !.status = status, !.owner = Null, !.until = Unset]

SweepFiles(h) ==
  LET call == open[h] IN
  /\ call.op = "sweep"
  /\ files' = [j \in FileJob |->
                 IF j \in call.ids /\ Overdue(j, call.kind, call.time)
                   THEN Released(files[j], "queued") ELSE files[j]]
  /\ open' = [open EXCEPT ![h] =
                [op |-> "claim", kind |-> call.kind, since |-> clock]]
  /\ UNCHANGED <<clock, hold, ledger>>

BudgetGone(row) == row.budget > 0 /\ row.attempts >= row.budget
Waiting(kind) ==
  {j \in FileJob : files[j].status = "queued" /\ files[j].kind = kind}
Gone(kind) == {j \in Waiting(kind) : BudgetGone(files[j])}
Eldest(S) == {j \in S : \A i \in S : files[j].created <= files[i].created}

LeaseNothingFile(h) ==
  LET kind == open[h].kind IN
  /\ open[h].op = "claim"
  /\ Waiting(kind) = Gone(kind)
  /\ files' = [i \in FileJob |-> IF i \in Gone(kind)
                 THEN [files[i] EXCEPT !.status = "failed_final"] ELSE files[i]]
  /\ End(h)
  /\ UNCHANGED <<clock, hold, ledger>>

LeaseFile(h, kind, j) ==
  /\ open[h].op = "claim" /\ open[h].kind = kind
  /\ j \in Eldest(Waiting(kind) \ Gone(kind))
  /\ ledger[j].leases < MaxClaims
  /\ \E t \in open[h].since .. clock :
       files' = [i \in FileJob |->
         IF i = j THEN [files[i] EXCEPT !.status = "running", !.owner = h,
                          !.attempts = @ + 1, !.until = t + FileLease]
         ELSE IF i \in Gone(kind)
           THEN [files[i] EXCEPT !.status = "failed_final"] ELSE files[i]]
  /\ ledger' = [ledger EXCEPT ![j].leases = @ + 1]
  /\ hold' = [i \in Holder |->
                IF i = h THEN [job |-> j, newest |-> TRUE]
                ELSE [hold[i] EXCEPT !.newest = @ /\ hold[i].job # j]]
  /\ End(h)
  /\ UNCHANGED clock

LeaseNextJob(h) == \E j \in FileJob : LeaseFile(h, "ocr", j)
LeaseNextHtmlJob(h) == \E j \in FileJob : LeaseFile(h, "html", j)

-----------------------------------------------------------------------------
(* Reports.  A worker reports the job it holds under its owner name.  It   *)
(* reads the clock first, and mark_job_failed and mark_html_job_failed     *)
(* also the row; then each method is one UPDATE.                           *)

FileReportBegin(h) ==
  LET j == hold[h].job IN
  /\ j # Null
  /\ Begin(h, [op |-> "report", job |-> j, spent |-> BudgetGone(files[j]),
               since |-> clock])
  /\ UNCHANGED <<clock, files, hold, ledger>>

(* _terminal_owner_clause: with an owner, its lease must be live at the    *)
(* time the caller read; without one there is no condition.                *)
SomeLease(h, j, t) == files[j].status = "running" /\ files[j].until >= t
OwnsLease(h, j, t) ==
  /\ files[j].status = "running" /\ files[j].owner = h
  /\ files[j].until # Unset /\ files[j].until >= t

MarkFile(h, kind, status) ==
  LET j == open[h].job IN
  /\ open[h].op = "report" /\ files[j].kind = kind
  /\ \E t \in open[h].since .. clock : OwnsLease(h, j, t)
  /\ files' = [files EXCEPT ![j] = Released(@, status)]
  /\ End(h)
  /\ UNCHANGED <<clock, hold, ledger>>

FailureStatus(h, retryable) ==
  IF retryable /\ ~open[h].spent THEN "failed_retryable" ELSE "failed_final"

MarkJobSucceeded(h) == MarkFile(h, "ocr", "succeeded")
MarkJobFailed(h) ==
  \E r \in BOOLEAN : MarkFile(h, "ocr", FailureStatus(h, r))
MarkJobManualReview(h) == MarkFile(h, "ocr", "manual_review")
MarkJobProblemDocument(h) == MarkFile(h, "ocr", "problem_document")
MarkHtmlJobSucceeded(h) == MarkFile(h, "html", "succeeded")
MarkHtmlJobFailed(h) ==
  \E r \in BOOLEAN : MarkFile(h, "html", FailureStatus(h, r))

(* mark_html_job_deferred lets the caller choose the status; the table     *)
(* knows two that a worker can come back to.                               *)
Deferred == {"queued", "needs_chunk_fallback"}
UndoneBelowZero(n) == n - 1
UndoneWholly(n) == 0
Undone(n) == IF n > 0 THEN n - 1 ELSE 0
Refunded(row, status) ==
  [Released(row, status) EXCEPT !.attempts = Undone(row.attempts)]

DeferRow(j) ==
  /\ ledger[j].deferrals < MaxDeferrals
  /\ \E status \in Deferred :
       files' = [files EXCEPT ![j] = Refunded(@, status)]
  /\ ledger' = [ledger EXCEPT ![j].deferrals = @ + 1]

MarkHtmlJobDeferred(h) ==
  LET j == open[h].job IN
  /\ open[h].op = "report" /\ files[j].kind = "html"
  /\ \E t \in open[h].since .. clock : OwnsLease(h, j, t)
  /\ DeferRow(j)
  /\ End(h)
  /\ UNCHANGED <<clock, hold>>

(* A report without an owner has no condition but the job id.  What it     *)
(* read before does not show in the row, except as the choice between the  *)
(* two failures.                                                           *)
UnownedReport ==
  \E j \in FileJob :
    /\ Stored(j)
    /\ \E status \in FileReports(files[j].kind) \ {"needs_chunk_fallback"} :
         files' = [files EXCEPT ![j] = Released(@, status)]
    /\ UNCHANGED <<clock, open, hold, ledger>>

UnownedDeferral ==
  \E j \in FileJob :
    /\ Stored(j) /\ files[j].kind = "html"
    /\ DeferRow(j)
    /\ UNCHANGED <<clock, open, hold>>

(* The UPDATE matches no row: only an event is written.                    *)
ReportDropped(c) ==
  /\ open[c].op = "report"
  /\ ~OwnsLease(c, open[c].job, clock)
  /\ End(c)
  /\ UNCHANGED <<clock, files, hold, ledger>>

-----------------------------------------------------------------------------
(* heartbeat_html_job, and mark_job_progress of the OCR table, which       *)
(* extends the lease only when it is given lease_seconds.                  *)

ExtendBegin(h) ==
  LET j == hold[h].job IN
  /\ j # Null
  /\ Begin(h, [op |-> "extend", job |-> j, since |-> clock])
  /\ UNCHANGED <<clock, files, hold, ledger>>

Extend(h, kind, renewals) ==
  LET j == open[h].job IN
  /\ open[h].op = "extend" /\ files[j].kind = kind
  /\ \E t \in open[h].since .. clock :
       /\ OwnsLease(h, j, t)
       /\ \E renew \in renewals :
            files' = [files EXCEPT ![j].until = IF renew THEN t + FileLease
                                                ELSE @]
  /\ End(h)
  /\ UNCHANGED <<clock, hold, ledger>>

HeartbeatHtmlJob(h) == Extend(h, "html", {TRUE})
MarkJobProgress(h) == Extend(h, "ocr", BOOLEAN)

ExtendRefused(h) ==
  /\ open[h].op = "extend"
  /\ ~OwnsLease(h, open[h].job, clock)
  /\ End(h)
  /\ UNCHANGED <<clock, files, hold, ledger>>

-----------------------------------------------------------------------------
(* retry_job and retry_html_job, cancel_job and cancel_html_job: one       *)
(* immediate transaction each.                                             *)

FileRequeued(row, reset) ==
  [Released(row, "queued") EXCEPT
     !.attempts = IF reset THEN 0 ELSE row.attempts]

RequeueFile(kind) ==
  \E j \in FileJob, reset \in BOOLEAN :
    /\ files[j].kind = kind /\ files[j].status \in Retryable(kind)
    /\ reset \/ ~BudgetGone(files[j])
    /\ files' = [files EXCEPT ![j] = FileRequeued(@, reset)]
    /\ ledger' = [ledger EXCEPT ![j] =
         IF reset THEN [@ EXCEPT !.leases = 0, !.deferrals = 0] ELSE @]
    /\ UNCHANGED <<clock, open, hold>>

RetryJob == RequeueFile("ocr")
RetryHtmlJob == RequeueFile("html")

CancelFile(kind) ==
  \E j \in FileJob :
    /\ files[j].kind = kind /\ files[j].status \in Cancellable(kind)
    /\ files' = [files EXCEPT ![j] = Released(@, "cancelled")]
    /\ UNCHANGED <<clock, open, hold, ledger>>

CancelJob == CancelFile("ocr")
CancelHtmlJob == CancelFile("html")

(* A worker restarts, with a new owner name as far as the store can tell:  *)
(* its call is rolled back and it holds nothing.                           *)
Dies(h) ==
  /\ open' = [open EXCEPT ![h] = NoCall]
  /\ hold' = [hold EXCEPT ![h] = NoHold]
  /\ UNCHANGED <<clock, files, ledger>>

FileTick ==
  /\ clock < MaxClock
  /\ clock' = clock + 1
  /\ UNCHANGED <<files, open, hold, ledger>>

-----------------------------------------------------------------------------
HolderStep(h) ==
  \/ EnqueueJob(h) \/ EnqueueHtmlJob(h)
  \/ InsertFile(h) \/ InsertConflict(h)
  \/ RecoverExpiredJobs(h) \/ RecoverExpiredHtmlJobs(h) \/ SweepFiles(h)
  \/ LeaseNothingFile(h) \/ LeaseNextJob(h) \/ LeaseNextHtmlJob(h)
  \/ FileReportBegin(h)
  \/ MarkJobSucceeded(h) \/ MarkJobFailed(h)
  \/ MarkJobManualReview(h) \/ MarkJobProblemDocument(h)
  \/ MarkHtmlJobSucceeded(h) \/ MarkHtmlJobFailed(h) \/ MarkHtmlJobDeferred(h)
  \/ ReportDropped(h)
  \/ ExtendBegin(h) \/ HeartbeatHtmlJob(h) \/ MarkJobProgress(h)
  \/ ExtendRefused(h)
  \/ Dies(h)

FileNext ==
  \/ \E h \in Holder : HolderStep(h)
  \/ UnownedReport \/ UnownedDeferral
  \/ RetryJob \/ RetryHtmlJob \/ CancelJob \/ CancelHtmlJob
  \/ FileTick

FileSpec == FileInit /\ [][FileNext]_fvars

-----------------------------------------------------------------------------
(* One row per file version and table, however enqueues interleave.        *)
OneRowPerFile ==
  \A i, j \in FileJob :
    (/\ Stored(i) /\ Stored(j) /\ files[i].sig # Null
     /\ files[i].kind = files[j].kind /\ files[i].sig = files[j].sig) => i = j

(* Deferring gives an attempt back and an unowned deferral can give back   *)
(* one that was never taken; still, between two resets no row is leased    *)
(* more often than its budget and its deferrals allow.                     *)
LeasesWithinBudget ==
  \A j \in FileJob :
    files[j].budget > 0 =>
      ledger[j].leases <= files[j].budget + ledger[j].deferrals

(* Although a report does not carry the attempt, a worker's report that is *)
(* accepted is about the newest lease of the row: never about one that     *)
(* expired and was taken over, be it by the worker itself.                 *)
FencedReports ==
  [][\A h \in Holder :
       (/\ open[h].op = "report" /\ open'[h].op = "none"
        /\ files' # files) =>
         /\ files[open[h].job].owner = h
         /\ hold[h] = [job |-> open[h].job, newest |-> TRUE]]_fvars
=============================================================================

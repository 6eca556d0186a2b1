------------------------- MODULE SharedStateProofs --------------------------
(***************************************************************************)
(* Proofs about what the containers share: the OCR and HTML queues         *)
(* (FileJobQueue) for any sets of rows, keys and workers, any budgets and  *)
(* any lease time; the event and result history of the store; files        *)
(* published into the Zotero storage; and the documents that are sent with *)
(* their parts embedded (EmbeddedHtml).                                    *)
(*                                                                         *)
(* As for the metadata queue, one lemma says in which ways a step can      *)
(* change a row and its ledger; the invariants are inductions over these   *)
(* ways.  FencedReports needs one invariant more, which ties the lease of  *)
(* a row to the worker that remembers it (HoldAgrees).  The history needs  *)
(* that pruning in batches keeps what one batch keeps, an induction over   *)
(* the number of batches (PruningKeeps).                                   *)
(*                                                                         *)
(* SentIsOneMoment and SentStandsAlone hold for any number of embedders,   *)
(* files and writes.  A version that was there at two moments was there    *)
(* all the time between them (NeverBack), because a written file has a     *)
(* fingerprint it never had before.  An embedder has seen every file       *)
(* before its cut, and sees it again after it: so each was there at the    *)
(* cut, and the cut is the one moment the property asks for.  That the     *)
(* embedded file stands alone is decided when the references have been     *)
(* replaced (Rewrite), and what has been read does not change later.       *)
(***************************************************************************)
EXTENDS FileJobQueue, StateHistory, LocalCopy, EmbeddedHtml, FiniteSums

-----------------------------------------------------------------------------
(* The ways a row changes, and its ledger with it.                         *)

RowBecomes(j, row) == files'[j] = row /\ ledger'[j] = ledger[j]

RowKept(j) == RowBecomes(j, files[j])

RowInserted(j) ==
  /\ ~Stored(j)
  /\ \E which \in Kinds, sig \in Signature \cup {Null}, b \in FileBudgets, t \in Nat :
       /\ ~UniqueKeyTaken(which, sig)
       /\ RowBecomes(j, [NoFileRow EXCEPT !.status = "queued", !.kind = which,
                         !.sig = sig, !.budget = b, !.created = t])
  /\ \A i \in FileJob \ {j} : RowKept(i)

RowReleased(j) ==
  /\ Stored(j)
  /\ \E s \in FileStatus \ {"absent", "running"} : RowBecomes(j, Released(files[j], s))

RowFinalised(j) ==
  /\ files[j].status = "queued"
  /\ RowBecomes(j, [files[j] EXCEPT !.status = "failed_final"])

RowLeased(j) ==
  /\ files[j].status = "queued" /\ ~BudgetGone(files[j])
  /\ \E h \in Holder, t \in Int :
       /\ files'[j] = [files[j] EXCEPT !.status = "running", !.owner = h,
                         !.attempts = @ + 1, !.until = t + FileLease]
       /\ hold'[h] = [job |-> j, newest |-> TRUE]
  /\ ledger'[j] = [ledger[j] EXCEPT !.leases = @ + 1]

RowRenewed(j) ==
  /\ files[j].status = "running"
  /\ \E t \in Int : RowBecomes(j, [files[j] EXCEPT !.until = t])

RowDeferred(j) ==
  /\ Stored(j)
  /\ \E s \in Deferred : files'[j] = Refunded(files[j], s)
  /\ ledger'[j] = [ledger[j] EXCEPT !.deferrals = @ + 1]

RowReset(j) ==
  /\ Stored(j)
  /\ files'[j] = FileRequeued(files[j], TRUE)
  /\ ledger'[j] = [ledger[j] EXCEPT !.leases = 0, !.deferrals = 0]

RowChange(j) ==
  \/ RowKept(j) \/ RowInserted(j) \/ RowReleased(j) \/ RowFinalised(j)
  \/ RowLeased(j) \/ RowRenewed(j) \/ RowDeferred(j) \/ RowReset(j)

(* What a worker remembers of its newest lease stays, is forgotten, or     *)
(* changes when a queued row is leased, by itself or by another.           *)
HoldChange(h) ==
  \/ hold'[h] = hold[h]
  \/ hold'[h] = NoHold
  \/ \E k \in FileJob :
       /\ files[k].status = "queued"
       /\ \/ hold'[h] = [job |-> k, newest |-> TRUE]
          \/ hold'[h] = [hold[h] EXCEPT !.newest = @ /\ hold[h].job # k]

-----------------------------------------------------------------------------
(* The fields of the call a worker is in the middle of.                    *)
LEMMA OpenFields ==
  ASSUME NEW call \in OpenCall
  PROVE  /\ call.op = "insert" =>
              /\ call.kind \in Kinds /\ call.sig \in Signature \cup {Null}
              /\ call.budget \in FileBudgets /\ call.time \in Nat
         /\ call.op = "sweep" =>
              call.kind \in Kinds /\ call.ids \subseteq FileJob /\ call.time \in Nat
         /\ call.op = "claim" => call.kind \in Kinds /\ call.since \in Nat
         /\ call.op = "report" =>
              call.job \in FileJob /\ call.spent \in BOOLEAN /\ call.since \in Nat
         /\ call.op = "extend" => call.job \in FileJob /\ call.since \in Nat
BY DEF OpenCall

(* Every outcome a report can write is a status of a row that has ended.   *)
LEMMA ReportStatuses ==
  ASSUME NEW which
  PROVE  FileReports(which) \subseteq FileStatus \ {"absent", "running", "queued"}
BY DEF FileReports, FileStatus

-----------------------------------------------------------------------------
(* One lemma for each action that writes the tables.                       *)

LEMMA InsertChange ==
  ASSUME FileTypeOK, NEW c \in Holder, InsertFile(c), NEW j \in FileJob
  PROVE  RowChange(j)
<1> DEFINE call == open[c]
           row == [NoFileRow EXCEPT !.status = "queued", !.kind = call.kind,
                     !.sig = call.sig, !.budget = call.budget, !.created = call.time]
<1>1. PICK i \in FileJob : ~Stored(i) /\ files' = [files EXCEPT ![i] = row]
  BY DEF InsertFile
<1>2. /\ call.kind \in Kinds /\ call.sig \in Signature \cup {Null}
      /\ call.budget \in FileBudgets /\ call.time \in Nat
      /\ ~UniqueKeyTaken(call.kind, call.sig)
  BY OpenFields DEF FileTypeOK, InsertFile
<1>3. \A k \in FileJob : ledger'[k] = ledger[k]
  BY DEF InsertFile
<1>4. CASE j = i
  <2>1. RowBecomes(j, row)
    BY <1>1, <1>3, <1>4 DEF RowBecomes, FileTypeOK
  <2>2. \A k \in FileJob \ {j} : RowKept(k)
    BY <1>1, <1>3, <1>4 DEF RowKept, RowBecomes, FileTypeOK
  <2> QED BY <1>1, <1>2, <1>4, <2>1, <2>2 DEF RowChange, RowInserted
<1>5. CASE j # i
  BY <1>1, <1>3, <1>5 DEF RowChange, RowKept, RowBecomes, FileTypeOK
<1> QED BY <1>4, <1>5

LEMMA SweepChange ==
  ASSUME FileTypeOK, NEW h \in Holder, SweepFiles(h), NEW j \in FileJob
  PROVE  RowChange(j)
<1>1. \/ files'[j] = files[j]
      \/ files[j].status = "running" /\ files'[j] = Released(files[j], "queued")
  BY DEF SweepFiles, Overdue
<1>2. ledger'[j] = ledger[j]
  BY DEF SweepFiles
<1>3. "queued" \in FileStatus \ {"absent", "running"}
  BY DEF FileStatus
<1> QED BY <1>1, <1>2, <1>3 DEF RowChange, RowKept, RowReleased, RowBecomes, Stored

LEMMA LeaseNothingChange ==
  ASSUME FileTypeOK, NEW h \in Holder, LeaseNothingFile(h), NEW j \in FileJob
  PROVE  RowChange(j)
<1>1. ledger'[j] = ledger[j]
  BY DEF LeaseNothingFile
<1>2. \/ files'[j] = files[j]
      \/ /\ files[j].status = "queued"
         /\ files'[j] = [files[j] EXCEPT !.status = "failed_final"]
  BY DEF LeaseNothingFile, Gone, Waiting
<1> QED BY <1>1, <1>2 DEF RowChange, RowKept, RowFinalised, RowBecomes

LEMMA LeaseChange ==
  ASSUME FileTypeOK, NEW h \in Holder, NEW which, NEW k \in FileJob,
         LeaseFile(h, which, k), NEW j \in FileJob
  PROVE  RowChange(j) /\ files[k].status = "queued"
<1>1. k \in Waiting(which) \ Gone(which)
  BY DEF LeaseFile, Eldest
<1>2. files[k].status = "queued" /\ ~BudgetGone(files[k])
  BY <1>1 DEF Waiting, Gone
<1> SUFFICES RowChange(j)
  BY <1>2
<1>3. PICK t \in open[h].since .. clock :
        files' = [i \in FileJob |->
          IF i = k THEN [files[i] EXCEPT !.status = "running", !.owner = h,
                           !.attempts = @ + 1, !.until = t + FileLease]
          ELSE IF i \in Gone(which)
            THEN [files[i] EXCEPT !.status = "failed_final"] ELSE files[i]]
  BY DEF LeaseFile
<1>4. CASE j = k
  <2>1. t \in Int
    BY DEF FileTypeOK
  <2>2. files'[j] = [files[j] EXCEPT !.status = "running", !.owner = h,
                       !.attempts = @ + 1, !.until = t + FileLease]
    BY <1>3, <1>4
  <2>3. hold'[h] = [job |-> j, newest |-> TRUE]
    BY <1>4 DEF LeaseFile
  <2>4. ledger'[j] = [ledger[j] EXCEPT !.leases = @ + 1]
    BY <1>4 DEF LeaseFile, FileTypeOK
  <2> QED BY <1>2, <1>4, <2>1, <2>2, <2>3, <2>4 DEF RowChange, RowLeased
<1>5. CASE j # k
  <2>1. ledger'[j] = ledger[j]
    BY <1>5 DEF LeaseFile, FileTypeOK
  <2>2. CASE j \in Gone(which)
    <3>1. files[j].status = "queued"
      BY <2>2 DEF Gone, Waiting
    <3>2. files'[j] = [files[j] EXCEPT !.status = "failed_final"]
      BY <1>3, <1>5, <2>2
    <3> QED BY <2>1, <3>1, <3>2 DEF RowChange, RowFinalised, RowBecomes
  <2>3. CASE j \notin Gone(which)
    BY <1>3, <1>5, <2>1, <2>3 DEF RowChange, RowKept, RowBecomes
  <2> QED BY <2>2, <2>3
<1> QED BY <1>4, <1>5

LEMMA MarkChange ==
  ASSUME FileTypeOK, NEW h \in Holder, NEW which,
         NEW status \in FileStatus \ {"absent", "running"},
         MarkFile(h, which, status), NEW j \in FileJob
  PROVE  RowChange(j)
<1>1. open[h].job \in FileJob
  BY OpenFields DEF MarkFile, FileTypeOK
<1>2. ledger'[j] = ledger[j]
  BY DEF MarkFile
<1>3. Stored(open[h].job)
  BY DEF MarkFile, OwnsLease, Stored
<1>4. \/ files'[j] = files[j]
      \/ j = open[h].job /\ files'[j] = Released(files[j], status)
  BY <1>1 DEF MarkFile, FileTypeOK
<1> QED BY <1>2, <1>3, <1>4 DEF RowChange, RowKept, RowReleased, RowBecomes

LEMMA DeferChange ==
  ASSUME FileTypeOK, NEW i \in FileJob, Stored(i), DeferRow(i), NEW j \in FileJob
  PROVE  RowChange(j)
<1>1. CASE j = i
  <2>1. PICK s \in Deferred :
          files' = [files EXCEPT ![i] = Refunded(@, s)]
    BY DEF DeferRow
  <2>2. files'[j] = Refunded(files[j], s)
    BY <1>1, <2>1 DEF FileTypeOK
  <2>3. ledger'[j] = [ledger[j] EXCEPT !.deferrals = @ + 1]
    BY <1>1 DEF DeferRow, FileTypeOK
  <2> QED BY <1>1, <2>2, <2>3 DEF RowChange, RowDeferred
<1>2. CASE j # i
  BY <1>2 DEF DeferRow, RowChange, RowKept, RowBecomes, FileTypeOK
<1> QED BY <1>1, <1>2

LEMMA UnownedChange ==
  ASSUME FileTypeOK, UnownedReport, NEW j \in FileJob
  PROVE  RowChange(j)
<1>1. PICK i \in FileJob :
        /\ Stored(i)
        /\ \E s \in FileReports(files[i].kind) \ {"needs_chunk_fallback"} :
             files' = [files EXCEPT ![i] = Released(@, s)]
        /\ ledger' = ledger
  BY DEF UnownedReport
<1>2. PICK s \in FileStatus \ {"absent", "running"} :
        files' = [files EXCEPT ![i] = Released(@, s)]
  BY <1>1, ReportStatuses
<1>3. CASE j = i
  BY <1>1, <1>2, <1>3 DEF RowChange, RowReleased, RowBecomes, FileTypeOK
<1>4. CASE j # i
  BY <1>1, <1>2, <1>4 DEF RowChange, RowKept, RowBecomes, FileTypeOK
<1> QED BY <1>3, <1>4

LEMMA ExtendChange ==
  ASSUME FileTypeOK, NEW h \in Holder, NEW which, NEW renewals \in SUBSET BOOLEAN,
         Extend(h, which, renewals), NEW j \in FileJob
  PROVE  RowChange(j)
<1> DEFINE i == open[h].job
<1>1. i \in FileJob
  BY OpenFields DEF Extend, FileTypeOK
<1>2. PICK t \in open[h].since .. clock, renew \in renewals :
        /\ OwnsLease(h, i, t)
        /\ files' = [files EXCEPT ![i].until = IF renew THEN t + FileLease ELSE @]
  BY DEF Extend
<1>3. files[i].status = "running"
  BY <1>2 DEF OwnsLease
<1>4. ledger'[j] = ledger[j]
  BY DEF Extend
<1>5. CASE j = i
  <2>1. (IF renew THEN t + FileLease ELSE files[j].until) \in Int
    BY FileQueueAssumption DEF FileTypeOK, FileRow
  <2>2. files'[j] = [files[j] EXCEPT !.until = IF renew THEN t + FileLease
                                              ELSE files[j].until]
    BY <1>1, <1>2, <1>5 DEF FileTypeOK
  <2> QED BY <1>3, <1>4, <1>5, <2>1, <2>2 DEF RowChange, RowRenewed, RowBecomes
<1>6. CASE j # i
  BY <1>1, <1>2, <1>4, <1>6 DEF RowChange, RowKept, RowBecomes, FileTypeOK
<1> QED BY <1>5, <1>6

LEMMA RequeueChange ==
  ASSUME FileTypeOK, NEW which, RequeueFile(which), NEW j \in FileJob
  PROVE  RowChange(j)
<1>1. PICK i \in FileJob, reset \in BOOLEAN :
        /\ files[i].kind = which /\ files[i].status \in Retryable(which)
        /\ files' = [files EXCEPT ![i] = FileRequeued(@, reset)]
        /\ ledger' = [ledger EXCEPT ![i] =
             IF reset THEN [@ EXCEPT !.leases = 0, !.deferrals = 0] ELSE @]
  BY DEF RequeueFile
<1>2. Stored(i)
  BY <1>1, ReportStatuses DEF Retryable, Stored
<1>3. CASE j = i /\ reset
  BY <1>1, <1>2, <1>3 DEF RowChange, RowReset, FileTypeOK
<1>4. CASE j = i /\ ~reset
  <2>1. "queued" \in FileStatus \ {"absent", "running"}
    BY DEF FileStatus
  <2>2. files[j] \in FileRow
    BY DEF FileTypeOK
  <2>3. FileRequeued(files[j], FALSE) = Released(files[j], "queued")
    BY <2>2 DEF FileRequeued, Released, FileRow
  <2>4. files'[j] = Released(files[j], "queued") /\ ledger'[j] = ledger[j]
    BY <1>1, <1>4, <2>3 DEF FileTypeOK
  <2> QED BY <1>2, <1>4, <2>1, <2>4 DEF RowChange, RowReleased, RowBecomes
<1>5. CASE j # i
  BY <1>1, <1>5 DEF RowChange, RowKept, RowBecomes, FileTypeOK
<1> QED BY <1>3, <1>4, <1>5

LEMMA CancelChange ==
  ASSUME FileTypeOK, NEW which, CancelFile(which), NEW j \in FileJob
  PROVE  RowChange(j)
<1>1. PICK i \in FileJob :
        /\ files[i].status \in Cancellable(which)
        /\ files' = [files EXCEPT ![i] = Released(@, "cancelled")]
        /\ ledger' = ledger
  BY DEF CancelFile
<1>2. Stored(i) /\ "cancelled" \in FileStatus \ {"absent", "running"}
  BY <1>1, ReportStatuses DEF Cancellable, Stored, FileStatus
<1>3. CASE j = i
  BY <1>1, <1>2, <1>3 DEF RowChange, RowReleased, RowBecomes, FileTypeOK
<1>4. CASE j # i
  BY <1>1, <1>4 DEF RowChange, RowKept, RowBecomes, FileTypeOK
<1> QED BY <1>3, <1>4
(* A step of the system changes every row in one of these ways.            *)
LEMMA StepChange ==
  ASSUME FileTypeOK, [FileNext]_fvars, NEW j \in FileJob
  PROVE  RowChange(j)
<1> DEFINE Same == UNCHANGED <<files, ledger>>
<1>1. Same => RowChange(j)
  BY DEF RowChange, RowKept, RowBecomes
<1>2. ASSUME NEW h \in Holder, HolderStep(h) PROVE RowChange(j)
  <2>1. CASE \/ EnqueueJob(h) \/ EnqueueHtmlJob(h) \/ InsertConflict(h)
             \/ RecoverExpiredJobs(h) \/ RecoverExpiredHtmlJobs(h)
             \/ FileReportBegin(h) \/ ReportDropped(h)
             \/ ExtendBegin(h) \/ ExtendRefused(h) \/ Dies(h)
    BY <1>1, <2>1 DEF EnqueueJob, EnqueueHtmlJob, EnqueueFile, InsertConflict,
         RecoverExpiredJobs, RecoverExpiredHtmlJobs, FileReportBegin,
         ReportDropped, ExtendBegin, ExtendRefused, Dies
  <2>2. CASE InsertFile(h)
    BY <2>2, InsertChange
  <2>3. CASE SweepFiles(h)
    BY <2>3, SweepChange
  <2>4. CASE LeaseNothingFile(h)
    BY <2>4, LeaseNothingChange
  <2>5. CASE LeaseNextJob(h) \/ LeaseNextHtmlJob(h)
    BY <2>5, LeaseChange DEF LeaseNextJob, LeaseNextHtmlJob
  <2>6. CASE \/ MarkJobSucceeded(h) \/ MarkJobManualReview(h)
             \/ MarkJobProblemDocument(h) \/ MarkHtmlJobSucceeded(h)
    <3>1. {"succeeded", "manual_review", "problem_document"}
            \subseteq FileStatus \ {"absent", "running"}
      BY DEF FileStatus, FileReports
    <3> QED BY <2>6, <3>1, MarkChange DEF MarkJobSucceeded, MarkJobManualReview,
              MarkJobProblemDocument, MarkHtmlJobSucceeded
  <2>7. CASE MarkJobFailed(h) \/ MarkHtmlJobFailed(h)
    <3>1. \A r \in BOOLEAN : FailureStatus(h, r) \in FileStatus \ {"absent", "running"}
      BY DEF FailureStatus, FileStatus, FileReports
    <3> QED BY <2>7, <3>1, MarkChange DEF MarkJobFailed, MarkHtmlJobFailed
  <2>8. CASE MarkHtmlJobDeferred(h)
    <3>1. open[h].job \in FileJob
      BY <2>8, OpenFields DEF MarkHtmlJobDeferred, FileTypeOK
    <3>2. Stored(open[h].job) /\ DeferRow(open[h].job)
      BY <2>8 DEF MarkHtmlJobDeferred, OwnsLease, Stored
    <3> QED BY <3>1, <3>2, DeferChange
  <2>9. CASE HeartbeatHtmlJob(h) \/ MarkJobProgress(h)
    BY <2>9, ExtendChange DEF HeartbeatHtmlJob, MarkJobProgress
  <2> QED BY <1>2, <2>1, <2>2, <2>3, <2>4, <2>5, <2>6, <2>7, <2>8, <2>9
          DEF HolderStep
<1>3. CASE UnownedReport
  BY <1>3, UnownedChange
<1>4. CASE UnownedDeferral
  BY <1>4, DeferChange DEF UnownedDeferral
<1>5. CASE RetryJob \/ RetryHtmlJob
  BY <1>5, RequeueChange DEF RetryJob, RetryHtmlJob
<1>6. CASE CancelJob \/ CancelHtmlJob
  BY <1>6, CancelChange DEF CancelJob, CancelHtmlJob
<1>7. CASE FileTick
  BY <1>1, <1>7 DEF FileTick
<1>8. CASE UNCHANGED fvars
  BY <1>1, <1>8 DEF fvars
<1> QED BY <1>2, <1>3, <1>4, <1>5, <1>6, <1>7, <1>8 DEF FileNext

-----------------------------------------------------------------------------
(* The tables keep their shape.                                            *)
LEMMA TablesStay ==
  ASSUME FileTypeOK, FileNext
  PROVE  /\ files' = [j \in FileJob |-> files'[j]]
         /\ ledger' = [j \in FileJob |-> ledger'[j]]
<1> USE DEF FileTypeOK
<1>1. ASSUME NEW h \in Holder, HolderStep(h)
      PROVE  /\ files' = [j \in FileJob |-> files'[j]]
             /\ ledger' = [j \in FileJob |-> ledger'[j]]
  <2>1. CASE \/ EnqueueJob(h) \/ EnqueueHtmlJob(h) \/ InsertConflict(h)
             \/ RecoverExpiredJobs(h) \/ RecoverExpiredHtmlJobs(h)
             \/ FileReportBegin(h) \/ ReportDropped(h)
             \/ ExtendBegin(h) \/ ExtendRefused(h) \/ Dies(h)
    BY <2>1 DEF EnqueueJob, EnqueueHtmlJob, EnqueueFile, InsertConflict,
         RecoverExpiredJobs, RecoverExpiredHtmlJobs, FileReportBegin,
         ReportDropped, ExtendBegin, ExtendRefused, Dies
  <2>2. CASE InsertFile(h)
    BY <2>2 DEF InsertFile
  <2>3. CASE SweepFiles(h)
    BY <2>3 DEF SweepFiles
  <2>4. CASE LeaseNothingFile(h)
    BY <2>4 DEF LeaseNothingFile
  <2>5. CASE LeaseNextJob(h) \/ LeaseNextHtmlJob(h)
    BY <2>5 DEF LeaseNextJob, LeaseNextHtmlJob, LeaseFile
  <2>6. CASE \/ MarkJobSucceeded(h) \/ MarkJobManualReview(h)
             \/ MarkJobProblemDocument(h) \/ MarkHtmlJobSucceeded(h)
             \/ MarkJobFailed(h) \/ MarkHtmlJobFailed(h)
    BY <2>6 DEF MarkJobSucceeded, MarkJobManualReview, MarkJobProblemDocument,
         MarkHtmlJobSucceeded, MarkJobFailed, MarkHtmlJobFailed, MarkFile
  <2>7. CASE MarkHtmlJobDeferred(h)
    BY <2>7 DEF MarkHtmlJobDeferred, DeferRow
  <2>8. CASE HeartbeatHtmlJob(h) \/ MarkJobProgress(h)
    BY <2>8 DEF HeartbeatHtmlJob, MarkJobProgress, Extend
  <2> QED BY <1>1, <2>1, <2>2, <2>3, <2>4, <2>5, <2>6, <2>7, <2>8 DEF HolderStep
<1>2. CASE UnownedReport
  BY <1>2 DEF UnownedReport
<1>3. CASE UnownedDeferral
  BY <1>3 DEF UnownedDeferral, DeferRow
<1>4. CASE RetryJob \/ RetryHtmlJob
  BY <1>4 DEF RetryJob, RetryHtmlJob, RequeueFile
<1>5. CASE CancelJob \/ CancelHtmlJob
  BY <1>5 DEF CancelJob, CancelHtmlJob, CancelFile
<1>6. CASE FileTick
  BY <1>6 DEF FileTick
<1> QED BY <1>1, <1>2, <1>3, <1>4, <1>5, <1>6 DEF FileNext

(* A row stays a row when one of its fields is set.                        *)
LEMMA RowEdited ==
  ASSUME NEW row \in FileRow
  PROVE  /\ \A s \in FileStatus : [row EXCEPT !.status = s] \in FileRow
         /\ \A o \in Holder \cup {Null} : [row EXCEPT !.owner = o] \in FileRow
         /\ \A n \in Nat : [row EXCEPT !.attempts = n] \in FileRow
         /\ \A t \in Int : [row EXCEPT !.until = t] \in FileRow
BY DEF FileRow

LEMMA RowTyped ==
  ASSUME FileTypeOK, NEW j \in FileJob, RowChange(j)
  PROVE  /\ files'[j] \in FileRow
         /\ ledger'[j] \in [leases : Nat, deferrals : Nat]
<1> DEFINE Ledgers == [leases : Nat, deferrals : Nat]
<1>1. files[j] \in FileRow /\ ledger[j] \in Ledgers
  BY DEF FileTypeOK
<1>2. CASE RowKept(j)
  BY <1>1, <1>2 DEF RowKept, RowBecomes
<1>a. {"absent", "queued", "running", "failed_final"} \cup Deferred \subseteq FileStatus
  BY DEF FileStatus, FileReports, Deferred
<1>b. ASSUME NEW s \in FileStatus PROVE Released(files[j], s) \in FileRow
  <2> DEFINE row1 == [files[j] EXCEPT !.status = s]
             row2 == [row1 EXCEPT !.owner = Null]
             row3 == [row2 EXCEPT !.until = Unset]
  <2>1. row1 \in FileRow
    BY <1>1, RowEdited
  <2> HIDE DEF row1
  <2>2. row2 \in FileRow
    BY <2>1, RowEdited
  <2> HIDE DEF row2
  <2>3. row3 \in FileRow
    BY <2>2, RowEdited DEF Unset
  <2> QED BY <2>3 DEF row1, row2, Released
<1>3. CASE RowInserted(j)
  <2>1. PICK which \in Kinds, sig \in Signature \cup {Null}, b \in FileBudgets, t \in Nat :
          RowBecomes(j, [NoFileRow EXCEPT !.status = "queued", !.kind = which,
                        !.sig = sig, !.budget = b, !.created = t])
    BY <1>3 DEF RowInserted
  <2>2. NoFileRow \in FileRow
    BY <1>a DEF NoFileRow, FileRow, Unset, Kinds
  <2>3. b \in Nat
    BY FileQueueAssumption
  <2>4. [NoFileRow EXCEPT !.status = "queued", !.kind = which,
                        !.sig = sig, !.budget = b, !.created = t] \in FileRow
    BY <1>a, <2>2, <2>3 DEF FileRow
  <2> QED BY <1>1, <2>1, <2>4 DEF RowBecomes
<1>4. CASE RowReleased(j)
  BY <1>1, <1>4, <1>b DEF RowReleased, RowBecomes
<1>5. CASE RowFinalised(j)
  BY <1>1, <1>5, <1>a DEF RowFinalised, RowBecomes, FileRow
<1>6. CASE RowLeased(j)
  <2>1. PICK h \in Holder, t \in Int :
          files'[j] = [files[j] EXCEPT !.status = "running", !.owner = h,
                         !.attempts = @ + 1, !.until = t + FileLease]
    BY <1>6 DEF RowLeased
  <2>2. t + FileLease \in Int
    BY FileQueueAssumption
  <2> DEFINE row1 == [files[j] EXCEPT !.status = "running"]
             row2 == [row1 EXCEPT !.owner = h]
             row3 == [row2 EXCEPT !.attempts = files[j].attempts + 1]
             row4 == [row3 EXCEPT !.until = t + FileLease]
  <2>3. files[j].attempts + 1 \in Nat
    BY <1>1 DEF FileRow
  <2>4. row1 \in FileRow
    BY <1>1, <1>a, RowEdited
  <2>5. files'[j] \in FileRow
    <3>1. files'[j] = row4
      BY <1>1, <2>1 DEF FileRow
    <3> HIDE DEF row1
    <3>2. row2 \in FileRow
      BY <2>4, RowEdited
    <3> HIDE DEF row2
    <3>3. row3 \in FileRow
      BY <2>3, <3>2, RowEdited
    <3> HIDE DEF row3
    <3>4. row4 \in FileRow
      BY <2>2, <3>3, RowEdited
    <3> QED BY <3>1, <3>4
  <2>6. ledger'[j] \in Ledgers
    BY <1>1, <1>6 DEF RowLeased
  <2> QED BY <2>5, <2>6
<1>7. CASE RowRenewed(j)
  BY <1>1, <1>7 DEF RowRenewed, RowBecomes, FileRow
<1>8. CASE RowDeferred(j)
  <2>1. PICK s \in Deferred : files'[j] = Refunded(files[j], s)
    BY <1>8 DEF RowDeferred
  <2>2. Released(files[j], s) \in FileRow
    BY <1>a, <1>b
  <2>3. Undone(files[j].attempts) \in Nat
    BY <1>1 DEF Undone, FileRow
  <2>4. files'[j] \in FileRow
    BY <2>1, <2>2, <2>3 DEF Refunded, FileRow
  <2>5. ledger'[j] \in Ledgers
    BY <1>1, <1>8 DEF RowDeferred
  <2> QED BY <2>4, <2>5
<1>9. CASE RowReset(j)
  <2>1. Released(files[j], "queued") \in FileRow
    BY <1>a, <1>b
  <2>2. files'[j] \in FileRow
    BY <1>9, <2>1 DEF RowReset, FileRequeued, FileRow
  <2>3. [ledger[j] EXCEPT !.leases = 0] \in Ledgers
    BY <1>1
  <2>4. ledger'[j] \in Ledgers
    BY <1>9, <2>3 DEF RowReset
  <2> QED BY <2>2, <2>4
<1> QED BY <1>2, <1>3, <1>4, <1>5, <1>6, <1>7, <1>8, <1>9 DEF RowChange

(* The calls in progress, what the workers hold, and the clock.            *)
LEMMA CallsTyped ==
  ASSUME FileTypeOK, FileNext
  PROVE  /\ clock' \in Nat
         /\ open' \in [Holder -> OpenCall]
         /\ hold' \in [Holder -> [job : FileJob \cup {Null}, newest : BOOLEAN]]
<1> USE DEF FileTypeOK
<1> DEFINE Holds == [job : FileJob \cup {Null}, newest : BOOLEAN]
<1>1. NoCall \in OpenCall /\ NoHold \in Holds
  BY DEF NoCall, OpenCall, NoHold
<1>2. ASSUME NEW h \in Holder, HolderStep(h)
      PROVE  clock' \in Nat /\ open' \in [Holder -> OpenCall] /\ hold' \in [Holder -> Holds]
  <2>1. ASSUME End(h) PROVE open' \in [Holder -> OpenCall]
    BY <1>1, <2>1 DEF End
  <2>2. ASSUME NEW call \in OpenCall, Begin(h, call)
        PROVE  open' \in [Holder -> OpenCall]
    BY <2>2 DEF Begin
  <2>3. CASE EnqueueJob(h) \/ EnqueueHtmlJob(h)
    <3>1. \A which \in Kinds, sig \in Signature \cup {Null}, b \in FileBudgets :
            [op |-> "insert", kind |-> which, sig |-> sig, budget |-> b,
             time |-> clock] \in OpenCall
      BY DEF OpenCall
    <3> QED BY <2>2, <2>3, <3>1 DEF EnqueueJob, EnqueueHtmlJob, EnqueueFile, Kinds
  <2>4. CASE \/ InsertFile(h) \/ InsertConflict(h) \/ LeaseNothingFile(h)
             \/ ReportDropped(h) \/ ExtendRefused(h)
    BY <2>1, <2>4 DEF InsertFile, InsertConflict, LeaseNothingFile,
         ReportDropped, ExtendRefused
  <2>5. CASE RecoverExpiredJobs(h) \/ RecoverExpiredHtmlJobs(h)
    <3>1. \A which \in Kinds :
            [op |-> "sweep", kind |-> which, time |-> clock,
             ids |-> {j \in FileJob : Overdue(j, which, clock)}] \in OpenCall
      BY DEF OpenCall
    <3> QED BY <2>2, <2>5, <3>1 DEF RecoverExpiredJobs, RecoverExpiredHtmlJobs, Kinds
  <2>6. CASE SweepFiles(h)
    <3>1. [op |-> "claim", kind |-> open[h].kind, since |-> clock] \in OpenCall
      BY <2>6, OpenFields DEF OpenCall, SweepFiles
    <3> QED BY <2>6, <3>1 DEF SweepFiles
  <2>7. CASE LeaseNextJob(h) \/ LeaseNextHtmlJob(h)
    <3>1. PICK which \in Kinds, j \in FileJob : LeaseFile(h, which, j)
      BY <2>7 DEF LeaseNextJob, LeaseNextHtmlJob, Kinds
    <3>2. open' \in [Holder -> OpenCall] /\ clock' = clock
      BY <2>1, <3>1 DEF LeaseFile
    <3>3. \A i \in Holder : hold[i] \in Holds
      OBVIOUS
    <3>4. \A i \in Holder :
            /\ [job |-> j, newest |-> TRUE] \in Holds
            /\ [hold[i] EXCEPT !.newest = @ /\ hold[i].job # j] \in Holds
      BY <3>3
    <3>5. hold' \in [Holder -> Holds]
      BY <3>1, <3>4 DEF LeaseFile
    <3> QED BY <3>2, <3>5
  <2>8. CASE FileReportBegin(h) \/ ExtendBegin(h)
    <3>1. hold[h].job \in FileJob
      BY <2>8 DEF FileReportBegin, ExtendBegin
    <3>2. BudgetGone(files[hold[h].job]) \in BOOLEAN
      BY DEF BudgetGone
    <3>3. [op |-> "report", job |-> hold[h].job,
           spent |-> BudgetGone(files[hold[h].job]), since |-> clock] \in OpenCall
      BY <3>1, <3>2 DEF OpenCall
    <3>4. [op |-> "extend", job |-> hold[h].job, since |-> clock] \in OpenCall
      BY <3>1 DEF OpenCall
    <3> QED BY <2>2, <2>8, <3>3, <3>4 DEF FileReportBegin, ExtendBegin
  <2>9. CASE \/ MarkJobSucceeded(h) \/ MarkJobManualReview(h)
             \/ MarkJobProblemDocument(h) \/ MarkHtmlJobSucceeded(h)
             \/ MarkJobFailed(h) \/ MarkHtmlJobFailed(h)
    BY <2>1, <2>9 DEF MarkJobSucceeded, MarkJobManualReview,
         MarkJobProblemDocument, MarkHtmlJobSucceeded, MarkJobFailed,
         MarkHtmlJobFailed, MarkFile
  <2>10. CASE MarkHtmlJobDeferred(h)
    BY <2>1, <2>10 DEF MarkHtmlJobDeferred
  <2>11. CASE HeartbeatHtmlJob(h) \/ MarkJobProgress(h)
    BY <2>1, <2>11 DEF HeartbeatHtmlJob, MarkJobProgress, Extend
  <2>12. CASE Dies(h)
    BY <1>1, <2>12 DEF Dies
  <2> QED BY <1>2, <2>3, <2>4, <2>5, <2>6, <2>7, <2>8, <2>9, <2>10, <2>11, <2>12
          DEF HolderStep
<1>3. CASE \/ UnownedReport \/ UnownedDeferral \/ RetryJob \/ RetryHtmlJob
           \/ CancelJob \/ CancelHtmlJob
  BY <1>3 DEF UnownedReport, UnownedDeferral, RetryJob, RetryHtmlJob, RequeueFile,
       CancelJob, CancelHtmlJob, CancelFile
<1>4. CASE FileTick
  BY <1>4 DEF FileTick
<1> QED BY <1>2, <1>3, <1>4 DEF FileNext

(* Every reachable state of the two queues is well typed, for any numbers  *)
(* of rows and workers.                                                    *)
THEOREM FileTypeCorrect == FileSpec => []FileTypeOK
<1>1. FileInit => FileTypeOK
  BY DEF FileInit, FileTypeOK, NoFileRow, FileRow, FileStatus, Kinds, Unset,
       NoCall, OpenCall, NoHold
<1>2. FileTypeOK /\ [FileNext]_fvars => FileTypeOK'
  <2> SUFFICES ASSUME FileTypeOK, [FileNext]_fvars PROVE FileTypeOK'
    OBVIOUS
  <2>1. CASE FileNext
    <3>1. \A j \in FileJob : /\ files'[j] \in FileRow
                             /\ ledger'[j] \in [leases : Nat, deferrals : Nat]
      BY StepChange, RowTyped
    <3>2. /\ files' \in [FileJob -> FileRow]
          /\ ledger' \in [FileJob -> [leases : Nat, deferrals : Nat]]
      BY <2>1, <3>1, TablesStay
    <3> QED BY <2>1, <3>2, CallsTyped DEF FileTypeOK
  <2>2. CASE UNCHANGED fvars
    BY <2>2 DEF fvars, FileTypeOK
  <2> QED BY <2>1, <2>2
<1> QED BY <1>1, <1>2, PTL DEF FileSpec

-----------------------------------------------------------------------------
(* What a change leaves of a row that is not just inserted.                *)
LEMMA RowIdentity ==
  ASSUME FileTypeOK, NEW j \in FileJob, RowChange(j), ~RowInserted(j)
  PROVE  /\ files'[j].kind = files[j].kind
         /\ files'[j].sig = files[j].sig
         /\ files'[j].budget = files[j].budget
         /\ Stored(j)' <=> Stored(j)
<1> USE DEF RowBecomes, Stored
<1>1. files[j] \in FileRow
  BY DEF FileTypeOK
<1>2. CASE RowKept(j)
  BY <1>2 DEF RowKept
<1>3. CASE RowReleased(j)
  BY <1>1, <1>3 DEF RowReleased, Released, FileRow
<1>4. CASE RowFinalised(j)
  BY <1>1, <1>4 DEF RowFinalised, FileRow
<1>5. CASE RowLeased(j)
  BY <1>1, <1>5 DEF RowLeased, FileRow
<1>6. CASE RowRenewed(j)
  BY <1>1, <1>6 DEF RowRenewed, FileRow
<1>7. CASE RowDeferred(j)
  BY <1>1, <1>7 DEF RowDeferred, Refunded, Released, Deferred, FileRow
<1>8. CASE RowReset(j)
  BY <1>1, <1>8 DEF RowReset, FileRequeued, Released, FileRow
<1> QED BY <1>2, <1>3, <1>4, <1>5, <1>6, <1>7, <1>8 DEF RowChange

(* enqueue_job and enqueue_html_job look up the key outside the insert, but *)
(* the table's unique key keeps one row per file version, for any number   *)
(* of interleaved enqueues.                                                *)
THEOREM OneRowPerFileAlways == FileSpec => []OneRowPerFile
<1>1. FileInit => OneRowPerFile
  BY DEF FileInit, OneRowPerFile, Stored, NoFileRow
<1>2. FileTypeOK /\ OneRowPerFile /\ [FileNext]_fvars => OneRowPerFile'
  <2> SUFFICES ASSUME FileTypeOK, OneRowPerFile, [FileNext]_fvars,
                      NEW i \in FileJob, NEW j \in FileJob,
                      Stored(i)', Stored(j)', files'[i].sig # Null,
                      files'[i].kind = files'[j].kind, files'[i].sig = files'[j].sig
               PROVE  i = j
    BY DEF OneRowPerFile, Stored
  <2>1. \A k \in FileJob : RowChange(k)
    BY StepChange
  <2>2. ASSUME NEW k \in FileJob, NEW o \in FileJob \ {k}, RowInserted(k),
               Stored(o)', files'[k].sig # Null,
               files'[k].kind = files'[o].kind, files'[k].sig = files'[o].sig
        PROVE  FALSE
    <3>1. PICK which \in Kinds, sig \in Signature \cup {Null}, b \in FileBudgets, t \in Nat :
            /\ ~UniqueKeyTaken(which, sig)
            /\ RowBecomes(k, [NoFileRow EXCEPT !.status = "queued", !.kind = which,
                              !.sig = sig, !.budget = b, !.created = t])
      BY <2>2, Zenon DEF RowInserted
    <3>2. files'[k].kind = which /\ files'[k].sig = sig
      BY <3>1 DEF NoFileRow, RowBecomes
    <3>3. files'[o] = files[o]
      BY <2>2 DEF RowInserted, RowKept, RowBecomes
    <3>4. o \in SameFile(which, sig)
      BY <2>2, <3>2, <3>3 DEF SameFile, Stored
    <3> QED BY <3>1, <3>4 DEF UniqueKeyTaken
  <2>3. CASE RowInserted(i)
    BY <2>2, <2>3
  <2>4. CASE RowInserted(j)
    BY <2>2, <2>4
  <2>5. CASE ~RowInserted(i) /\ ~RowInserted(j)
    BY <2>1, <2>5, RowIdentity DEF OneRowPerFile
  <2> QED BY <2>3, <2>4, <2>5
<1> QED BY <1>1, <1>2, FileTypeCorrect, PTL DEF FileSpec

-----------------------------------------------------------------------------
(* The attempts column never exceeds the budget, and what it lacks of the  *)
(* leases taken since the last reset has been given back by a deferral.    *)
Spending ==
  \A j \in FileJob :
    /\ ledger[j].leases <= files[j].attempts + ledger[j].deferrals
    /\ files[j].budget > 0 => files[j].attempts <= files[j].budget
    /\ ~Stored(j) => files[j].attempts = 0

(* Whatever the retries, deferrals and late reports, a row is leased no    *)
(* more often between two resets than its budget and its deferrals allow.  *)
THEOREM LeasesWithinBudgetAlways == FileSpec => []LeasesWithinBudget
<1>1. FileInit => Spending
  <2> SUFFICES ASSUME FileInit, NEW j \in FileJob
               PROVE  /\ ledger[j].leases <= files[j].attempts + ledger[j].deferrals
                      /\ files[j].budget > 0 => files[j].attempts <= files[j].budget
                      /\ ~Stored(j) => files[j].attempts = 0
    BY DEF Spending
  <2>1. files[j] = NoFileRow /\ ledger[j] = [leases |-> 0, deferrals |-> 0]
    BY DEF FileInit
  <2>2. /\ ledger[j].leases = 0 /\ ledger[j].deferrals = 0
        /\ files[j].attempts = 0 /\ files[j].budget = 0
    BY <2>1 DEF NoFileRow
  <2> QED BY <2>2
<1>2. FileTypeOK /\ Spending /\ [FileNext]_fvars => Spending'
  <2> SUFFICES ASSUME FileTypeOK, Spending, [FileNext]_fvars, NEW j \in FileJob
               PROVE  /\ ledger'[j].leases <= files'[j].attempts + ledger'[j].deferrals
                      /\ files'[j].budget > 0 => files'[j].attempts <= files'[j].budget
                      /\ ~Stored(j)' => files'[j].attempts = 0
    BY DEF Spending, Stored
  <2> USE DEF RowBecomes
  <2>1. /\ files[j] \in FileRow
        /\ ledger[j] \in [leases : Nat, deferrals : Nat]
        /\ ledger[j].leases <= files[j].attempts + ledger[j].deferrals
        /\ files[j].budget > 0 => files[j].attempts <= files[j].budget
        /\ ~Stored(j) => files[j].attempts = 0
    BY DEF FileTypeOK, Spending
  <2>2. RowChange(j)
    BY StepChange
  <2>3. CASE RowInserted(j)
    <3>1. PICK b \in Nat :
            /\ files'[j].attempts = 0 /\ files'[j].budget = b
            /\ files'[j].status = "queued"
      BY <2>3, FileQueueAssumption DEF RowInserted, NoFileRow
    <3> QED BY <2>1, <2>3, <3>1 DEF RowInserted, Stored
  <2>4. CASE ~RowInserted(j)
    <3>1. files'[j].budget = files[j].budget /\ (Stored(j)' <=> Stored(j))
      BY <2>2, <2>4, RowIdentity
    <3>2. CASE RowKept(j)
      BY <2>1, <3>1, <3>2 DEF RowKept
    <3>3. CASE RowReleased(j) \/ RowFinalised(j) \/ RowRenewed(j)
      <4>1. files'[j].attempts = files[j].attempts /\ ledger'[j] = ledger[j]
        BY <2>1, <3>3 DEF RowReleased, Released, RowFinalised, RowRenewed, FileRow
      <4> QED BY <2>1, <3>1, <4>1
    <3>4. CASE RowLeased(j)
      <4>1. /\ files'[j].attempts = files[j].attempts + 1
            /\ ledger'[j].leases = ledger[j].leases + 1
            /\ ledger'[j].deferrals = ledger[j].deferrals
            /\ Stored(j) /\ ~BudgetGone(files[j])
        BY <2>1, <3>4 DEF RowLeased, FileRow, Stored
      <4> QED BY <2>1, <3>1, <4>1 DEF BudgetGone, FileRow
    <3>5. CASE RowDeferred(j)
      <4>1. /\ files'[j].attempts = Undone(files[j].attempts)
            /\ ledger'[j].leases = ledger[j].leases
            /\ ledger'[j].deferrals = ledger[j].deferrals + 1
            /\ Stored(j)
        BY <2>1, <3>5 DEF RowDeferred, Refunded, Released, FileRow
      <4> QED BY <2>1, <3>1, <4>1 DEF Undone, FileRow
    <3>6. CASE RowReset(j)
      <4>1. /\ files'[j].attempts = 0
            /\ ledger'[j].leases = 0 /\ ledger'[j].deferrals = 0
        BY <2>1, <3>6 DEF RowReset, FileRequeued, Released, FileRow
      <4> QED BY <2>1, <3>1, <4>1 DEF FileRow
    <3> QED BY <2>2, <2>4, <3>2, <3>3, <3>4, <3>5, <3>6 DEF RowChange
  <2> QED BY <2>3, <2>4
<1>3. FileTypeOK /\ Spending => LeasesWithinBudget
  <2> SUFFICES ASSUME FileTypeOK, Spending, NEW j \in FileJob, files[j].budget > 0
               PROVE  ledger[j].leases <= files[j].budget + ledger[j].deferrals
    BY DEF LeasesWithinBudget
  <2>1. /\ files[j].attempts \in Nat /\ files[j].budget \in Nat
        /\ ledger[j].leases \in Nat /\ ledger[j].deferrals \in Nat
    BY DEF FileTypeOK, FileRow
  <2> QED BY <2>1 DEF Spending
<1> QED BY <1>1, <1>2, <1>3, FileTypeCorrect, PTL DEF FileSpec

-----------------------------------------------------------------------------
(* What a step does to the newest lease a worker remembers.                *)
LEMMA StepHold ==
  ASSUME FileTypeOK, [FileNext]_fvars, NEW h \in Holder
  PROVE  HoldChange(h)
<1>1. (UNCHANGED hold) => HoldChange(h)
  BY DEF HoldChange
<1>2. ASSUME NEW i \in Holder, HolderStep(i) PROVE HoldChange(h)
  <2>1. CASE LeaseNextJob(i) \/ LeaseNextHtmlJob(i)
    <3>1. PICK which \in Kinds, j \in FileJob : LeaseFile(i, which, j)
      BY <2>1 DEF LeaseNextJob, LeaseNextHtmlJob, Kinds
    <3>2. files[j].status = "queued"
      BY <3>1, LeaseChange
    <3>3. \/ hold'[h] = [job |-> j, newest |-> TRUE]
          \/ hold'[h] = [hold[h] EXCEPT !.newest = @ /\ hold[h].job # j]
      BY <3>1, Zenon DEF LeaseFile
    <3> QED BY <3>2, <3>3 DEF HoldChange
  <2>2. CASE Dies(i)
    BY <2>2 DEF Dies, HoldChange, FileTypeOK
  <2>3. CASE ~(LeaseNextJob(i) \/ LeaseNextHtmlJob(i) \/ Dies(i))
    <3>1. UNCHANGED hold
      BY <1>2, <2>3 DEF HolderStep, EnqueueJob, EnqueueHtmlJob, EnqueueFile,
           InsertFile, InsertConflict, RecoverExpiredJobs, RecoverExpiredHtmlJobs,
           SweepFiles, LeaseNothingFile, FileReportBegin, MarkJobSucceeded,
           MarkJobFailed, MarkJobManualReview, MarkJobProblemDocument,
           MarkHtmlJobSucceeded, MarkHtmlJobFailed, MarkFile, MarkHtmlJobDeferred,
           ReportDropped, ExtendBegin, HeartbeatHtmlJob, MarkJobProgress, Extend,
           ExtendRefused
    <3> QED BY <1>1, <3>1
  <2> QED BY <2>1, <2>2, <2>3
<1>3. CASE ~(\E i \in Holder : HolderStep(i))
  <2>1. UNCHANGED hold
    BY <1>3 DEF FileNext, UnownedReport, UnownedDeferral, RetryJob, RetryHtmlJob,
         RequeueFile, CancelJob, CancelHtmlJob, CancelFile, FileTick, fvars
  <2> QED BY <1>1, <2>1
<1> QED BY <1>2, <1>3

(* A running row whose owner still remembers it is that owner's newest     *)
(* lease of it, and newest for the row.                                    *)
OwnerIsNewest ==
  \A h \in Holder, j \in FileJob :
    (files[j].status = "running" /\ files[j].owner = h /\ hold[h].job = j)
      => hold[h].newest

LEMMA OwnerIsNewestKept ==
  ASSUME FileTypeOK, OwnerIsNewest, [FileNext]_fvars
  PROVE  OwnerIsNewest'
<1> SUFFICES ASSUME NEW h \in Holder, NEW j \in FileJob,
                    files'[j].status = "running", files'[j].owner = h,
                    hold'[h].job = j
             PROVE  hold'[h].newest
  BY DEF OwnerIsNewest
<1> USE DEF RowBecomes
<1>1. RowChange(j) /\ HoldChange(h)
  BY StepChange, StepHold
<1>2. files[j] \in FileRow /\ hold[h] \in [job : FileJob \cup {Null}, newest : BOOLEAN]
  BY DEF FileTypeOK
<1>3. CASE RowLeased(j)
  <2>1. PICK i \in Holder : files'[j].owner = i /\ hold'[i].newest
    BY <1>2, <1>3 DEF RowLeased, FileRow
  <2> QED BY <2>1
<1>4. CASE ~RowLeased(j)
  <2>1. files[j].status = "running" /\ files[j].owner = h
    <3>1. CASE RowKept(j)
      BY <3>1 DEF RowKept
    <3>2. CASE RowRenewed(j)
      BY <1>2, <3>2 DEF RowRenewed, FileRow
    <3>3. ~RowInserted(j) /\ ~RowFinalised(j)
      BY <1>2 DEF RowInserted, RowFinalised, NoFileRow, FileRow
    <3>4. ~RowReleased(j) /\ ~RowDeferred(j) /\ ~RowReset(j)
      BY <1>2 DEF RowReleased, RowDeferred, RowReset, Refunded, FileRequeued, Released,
           Deferred, FileRow
    <3> QED BY <1>1, <1>4, <3>1, <3>2, <3>3, <3>4 DEF RowChange
  <2>2. CASE hold'[h] = hold[h]
    BY <2>1, <2>2 DEF OwnerIsNewest
  <2>3. hold'[h] # NoHold
    BY FileQueueAssumption DEF NoHold
  <2>4. CASE \E k \in FileJob :
               /\ files[k].status = "queued"
               /\ \/ hold'[h] = [job |-> k, newest |-> TRUE]
                  \/ hold'[h] = [hold[h] EXCEPT !.newest = @ /\ hold[h].job # k]
    <3>1. PICK k \in FileJob :
               /\ files[k].status = "queued"
               /\ \/ hold'[h] = [job |-> k, newest |-> TRUE]
                  \/ hold'[h] = [hold[h] EXCEPT !.newest = @ /\ hold[h].job # k]
      BY <2>4
    <3>2. k # j
      BY <2>1, <3>1
    <3>3. hold'[h] # [job |-> k, newest |-> TRUE]
      BY <3>2
    <3>4. hold[h].job = j /\ hold[h].newest
      BY <1>2, <2>1, <3>1, <3>3 DEF OwnerIsNewest
    <3> QED BY <1>2, <3>1, <3>2, <3>3, <3>4
  <2> QED BY <1>1, <2>2, <2>3, <2>4 DEF HoldChange
<1> QED BY <1>3, <1>4

(* The job of an open report is the one its worker remembers.              *)
ReportsHold ==
  \A h \in Holder : open[h].op = "report" => hold[h].job = open[h].job

LEMMA ReportsHoldKept ==
  ASSUME FileTypeOK, ReportsHold, [FileNext]_fvars
  PROVE  ReportsHold'
<1> SUFFICES ASSUME NEW h \in Holder, open'[h].op = "report"
             PROVE  hold'[h].job = open'[h].job
  BY DEF ReportsHold
<1> DEFINE Same == open'[h] = open[h] /\ hold'[h].job = hold[h].job
<1>1. Same => hold'[h].job = open'[h].job
  BY DEF ReportsHold
<1>2. ASSUME NEW i \in Holder, HolderStep(i) PROVE hold'[h].job = open'[h].job
  <2>1. NoCall.op # "report"
    BY DEF NoCall
  <2>2. ASSUME End(i), \/ UNCHANGED hold
                       \/ \E j \in FileJob :
                            hold' = [k \in Holder |->
                              IF k = i THEN [job |-> j, newest |-> TRUE]
                              ELSE [hold[k] EXCEPT !.newest = @ /\ hold[k].job # j]]
        PROVE  hold'[h].job = open'[h].job
    <3>1. i # h
      BY <2>1, <2>2 DEF End, FileTypeOK
    <3>2. open'[h] = open[h]
      BY <2>2, <3>1 DEF End, FileTypeOK
    <3>3. hold[h] \in [job : FileJob \cup {Null}, newest : BOOLEAN]
      BY DEF FileTypeOK
    <3>4. hold'[h].job = hold[h].job
      BY <2>2, <3>1, <3>3
    <3> QED BY <1>1, <3>2, <3>4
  <2>3. ASSUME NEW call, Begin(i, call), UNCHANGED hold,
               call.op # "report" \/ call.job = hold[i].job
        PROVE  hold'[h].job = open'[h].job
    BY <1>1, <2>3 DEF Begin, FileTypeOK
  <2>4. CASE \/ EnqueueJob(i) \/ EnqueueHtmlJob(i)
             \/ RecoverExpiredJobs(i) \/ RecoverExpiredHtmlJobs(i)
             \/ FileReportBegin(i) \/ ExtendBegin(i)
    BY <2>3, <2>4 DEF EnqueueJob, EnqueueHtmlJob, EnqueueFile, RecoverExpiredJobs,
         RecoverExpiredHtmlJobs, FileReportBegin, ExtendBegin
  <2>5. CASE SweepFiles(i)
    BY <1>1, <2>5 DEF SweepFiles, FileTypeOK
  <2>6. CASE LeaseNextJob(i) \/ LeaseNextHtmlJob(i)
    BY <2>2, <2>6 DEF LeaseNextJob, LeaseNextHtmlJob, LeaseFile
  <2>7. CASE Dies(i)
    BY <1>1, <2>1, <2>7 DEF Dies, FileTypeOK
  <2>8. CASE \/ InsertFile(i) \/ InsertConflict(i) \/ LeaseNothingFile(i)
             \/ MarkJobSucceeded(i) \/ MarkJobFailed(i)
             \/ MarkJobManualReview(i) \/ MarkJobProblemDocument(i)
             \/ MarkHtmlJobSucceeded(i) \/ MarkHtmlJobFailed(i)
             \/ MarkHtmlJobDeferred(i) \/ ReportDropped(i)
             \/ HeartbeatHtmlJob(i) \/ MarkJobProgress(i) \/ ExtendRefused(i)
    <3>1. End(i) /\ UNCHANGED hold
      BY <2>8 DEF InsertFile, InsertConflict, LeaseNothingFile, MarkJobSucceeded,
           MarkJobFailed, MarkJobManualReview, MarkJobProblemDocument,
           MarkHtmlJobSucceeded, MarkHtmlJobFailed, MarkFile, MarkHtmlJobDeferred,
           ReportDropped, HeartbeatHtmlJob, MarkJobProgress, Extend, ExtendRefused
    <3> QED BY <2>2, <3>1
  <2> QED BY <1>2, <2>4, <2>5, <2>6, <2>7, <2>8 DEF HolderStep
<1>3. CASE ~(\E i \in Holder : HolderStep(i))
  <2>1. UNCHANGED <<open, hold>>
    BY <1>3 DEF FileNext, UnownedReport, UnownedDeferral, RetryJob, RetryHtmlJob,
         RequeueFile, CancelJob, CancelHtmlJob, CancelFile, FileTick, fvars
  <2> QED BY <1>1, <2>1
<1> QED BY <1>2, <1>3

(* A worker's step leaves the calls of the others alone.                   *)
LEMMA OwnCall ==
  ASSUME FileTypeOK, NEW i \in Holder, HolderStep(i), NEW h \in Holder \ {i}
  PROVE  open'[h] = open[h]
<1>1. ASSUME \/ End(i) \/ \E call : Begin(i, call)
      PROVE  open'[h] = open[h]
  BY <1>1 DEF End, Begin, FileTypeOK
<1>2. CASE SweepFiles(i) \/ Dies(i)
  BY <1>2 DEF SweepFiles, Dies, FileTypeOK
<1>3. CASE ~(SweepFiles(i) \/ Dies(i))
  <2>1. End(i) \/ \E call : Begin(i, call)
    BY <1>3, Zenon DEF HolderStep, EnqueueJob, EnqueueHtmlJob, EnqueueFile,
         RecoverExpiredJobs, RecoverExpiredHtmlJobs, FileReportBegin, ExtendBegin,
         InsertFile, InsertConflict, LeaseNothingFile, LeaseNextJob,
         LeaseNextHtmlJob, LeaseFile, MarkJobSucceeded, MarkJobFailed,
         MarkJobManualReview, MarkJobProblemDocument, MarkHtmlJobSucceeded,
         MarkHtmlJobFailed, MarkFile, MarkHtmlJobDeferred, ReportDropped,
         HeartbeatHtmlJob, MarkJobProgress, Extend, ExtendRefused
  <2> QED BY <1>1, <2>1
<1> QED BY <1>2, <1>3

(* mark_html_job_succeeded and its siblings compare the owner and not the  *)
(* attempt; that is enough, because the row they find running under the    *)
(* reporter's name is always the one it leased last.                       *)
THEOREM FencedReportsAlways == FileSpec => FencedReports
<1>1. FileInit => OwnerIsNewest /\ ReportsHold
  BY DEF FileInit, OwnerIsNewest, ReportsHold, NoFileRow, NoCall
<1>2. FileTypeOK /\ OwnerIsNewest /\ ReportsHold /\ [FileNext]_fvars
        => OwnerIsNewest' /\ ReportsHold'
  BY OwnerIsNewestKept, ReportsHoldKept
<1>3. FileTypeOK /\ OwnerIsNewest /\ ReportsHold /\ [FileNext]_fvars
        => [\A h \in Holder :
              (/\ open[h].op = "report" /\ open'[h].op = "none"
               /\ files' # files) =>
                /\ files[open[h].job].owner = h
                /\ hold[h] = [job |-> open[h].job, newest |-> TRUE]]_fvars
  <2> SUFFICES ASSUME FileTypeOK, OwnerIsNewest, ReportsHold, FileNext,
                      NEW h \in Holder, open[h].op = "report",
                      open'[h].op = "none", files' # files
               PROVE  /\ files[open[h].job].owner = h
                      /\ hold[h] = [job |-> open[h].job, newest |-> TRUE]
    OBVIOUS
  <2>1. open'[h] # open[h]
    OBVIOUS
  <2>2. PICK i \in Holder : HolderStep(i)
    BY <2>1 DEF FileNext, UnownedReport, UnownedDeferral, RetryJob, RetryHtmlJob,
         RequeueFile, CancelJob, CancelHtmlJob, CancelFile, FileTick, fvars
  <2>3. i = h
    BY <2>1, <2>2, OwnCall
  <2>4. \E t \in open[h].since .. clock : OwnsLease(h, open[h].job, t)
    <3>1. open[h] # NoCall /\ files' # files
      BY DEF NoCall
    <3>2. CASE \/ EnqueueJob(h) \/ EnqueueHtmlJob(h) \/ InsertConflict(h)
               \/ RecoverExpiredJobs(h) \/ RecoverExpiredHtmlJobs(h)
               \/ FileReportBegin(h) \/ ReportDropped(h)
               \/ ExtendBegin(h) \/ ExtendRefused(h) \/ Dies(h)
      BY <3>1, <3>2 DEF EnqueueJob, EnqueueHtmlJob, EnqueueFile, InsertConflict,
           RecoverExpiredJobs, RecoverExpiredHtmlJobs, FileReportBegin,
           ReportDropped, ExtendBegin, ExtendRefused, Dies
    <3>3. CASE \/ InsertFile(h) \/ SweepFiles(h) \/ LeaseNothingFile(h)
               \/ LeaseNextJob(h) \/ LeaseNextHtmlJob(h)
               \/ HeartbeatHtmlJob(h) \/ MarkJobProgress(h)
      BY <3>3 DEF InsertFile, SweepFiles, LeaseNothingFile, LeaseNextJob,
           LeaseNextHtmlJob, LeaseFile, HeartbeatHtmlJob, MarkJobProgress, Extend
    <3>4. CASE \/ MarkJobSucceeded(h) \/ MarkJobFailed(h)
               \/ MarkJobManualReview(h) \/ MarkJobProblemDocument(h)
               \/ MarkHtmlJobSucceeded(h) \/ MarkHtmlJobFailed(h)
      BY <3>4 DEF MarkJobSucceeded, MarkJobFailed, MarkJobManualReview,
           MarkJobProblemDocument, MarkHtmlJobSucceeded, MarkHtmlJobFailed, MarkFile
    <3>5. CASE MarkHtmlJobDeferred(h)
      BY <3>5 DEF MarkHtmlJobDeferred
    <3> QED BY <2>2, <2>3, <3>2, <3>3, <3>4, <3>5 DEF HolderStep
  <2>5. /\ files[open[h].job].status = "running"
        /\ files[open[h].job].owner = h
    BY <2>4 DEF OwnsLease
  <2>6. open[h].job \in FileJob /\ hold[h].job = open[h].job
    BY OpenFields DEF FileTypeOK, ReportsHold
  <2>7. hold[h].newest
    BY <2>5, <2>6 DEF OwnerIsNewest
  <2>8. hold[h] \in [job : FileJob \cup {Null}, newest : BOOLEAN]
    BY DEF FileTypeOK
  <2>9. hold[h] = [job |-> open[h].job, newest |-> TRUE]
    BY <2>6, <2>7, <2>8
  <2> QED BY <2>5, <2>9
<1> QED BY <1>1, <1>2, <1>3, FileTypeCorrect, PTL DEF FileSpec, FencedReports

-----------------------------------------------------------------------------
(* The history: results.                                                   *)

ResultInv == HistoryTypeOK /\ ResultIsNewest

LEMMA MaintainedKeepsReports ==
  ASSUME NEW res \in [Entity -> [report : Nat, form : Forms]],
         ResultsMaintained(res)
  PROVE  /\ result' \in [Entity -> [report : Nat, form : Forms]]
         /\ \A x \in Entity : result'[x].report = res[x].report
<1>1. PICK rows \in SUBSET LargeResults(res) :
        result' = [x \in Entity |-> IF x \in rows
                                      THEN [res[x] EXCEPT !.form = "compact"]
                                      ELSE res[x]]
  BY DEF ResultsMaintained
<1> QED BY <1>1 DEF Forms


-----------------------------------------------------------------------------
(* The history: events.  A log is a finite set of events, numbered up to m.*)

IsLog(log, m) ==
  /\ log \in SUBSET EventRow /\ IsFiniteSet(log)
  /\ \A e \in log : e.id \in 1..m

LEMMA LogShrinks ==
  ASSUME NEW m, NEW log, IsLog(log, m), NEW left \in SUBSET log
  PROVE  IsLog(left, m)
  BY FS_Subset DEF IsLog

LEMMA NewerIsFinite ==
  ASSUME NEW m, NEW log, IsLog(log, m), NEW e
  PROVE  IsFiniteSet(Newer(e, log)) /\ Cardinality(Newer(e, log)) \in Nat
<1>1. Newer(e, log) \in SUBSET log
  BY DEF Newer
<1> QED BY <1>1, FS_Subset, FS_CardinalityType DEF IsLog

(* A batch takes several events at once, but of those it takes the newest  *)
(* one of an entity had keep newer ones, and these stay.                   *)
LEMMA BatchKeeps ==
  ASSUME NEW m \in Nat, NEW log, IsLog(log, m), NEW keep \in Nat,
         NEW e \in EventRow, Cardinality(Newer(e, log)) >= keep
  PROVE  Cardinality(Newer(e, log \ Batch(log, keep))) >= keep
<1> DEFINE left == log \ Batch(log, keep)
           gone == Newer(e, log) \cap Batch(log, keep)
<1>1. IsLog(left, m)
  BY LogShrinks
<1>2. CASE gone = {}
  <2>1. Newer(e, left) = Newer(e, log)
    BY <1>2 DEF Newer
  <2> QED BY <2>1
<1>3. CASE gone # {}
  <2> DEFINE ids == { i \in 1..m : \E r \in gone : r.id = i }
  <2>1. \A r \in gone : r \in EventRow /\ r.id \in ids
    BY DEF IsLog, Newer
  <2>2. ids \in SUBSET Nat /\ ids # {} /\ \A i \in ids : i <= m
    BY <1>3, <2>1
  <2>3. PICK top \in ids : \A i \in ids : i <= top
    BY <2>2, GreatestNumber
  <2>4. PICK r \in gone : r.id = top
    BY <2>3
  <2>5. ASSUME NEW n \in Newer(r, log)
        PROVE  n \in Newer(e, left)
    <3>1. /\ n \in log /\ n.entity = r.entity /\ n.id > r.id
          /\ r.entity = e.entity /\ r.id > e.id
      BY <2>4, <2>5 DEF Newer
    <3>2. n.id \in Nat /\ r.id \in Nat /\ e.id \in Nat
      BY <2>1, <2>4, <3>1 DEF IsLog, EventRow
    <3>3. n \in Newer(e, log)
      BY <3>1, <3>2 DEF Newer
    <3>4. n \notin gone
      BY <2>1, <2>3, <2>4, <3>1, <3>2
    <3> QED BY <3>3, <3>4 DEF Newer
  <2>6. Cardinality(Newer(r, log)) >= keep
    <3>1. r \in Prunable(log, keep)
      BY <2>4 DEF Batch
    <3>2. ~(Cardinality(Newer(r, log)) < keep)
      BY <3>1 DEF Prunable, KeptByKeepClause
    <3>3. Cardinality(Newer(r, log)) \in Nat
      BY NewerIsFinite
    <3> QED BY <3>2, <3>3
  <2>7. Cardinality(Newer(r, log)) <= Cardinality(Newer(e, left))
    <3>1. Newer(r, log) \in SUBSET Newer(e, left)
      BY <2>5
    <3>2. IsFiniteSet(Newer(e, left))
      BY <1>1, NewerIsFinite
    <3> QED BY <3>1, <3>2, FS_Subset
  <2>8. /\ Cardinality(Newer(r, log)) \in Nat
        /\ Cardinality(Newer(e, left)) \in Nat
    BY <1>1, NewerIsFinite
  <2> QED BY <2>6, <2>7, <2>8
<1> QED BY <1>2, <1>3

(* What the pruning of log has left keeps the newest events if each event  *)
(* that is gone has keep newer ones there.                                 *)
Keeps(log, left, keep) ==
  /\ left \in SUBSET log
  /\ \A e \in log \ left : Cardinality(Newer(e, left)) >= keep

LEMMA BatchGoesOnKeeping ==
  ASSUME NEW m \in Nat, NEW log, IsLog(log, m), NEW keep \in Nat,
         NEW left, Keeps(log, left, keep)
  PROVE  Keeps(log, left \ Batch(left, keep), keep)
<1>1. IsLog(left, m)
  BY LogShrinks DEF Keeps
<1>2. ASSUME NEW e \in log \ (left \ Batch(left, keep))
      PROVE  Cardinality(Newer(e, left \ Batch(left, keep))) >= keep
  <2>1. Cardinality(Newer(e, left)) >= keep
    <3>1. CASE e \notin left
      BY <3>1 DEF Keeps
    <3>2. CASE e \in left
      <4>1. ~(Cardinality(Newer(e, left)) < keep)
        BY <3>2 DEF Batch, Prunable, KeptByKeepClause
      <4>2. Cardinality(Newer(e, left)) \in Nat
        BY <1>1, NewerIsFinite
      <4> QED BY <4>1, <4>2
    <3> QED BY <3>1, <3>2
  <2>2. e \in EventRow
    BY DEF IsLog
  <2> QED BY <1>1, <2>1, <2>2, BatchKeeps
<1> QED BY <1>2 DEF Keeps

(* Pruning in batches is defined for every number of batches.              *)
IsPruning(f, log, keep, n) ==
  f = [i \in 0..n |-> IF i = 0 THEN log ELSE f[i - 1] \ Batch(f[i - 1], keep)]

LEMMA PruningIsDefined ==
  ASSUME NEW log, NEW keep, NEW n \in Nat
  PROVE  \E f : IsPruning(f, log, keep, n)
<1> DEFINE T == { k \in Nat : ~ \E f : IsPruning(f, log, keep, k) }
<1>1. SUFFICES ASSUME T # {} PROVE FALSE
  OBVIOUS
<1>2. PICK k \in T : \A i \in T : k <= i
  BY <1>1, LeastNumber
<1>3. k # 0
  <2>1. IsPruning([i \in 0..0 |-> log], log, keep, 0)
    BY DEF IsPruning
  <2> QED BY <2>1
<1>4. PICK f : IsPruning(f, log, keep, k - 1)
  BY <1>2, <1>3
<1> DEFINE g == [i \in 0..k |-> IF i = k THEN f[k - 1] \ Batch(f[k - 1], keep) ELSE f[i]]
<1>5. \A i \in 0..(k - 1) : g[i] = f[i]
  OBVIOUS
<1>6. \A i \in 0..k : g[i] = IF i = 0 THEN log ELSE g[i - 1] \ Batch(g[i - 1], keep)
  <2>1. TAKE i \in 0..k
  <2>2. CASE i = k
    <3>1. g[k - 1] = f[k - 1]
      BY <1>3, <1>5
    <3> QED BY <1>3, <2>2, <3>1
  <2>3. CASE i # k
    <3>1. i \in 0..(k - 1)
      BY <2>3
    <3>2. f[i] = IF i = 0 THEN log ELSE f[i - 1] \ Batch(f[i - 1], keep)
      BY <1>4, <3>1 DEF IsPruning
    <3>3. i # 0 => g[i - 1] = f[i - 1]
      BY <1>5, <3>1
    <3> QED BY <1>5, <3>1, <3>2, <3>3
  <2> QED BY <2>2, <2>3
<1>7. IsPruning(g, log, keep, k)
  BY <1>6 DEF IsPruning
<1> QED BY <1>7

LEMMA PruningKeeps ==
  ASSUME NEW m \in Nat, NEW log, IsLog(log, m), NEW keep \in Nat, NEW n \in Nat,
         NEW f, IsPruning(f, log, keep, n)
  PROVE  Keeps(log, f[n], keep)
<1> DEFINE T == { k \in 0..n : ~Keeps(log, f[k], keep) }
<1>1. SUFFICES ASSUME T # {} PROVE FALSE
  OBVIOUS
<1>a. T \in SUBSET Nat
  OBVIOUS
<1>2. PICK k \in T : \A i \in T : k <= i
  <2> HIDE DEF T
  <2> QED BY <1>1, <1>a, LeastNumber
<1>3. f[k] = IF k = 0 THEN log ELSE f[k - 1] \ Batch(f[k - 1], keep)
  BY DEF IsPruning
<1>4. k # 0
  BY <1>3 DEF Keeps
<1>5. Keeps(log, f[k - 1], keep)
  BY <1>2, <1>4
<1>6. Keeps(log, f[k], keep)
  BY <1>3, <1>4, <1>5, BatchGoesOnKeeping
<1> QED BY <1>6

LEMMA PrunedKeeps ==
  ASSUME NEW m \in Nat, NEW log, IsLog(log, m), NEW keep \in Nat, NEW n \in Nat
  PROVE  Keeps(log, Pruned(log, keep, n), keep)
<1> DEFINE after[i \in 0..n] ==
             IF i = 0 THEN log ELSE after[i - 1] \ Batch(after[i - 1], keep)
<1>1. IsPruning(after, log, keep, n)
  <2>1. after = CHOOSE f : IsPruning(f, log, keep, n)
    BY DEF IsPruning
  <2> QED BY <2>1, PruningIsDefined
<1>2. Pruned(log, keep, n) = after[n]
  BY DEF Pruned
<1> QED BY <1>1, <1>2, PruningKeeps

LEMMA MaintainedKeepsNewest ==
  ASSUME HistoryTypeOK, NEW m \in Nat, NEW log, IsLog(log, m), NEW keep \in Nat,
         EventsMaintained(log, keep)
  PROVE  Keeps(log, events', keep) /\ due' \in Nat
<1> DEFINE left == Pruned(log, keep, 1)
<1>1. Keeps(log, log, keep)
  BY DEF Keeps
<1>2. Keeps(log, left, keep)
  BY PrunedKeeps
<1>3. events' \in {log, left} /\ (due' = due \/ due' = NextRun(Prunable(left, keep) # {}))
  BY DEF EventsMaintained
<1>4. \A b \in BOOLEAN : NextRun(b) \in Nat
  BY HistoryAssumption DEF NextRun, HistoryTypeOK
<1> HIDE DEF left
<1> QED BY <1>1, <1>2, <1>3, <1>4 DEF HistoryTypeOK

HistoryInv == HistoryTypeOK /\ ResultIsNewest /\ IsFiniteSet(events)

LEMMA EventsAreALog ==
  ASSUME HistoryInv
  PROVE  IsLog(events, written) /\ written \in Nat
  BY DEF HistoryInv, HistoryTypeOK, IsLog

LEMMA AddEventStep ==
  ASSUME HistoryInv, NEW x \in Entity, NEW reported \in BOOLEAN,
         AddEvent(x, reported)
  PROVE  HistoryInv' /\ \A e \in events \ events' :
                          Cardinality(Newer(e, events')) >= MinKeep
<1>1. PICK new \in EventRow : new = [id |-> written + 1, entity |-> x, at |-> day]
  <2>1. written + 1 \in Nat /\ day \in Nat
    BY DEF HistoryInv, HistoryTypeOK
  <2>2. [id |-> written + 1, entity |-> x, at |-> day] \in EventRow
    BY <2>1 DEF EventRow
  <2> QED BY <2>2
<1> DEFINE log == events \cup {new}
<1>2. IsLog(log, written + 1) /\ written + 1 \in Nat
  <2>1. IsFiniteSet(log)
    BY FS_AddElement DEF HistoryInv
  <2>2. \A e \in log : e.id \in 1..(written + 1)
    BY <1>1 DEF HistoryInv, HistoryTypeOK
  <2> QED BY <1>1, <2>1, <2>2 DEF IsLog, HistoryInv, HistoryTypeOK
<1>3. EventsMaintained(log, MinKeep)
  BY <1>1 DEF AddEvent
<1> HIDE DEF log
<1>4. Keeps(log, events', MinKeep) /\ due' \in Nat
  BY <1>2, <1>3, MaintainedKeepsNewest, HistoryAssumption DEF HistoryInv
<1>5. IsLog(events', written')
  BY <1>2, <1>4, LogShrinks DEF Keeps, AddEvent
<1>6. /\ result' \in [Entity -> [report : Nat, form : Forms]]
      /\ reports' \in [Entity -> Nat]
      /\ \A y \in Entity : result'[y].report = reports'[y]
  <2>1. CASE ~reported
    <3>1. ResultsMaintained(result) /\ reports' = reports
      BY <2>1 DEF AddEvent, HistoryInv, HistoryTypeOK
    <3> QED BY <3>1, MaintainedKeepsReports DEF HistoryInv, HistoryTypeOK, ResultIsNewest
  <2>2. CASE reported
    <3>1. PICK form \in Forms :
            ResultsMaintained([result EXCEPT ![x] =
                                 [report |-> reports[x] + 1, form |-> form]])
      BY <2>2 DEF AddEvent
    <3>2. reports' = [reports EXCEPT ![x] = reports[x] + 1]
      BY <2>2 DEF AddEvent
    <3> DEFINE res == [result EXCEPT ![x] = [report |-> reports[x] + 1, form |-> form]]
    <3>3. /\ res \in [Entity -> [report : Nat, form : Forms]]
          /\ \A y \in Entity :
               res[y].report = IF y = x THEN reports[x] + 1 ELSE result[y].report
      BY DEF HistoryInv, HistoryTypeOK
    <3>4. /\ result' \in [Entity -> [report : Nat, form : Forms]]
          /\ \A y \in Entity : result'[y].report = res[y].report
      <4> HIDE DEF res
      <4> QED BY <3>1, <3>3, MaintainedKeepsReports DEF res
    <3> QED BY <3>2, <3>3, <3>4 DEF HistoryInv, HistoryTypeOK, ResultIsNewest
  <2> QED BY <2>1, <2>2
<1>7. HistoryInv'
  BY <1>2, <1>4, <1>5, <1>6
     DEF HistoryInv, HistoryTypeOK, ResultIsNewest, AddEvent, IsLog
<1> QED BY <1>4, <1>7 DEF Keeps, log

LEMMA PruneStep ==
  ASSUME HistoryInv, NEW keep \in Nat, keep >= MinKeep, PruneEventHistory(keep)
  PROVE  HistoryInv' /\ \A e \in events \ events' :
                          Cardinality(Newer(e, events')) >= MinKeep
<1> DEFINE left == Pruned(events, keep, MaxBatches)
<1>1. Keeps(events, left, keep)
  BY EventsAreALog, PrunedKeeps, HistoryAssumption
<1>2. events' = left /\ due' = NextRun(Prunable(left, keep) # {})
  BY DEF PruneEventHistory
<1> HIDE DEF left
<1>3. \A b \in BOOLEAN : NextRun(b) \in Nat
  BY HistoryAssumption DEF NextRun, HistoryInv, HistoryTypeOK
<1>4. due' \in Nat
  BY <1>2, <1>3
<1>5. IsLog(events', written)
  BY <1>1, <1>2, EventsAreALog, LogShrinks DEF Keeps
<1>6. HistoryInv'
  BY <1>4, <1>5 DEF HistoryInv, HistoryTypeOK, ResultIsNewest, PruneEventHistory, IsLog
<1>7. \A e \in events \ events' : Cardinality(Newer(e, events')) >= MinKeep
  <2>1. TAKE e \in events \ events'
  <2>2. Cardinality(Newer(e, events')) >= keep
    BY <1>1, <1>2 DEF Keeps
  <2>3. Cardinality(Newer(e, events')) \in Nat
    BY <1>5, NewerIsFinite
  <2> QED BY <2>2, <2>3, HistoryAssumption
<1> QED BY <1>6, <1>7

(* A selection of rows and what is made of it change no report.            *)
LEMMA CompactStep ==
  ASSUME HistoryInv, CompactSelect \/ CompactUpdate \/ NextDay
  PROVE  HistoryInv' /\ events' = events
<1>1. CASE CompactSelect
  <2>1. PICK rows \in SUBSET LargeResults(result) :
          picked' = [x \in Entity |-> IF x \in rows THEN result[x].report ELSE 0]
    BY <1>1 DEF CompactSelect
  <2>2. picked' \in [Entity -> Nat]
    BY <2>1 DEF HistoryInv, HistoryTypeOK
  <2> QED BY <1>1, <2>2 DEF CompactSelect, HistoryInv, HistoryTypeOK, ResultIsNewest
<1>2. CASE CompactUpdate
  <2>1. ASSUME NEW x \in Entity
        PROVE  /\ result'[x] \in [report : Nat, form : Forms]
               /\ result'[x].report = result[x].report
    <3>1. result'[x] = IF picked[x] # 0 /\ SameResult(x)
                       THEN [report |-> picked[x], form |-> "compact"] ELSE result[x]
      BY <1>2 DEF CompactUpdate
    <3>2. SameResult(x) => result[x].report = picked[x]
      BY DEF SameResult
    <3> QED BY <3>1, <3>2 DEF HistoryInv, HistoryTypeOK, Forms
  <2>2. result' \in [Entity -> [report : Nat, form : Forms]]
    BY <1>2, <2>1 DEF CompactUpdate
  <2> QED BY <1>2, <2>1, <2>2
          DEF CompactUpdate, HistoryInv, HistoryTypeOK, ResultIsNewest
<1>3. CASE NextDay
  BY <1>3 DEF NextDay, HistoryInv, HistoryTypeOK, ResultIsNewest
<1> QED BY <1>1, <1>2, <1>3

LEMMA HistoryInit1 == HistoryInit => HistoryInv
  BY FS_EmptySet DEF HistoryInit, HistoryInv, HistoryTypeOK, ResultIsNewest,
     NoResult, Forms

LEMMA HistoryStep ==
  HistoryInv /\ [HistoryNext]_hvars
    => HistoryInv' /\ \A e \in events \ events' :
                        Cardinality(Newer(e, events')) >= MinKeep
<1>1. SUFFICES ASSUME HistoryInv, [HistoryNext]_hvars
               PROVE  HistoryInv' /\ \A e \in events \ events' :
                        Cardinality(Newer(e, events')) >= MinKeep
  OBVIOUS
<1>2. CASE UNCHANGED hvars
  BY <1>1, <1>2 DEF hvars, HistoryInv, HistoryTypeOK, ResultIsNewest
<1>3. CASE HistoryNext
  <2>1. MinKeep \in Nat /\ MinKeep + 1 \in Nat /\ MinKeep + 1 >= MinKeep
    BY HistoryAssumption
  <2> QED BY <1>1, <1>3, <2>1, AddEventStep, PruneStep, CompactStep DEF HistoryNext
<1> QED BY <1>1, <1>2, <1>3

(* What is kept of events and results, whenever they are pruned or compacted. *)
THEOREM HistoryInvariant == HistorySpec => []HistoryInv
<1>1. HistoryInv /\ [HistoryNext]_hvars => HistoryInv'
  BY HistoryStep
<1> QED BY <1>1, HistoryInit1, PTL DEF HistorySpec

(* A compaction that a new report has overtaken leaves the new result.     *)
THEOREM ResultIsNewestAlways == HistorySpec => []ResultIsNewest
<1>1. HistoryInv => ResultIsNewest
  BY DEF HistoryInv
<1> QED BY <1>1, HistoryInvariant, PTL

(* However many events a pruning takes, in however many batches, each of   *)
(* them leaves MinKeep newer events of its entity behind.                  *)
THEOREM NewestEventsKeptAlways == HistorySpec => NewestEventsKept
<1>1. HistoryInv /\ [HistoryNext]_hvars
        => [\A e \in events \ events' :
              Cardinality(Newer(e, events')) >= MinKeep]_hvars
  BY HistoryStep
<1> QED BY <1>1, HistoryInvariant, PTL DEF HistorySpec, NewestEventsKept

-----------------------------------------------------------------------------
(* The files of the storage directory.  A claim is free when a call makes  *)
(* one, a backup when it is written, and what a published copy drops is    *)
(* the file the call recorded.                                             *)

CallOK(c) ==
  /\ stage[c] \in {"idle", "backup", "claim"} => claims[c] = NoFile
  /\ stage[c] \in {"idle", "backup"} => backups[c] = NoFile
  /\ stage[c] \in {"link", "verify", "settle"} => claims[c] \in {NoFile, seen[c]}

LocalInv == LocalTypeOK /\ \A c \in Caller : CallOK(c)

LEMMA CallersAreFiles == Caller \subseteq File /\ Saved \subseteq File /\ NoFile \notin File
  BY LocalAssumption DEF File

LEMMA LocalInit1 == LocalInit => LocalInv
  BY LocalAssumption
     DEF LocalInit, LocalInv, LocalTypeOK, CallOK, File, Stages, Halted

(* A step of one call: the others are where they were.                     *)
CallStep(c) ==
  \/ NoteOriginal(c) \/ BackUp(c) \/ ClaimTarget(c) \/ CheckClaim(c)
  \/ RestoreClaim(c) \/ LinkCopy(c) \/ LinkRefused(c) \/ CopyFails(c)
  \/ VerifyLink(c) \/ RecheckOwn(c) \/ UnlinkOwn(c) \/ AfterUnlink(c)
  \/ DropClaim(c) \/ StartParent(c) \/ ReuseTarget(c)
  \/ VerifyContent(c) \/ CallerDies(c)

LEMMA OthersRest ==
  ASSUME LocalInv, NEW c \in Caller, CallStep(c)
  PROVE  /\ \A d \in Caller \ {c} :
              /\ stage'[d] = stage[d] /\ claims'[d] = claims[d]
              /\ backups'[d] = backups[d] /\ seen'[d] = seen[d]
         /\ kind' = kind /\ unsaved' = unsaved
  BY DEF CallStep, LocalInv, LocalTypeOK, Step, NoteOriginal, BackUp, ClaimTarget,
     CheckClaim, RestoreClaim, LinkCopy, LinkRefused, CopyFails, VerifyLink,
     RecheckOwn, UnlinkOwn, AfterUnlink, DropClaim, StartParent, ReuseTarget,
     VerifyContent, CallerDies

LEMMA CallKeepsTypes ==
  ASSUME LocalInv, NEW c \in Caller, CallStep(c)
  PROVE  LocalTypeOK'
<1>1. /\ target' \in File \cup {NoFile}
      /\ claims' \in [Caller -> File \cup {NoFile}]
      /\ backups' \in [Caller -> File \cup {NoFile}]
      /\ seen' \in [Caller -> File \cup {NoFile}]
  BY CallersAreFiles
     DEF CallStep, LocalInv, LocalTypeOK, Step, NoteOriginal, BackUp, ClaimTarget,
     CheckClaim, RestoreClaim, LinkCopy, LinkRefused, CopyFails, VerifyLink,
     RecheckOwn, UnlinkOwn, AfterUnlink, DropClaim, StartParent, ReuseTarget,
     VerifyContent, CallerDies
<1>2. stage' \in [Caller -> Stages]
  BY DEF CallStep, LocalInv, LocalTypeOK, Step, NoteOriginal, BackUp, ClaimTarget,
     CheckClaim, RestoreClaim, LinkCopy, LinkRefused, CopyFails, VerifyLink,
     RecheckOwn, UnlinkOwn, AfterUnlink, DropClaim, StartParent, ReuseTarget,
     VerifyContent, CallerDies, Stages, Halted
<1>3. kind' = kind /\ unsaved' = unsaved /\ deaths' \in 0..MaxDeaths
  BY LocalAssumption
     DEF CallStep, LocalInv, LocalTypeOK, NoteOriginal, BackUp, ClaimTarget,
     CheckClaim, RestoreClaim, LinkCopy, LinkRefused, CopyFails, VerifyLink,
     RecheckOwn, UnlinkOwn, AfterUnlink, DropClaim, StartParent, ReuseTarget,
     VerifyContent, CallerDies
<1> QED BY <1>1, <1>2, <1>3 DEF LocalInv, LocalTypeOK

LEMMA CallKeepsItsState ==
  ASSUME LocalInv, NEW c \in Caller, CallStep(c)
  PROVE  CallOK(c)'
  BY DEF CallStep, LocalInv, LocalTypeOK, CallOK, Step, NoteOriginal, BackUp,
     ClaimTarget, CheckClaim, CaughtRight, RestoreClaim, LinkCopy, LinkRefused,
     CopyFails, VerifyLink, RecheckOwn, UnlinkOwn, AfterUnlink, DropClaim,
     StartParent, ReuseTarget, VerifyContent, CallerDies, Halted

LEMMA LocalStep == LocalInv /\ [LocalNext]_lvars => LocalInv'
<1>1. SUFFICES ASSUME LocalInv, [LocalNext]_lvars PROVE LocalInv'
  OBVIOUS
<1>2. CASE UNCHANGED lvars
  BY <1>1, <1>2 DEF lvars, LocalInv, LocalTypeOK, CallOK
<1>3. ASSUME NEW f \in Saved, ForeignSave(f) PROVE LocalInv'
  BY <1>1, <1>3, CallersAreFiles DEF ForeignSave, LocalInv, LocalTypeOK, CallOK
<1>4. ASSUME NEW c \in Caller, CallStep(c) PROVE LocalInv'
  <2>1. \A d \in Caller \ {c} : CallOK(d)'
    BY <1>1, <1>4, OthersRest DEF LocalInv, CallOK
  <2> QED BY <1>1, <1>4, <2>1, CallKeepsTypes, CallKeepsItsState DEF LocalInv
<1> QED BY <1>1, <1>2, <1>3, <1>4 DEF LocalNext, CallStep

(* Where a file of the path can go.                                        *)
LEMMA FileGoesOn ==
  ASSUME LocalInv, NEW c \in Caller, CallStep(c), NEW f \in File, OnDisk(f),
         stage[c] # "unlinking", ~(stage[c] = "settle" /\ seen[c] = f)
  PROVE  OnDisk(f)'
<1>1. f # NoFile
  BY CallersAreFiles
<1>2. ASSUME NEW d \in Caller, claims[d] = f \/ backups[d] = f,
             d # c \/ UNCHANGED <<claims, backups>>
      PROVE  OnDisk(f)'
  BY <1>2, OthersRest DEF OnDisk
<1>3. ASSUME claims[c] = f \/ backups[c] = f, ~UNCHANGED <<claims, backups>>
      PROVE  OnDisk(f)'
  <2>1. CASE BackUp(c)
    BY <1>1, <1>3, <2>1 DEF BackUp, Step, LocalInv, LocalTypeOK, CallOK, OnDisk
  <2>2. CASE ClaimTarget(c)
    BY <1>1, <1>3, <2>2 DEF ClaimTarget, Step, LocalInv, LocalTypeOK, CallOK, OnDisk
  <2>3. CASE RestoreClaim(c)
    BY <1>1, <1>3, <2>3 DEF RestoreClaim, Step, LocalInv, LocalTypeOK, CallOK, OnDisk
  <2>4. CASE DropClaim(c)
    BY <1>1, <1>3, <2>4 DEF DropClaim, Step, LocalInv, LocalTypeOK, CallOK, OnDisk
  <2> QED BY <1>3, <2>1, <2>2, <2>3, <2>4
          DEF CallStep, NoteOriginal, CheckClaim, LinkCopy, LinkRefused, CopyFails,
              VerifyLink, RecheckOwn, UnlinkOwn, AfterUnlink, StartParent,
              ReuseTarget, VerifyContent, CallerDies
<1>4. ASSUME target = f PROVE OnDisk(f)'
  <2>1. CASE UNCHANGED target
    BY <1>4, <2>1 DEF OnDisk
  <2>2. CASE ClaimTarget(c)
    BY <1>1, <1>4, <2>2 DEF ClaimTarget, LocalInv, LocalTypeOK, OnDisk
  <2>3. CASE RestoreClaim(c) \/ LinkCopy(c)
    BY <1>1, <1>4, <2>3 DEF RestoreClaim, LinkCopy, OnDisk
  <2>4. ~UnlinkOwn(c)
    BY DEF UnlinkOwn, Step
  <2> QED BY <2>1, <2>2, <2>3, <2>4
          DEF CallStep, NoteOriginal, BackUp, CheckClaim, LinkRefused, CopyFails,
              VerifyLink, RecheckOwn, AfterUnlink, DropClaim, StartParent,
              ReuseTarget, VerifyContent, CallerDies
<1> QED BY <1>2, <1>3, <1>4 DEF OnDisk

(* Every caller on a local file is where it may be with the files it holds.  *)
THEOREM LocalInvariant == LocalSpec => []LocalInv
  BY LocalInit1, LocalStep, PTL DEF LocalSpec

(* Types of the state of the three operations, in every behaviour.         *)
THEOREM LocalTypeCorrect == LocalSpec => []LocalTypeOK
<1>1. LocalInv => LocalTypeOK
  BY DEF LocalInv
<1> QED BY <1>1, LocalInvariant, PTL

(* However the calls, their deaths and the saves of another program        *)
(* interleave, a file that was at the path disappears only when another    *)
(* program saves over it, when a call that recorded that very file finds   *)
(* its own copy published, or when a call unlinks the path right after it  *)
(* saw its own failed copy there.                                          *)
THEOREM FileKeptAlways == LocalSpec => FileKept
<1>1. LocalInv /\ [LocalNext]_lvars
        => [\A f \in File : OnDisk(f) /\ ~OnDisk(f)' =>
              \/ unsaved' # unsaved
              \/ \E c \in Caller : stage[c] = "unlinking"
              \/ \E c \in Caller : stage[c] = "settle" /\ seen[c] = f]_lvars
  <2>1. SUFFICES ASSUME LocalInv, LocalNext, NEW f \in File, OnDisk(f), ~OnDisk(f)'
                 PROVE  \/ unsaved' # unsaved
                        \/ \E c \in Caller : stage[c] = "unlinking"
                        \/ \E c \in Caller : stage[c] = "settle" /\ seen[c] = f
    OBVIOUS
  <2>2. ASSUME NEW g \in Saved, ForeignSave(g) PROVE unsaved' # unsaved
    BY <2>2 DEF ForeignSave
  <2>3. ASSUME NEW c \in Caller, CallStep(c)
        PROVE  stage[c] = "unlinking" \/ (stage[c] = "settle" /\ seen[c] = f)
    BY <2>1, <2>3, FileGoesOn
  <2> QED BY <2>1, <2>2, <2>3 DEF LocalNext, CallStep
<1> QED BY <1>1, LocalInvariant, PTL DEF LocalSpec, FileKept

-----------------------------------------------------------------------------
(* Documents that are sent with their parts embedded.                      *)

Numbered(p) ==
  \A i \in 1..Len(p), f \in Part : p[i][f] # Absent => p[i][f].write <= i

NeverBack(p) ==
  \A i, j, k \in 1..Len(p), f \in Part :
    /\ i <= k /\ k <= j
    /\ p[i][f] = p[j][f] /\ p[i][f] # Absent
    => p[k][f] = p[i][f]

(* The stages of a call that embeds, from the comparisons on.              *)
Whole(w) == \/ w.phase \in {"publishing", "verifying", "comparing_again"}
            \/ w.phase \in {"sending", "copying"} /\ w.got # {}

SeenBy(p, w, last) ==
  \A f \in DOMAIN w.taken : \E i \in w.since..last : p[i][f] = w.taken[f]
ThereAtCut(p, w, shown) == \A f \in shown : p[w.cut][f] = w.taken[f]
CutInCall(p, w) == w.cut \in w.since..Len(p)

(* What one call relies on, at each of its stages.                         *)
CallBegun(p, w) ==
  w.phase \notin {"idle", "ended"} =>
    /\ w.since \in 1..Len(p)
    /\ Doc \in DOMAIN w.taken /\ w.checked \subseteq DOMAIN w.taken
CallReading(p, w) ==
  w.phase \in {"listing", "reading"} =>
    /\ SeenBy(p, w, Len(p))
    /\ w.checked = {} /\ (w.phase = "listing" => w.got = {})
    /\ \A r \in w.got : r[2] \in DOMAIN w.taken
CallComparing(p, w) ==
  w.phase = "comparing" =>
    CutInCall(p, w) /\ SeenBy(p, w, w.cut) /\ ThereAtCut(p, w, w.checked)
CallWhole(p, w) ==
  Whole(w) => CutInCall(p, w) /\ ThereAtCut(p, w, DOMAIN w.taken)
StandsAlone(reading) ==
  \A f \in {Doc} \cup (DOMAIN reading \cap Sheet) :
    f = Doc \/ f \in reading[Doc].refs => reading[f].refs \subseteq DOMAIN reading
CallRewritten(w) == Whole(w) \/ w.phase = "comparing" => StandsAlone(w.taken)

FileSource == [kind : {"file"}, version : Version]
SnapshotSource == [kind : {"snapshot"}, made : Reading, by : Embedder]
CallCopying(w) ==
  w.phase = "copying" =>
    \/ w.got # {} /\ w.expected \in SnapshotSource /\ w.expected.made = w.taken
    \/ w.got = {} /\ w.expected \in FileSource

CallInv(p, w) ==
  /\ CallBegun(p, w) /\ CallReading(p, w) /\ CallComparing(p, w)
  /\ CallWhole(p, w) /\ CallRewritten(w) /\ CallCopying(w)

SentInv(p, sends) ==
  \A s \in sends :
    /\ s.since \in 1..Len(p)
    /\ \E i \in s.since..Len(p) : \A f \in DOMAIN s.made : p[i][f] = s.made[f]
    /\ s.embedded => StandsAlone(s.made)

PastInv(p) == p \in Seq(Disk) /\ p # <<>> /\ Numbered(p) /\ NeverBack(p)

EmbedInv ==
  /\ EmbedTypeOK /\ PastInv(past)
  /\ \A e \in Embedder : CallInv(past, work[e])
  /\ SentInv(past, sent)

-----------------------------------------------------------------------------
(* The files: a step of another writer makes the past longer by one state, *)
(* in which every file is as before, is gone, or is a new version.         *)

LEMMA PresentFiles ==
  ASSUME PastInv(past)
  PROVE  /\ Len(past) \in Nat \ {0}
         /\ disk \in Disk
         /\ \A f \in Part : disk[f] # Absent => disk[f] \in Version
<1>1. Len(past) \in Nat \ {0}
  BY DEF PastInv
<1>2. disk \in Disk
  BY <1>1 DEF disk, PastInv
<1> QED BY <1>1, <1>2 DEF Disk

LEMMA PastGrows ==
  ASSUME NEW p, PastInv(p), NEW shown \in Disk,
         \A f \in Part : \/ shown[f] = p[Len(p)][f]
                         \/ shown[f] = Absent
                         \/ shown[f].write = Len(p) + 1
  PROVE  /\ PastInv(Append(p, shown))
         /\ Len(Append(p, shown)) = Len(p) + 1
         /\ \A i \in 1..Len(p) : Append(p, shown)[i] = p[i]
<1> DEFINE q == Append(p, shown)
<1>1. /\ q \in Seq(Disk) /\ q # <<>> /\ Len(p) \in Nat /\ Len(p) # 0
      /\ Len(q) = Len(p) + 1
      /\ \A i \in 1..Len(p) : q[i] = p[i]
      /\ q[Len(p) + 1] = shown
  BY DEF PastInv
<1>2. Numbered(q)
  <2> SUFFICES ASSUME NEW i \in 1..Len(q), NEW f \in Part, q[i][f] # Absent
               PROVE  q[i][f].write <= i
    BY DEF Numbered
  <2>1. CASE i \in 1..Len(p)
    BY <1>1, <2>1 DEF PastInv, Numbered
  <2>2. CASE i = Len(p) + 1
    <3>1. CASE shown[f] = p[Len(p)][f]
      <4>1. p[Len(p)][f].write <= Len(p)
        BY <1>1, <2>2, <3>1 DEF PastInv, Numbered
      <4>2. shown[f] \in Version
        BY <1>1, <2>2 DEF Disk
      <4>3. shown[f].write \in Int
        BY <4>2, EmbedAssumption DEF Version
      <4> QED BY <1>1, <2>2, <3>1, <4>1, <4>3
    <3>2. CASE shown[f].write = Len(p) + 1
      BY <1>1, <2>2, <3>2
    <3> QED BY <1>1, <2>2, <3>1, <3>2
  <2> QED BY <1>1, <2>1, <2>2
<1>3. NeverBack(q)
  <2> SUFFICES ASSUME NEW i \in 1..Len(q), NEW j \in 1..Len(q), NEW k \in 1..Len(q),
                      NEW f \in Part, i <= k, k <= j,
                      q[i][f] = q[j][f], q[i][f] # Absent
               PROVE  q[k][f] = q[i][f]
    BY DEF NeverBack
  <2>1. CASE j \in 1..Len(p)
    BY <1>1, <2>1 DEF PastInv, NeverBack
  <2>2. CASE j = Len(p) + 1 /\ i # j /\ k # j
    <3>1. i \in 1..Len(p) /\ k \in 1..Len(p)
      BY <1>1, <2>2
    <3>2. p[i][f].write <= i /\ p[i][f] = shown[f] /\ shown[f] # Absent
      BY <1>1, <2>2, <3>1 DEF PastInv, Numbered
    <3>3. shown[f].write # Len(p) + 1
      BY <1>1, <3>1, <3>2
    <3>4. p[i][f] = p[Len(p)][f]
      BY <3>2, <3>3
    <3>5. p[k][f] = p[i][f]
      BY <1>1, <3>1, <3>2, <3>4 DEF PastInv, NeverBack
    <3> QED BY <1>1, <3>1, <3>5
  <2>3. CASE i = j \/ k = j
    BY <1>1, <2>3
  <2> QED BY <1>1, <2>1, <2>2, <2>3
<1> QED BY <1>1, <1>2, <1>3 DEF PastInv

LEMMA CallOutlives ==
  ASSUME NEW p, PastInv(p), NEW q, NEW w \in Work, CallInv(p, w),
         Len(q) = Len(p) + 1, \A i \in 1..Len(p) : q[i] = p[i]
  PROVE  CallInv(q, w)
<1>1. Len(p) \in Nat /\ w.since \in Nat /\ w.cut \in Nat
  BY DEF PastInv, Work
<1>2. CallBegun(q, w)
  BY <1>1 DEF CallInv, CallBegun
<1>3. CallReading(q, w)
  <2> SUFFICES ASSUME w.phase \in {"listing", "reading"}, NEW f \in DOMAIN w.taken
               PROVE  \E i \in w.since..Len(q) : q[i][f] = w.taken[f]
    BY DEF CallInv, CallReading, SeenBy
  <2>1. PICK i \in w.since..Len(p) : p[i][f] = w.taken[f]
    BY DEF CallInv, CallReading, SeenBy
  <2>2. w.since \in 1..Len(p)
    BY DEF CallInv, CallBegun
  <2> QED BY <1>1, <2>1, <2>2
<1>4. CallComparing(q, w)
  <2> SUFFICES ASSUME w.phase = "comparing"
               PROVE  /\ CutInCall(q, w) /\ SeenBy(q, w, w.cut)
                      /\ ThereAtCut(q, w, w.checked)
    BY DEF CallComparing
  <2>1. /\ CutInCall(p, w) /\ SeenBy(p, w, w.cut)
        /\ ThereAtCut(p, w, w.checked) /\ w.since \in 1..Len(p)
    BY DEF CallInv, CallComparing, CallBegun
  <2>2. CutInCall(q, w) /\ w.cut \in 1..Len(p)
    BY <1>1, <2>1 DEF CutInCall
  <2>3. ThereAtCut(q, w, w.checked)
    BY <2>1, <2>2 DEF ThereAtCut
  <2>4. SeenBy(q, w, w.cut)
    BY <1>1, <2>1, <2>2 DEF SeenBy
  <2> QED BY <2>1, <2>2, <2>3, <2>4
<1>5. CallWhole(q, w)
  <2> SUFFICES ASSUME Whole(w)
               PROVE  CutInCall(q, w) /\ ThereAtCut(q, w, DOMAIN w.taken)
    BY DEF CallWhole
  <2>1. CutInCall(p, w) /\ ThereAtCut(p, w, DOMAIN w.taken) /\ w.since \in 1..Len(p)
    BY DEF CallInv, CallWhole, CallBegun, Whole
  <2>2. CutInCall(q, w) /\ w.cut \in 1..Len(p)
    BY <1>1, <2>1 DEF CutInCall
  <2> QED BY <2>1, <2>2 DEF ThereAtCut
<1> QED BY <1>2, <1>3, <1>4, <1>5 DEF CallInv

LEMMA SentOutlives ==
  ASSUME NEW p, PastInv(p), NEW q, NEW sends, SentInv(p, sends),
         Len(q) = Len(p) + 1, \A i \in 1..Len(p) : q[i] = p[i]
  PROVE  SentInv(q, sends)
<1> SUFFICES ASSUME NEW s \in sends
             PROVE  /\ s.since \in 1..Len(q)
                    /\ \E i \in s.since..Len(q) :
                         \A f \in DOMAIN s.made : q[i][f] = s.made[f]
                    /\ s.embedded => StandsAlone(s.made)
  BY DEF SentInv
<1>1. Len(p) \in Nat /\ s.since \in 1..Len(p)
  BY DEF PastInv, SentInv
<1>2. PICK i \in s.since..Len(p) : \A f \in DOMAIN s.made : p[i][f] = s.made[f]
  BY DEF SentInv
<1>3. s.embedded => StandsAlone(s.made)
  BY DEF SentInv
<1> QED BY <1>1, <1>2, <1>3

-----------------------------------------------------------------------------
(* What an embedder holds.                                                 *)

LEMMA Readings ==
  /\ \A r \in Reading : DOMAIN r \subseteq Part /\ \A f \in DOMAIN r : r[f] \in Version
  /\ \A S \in SUBSET Part : \A r \in [S -> Version] : r \in Reading
  /\ Nothing \in Reading
  /\ Absent \notin Version
<1>1. \A r \in Reading : DOMAIN r \subseteq Part /\ \A f \in DOMAIN r : r[f] \in Version
  BY DEF Reading
<1>2. \A S \in SUBSET Part : \A r \in [S -> Version] : r \in Reading
  BY DEF Reading
<1>3. Nothing \in [{} -> Version]
  BY DEF Nothing
<1> QED BY <1>1, <1>2, <1>3, EmbedAssumption DEF Version

LEMMA RestingCalls ==
  ASSUME NEW phase \in {"idle", "ended"}, NEW p
  PROVE  Resting(phase) \in Work /\ CallInv(p, Resting(phase))
<1>1. Resting(phase) \in Work
  BY Readings DEF Resting, Work, Source
<1> QED
  BY <1>1 DEF Resting, CallInv, CallBegun, CallReading, CallComparing, CallWhole,
              CallRewritten, CallCopying, Whole

(* One embedder moves; the files stay.                                     *)
LEMMA OneCallMoves ==
  ASSUME EmbedInv, NEW e \in Embedder, NEW w \in Work, CallInv(past, w),
         work' = [work EXCEPT ![e] = w], past' = past, spoils' = spoils,
         snapshots' \in SUBSET Snapshot, sent' \in SUBSET Sent,
         SentInv(past, sent')
  PROVE  EmbedInv'
<1>1. work' \in [Embedder -> Work]
  BY DEF EmbedInv, EmbedTypeOK
<1>2. \A d \in Embedder : CallInv(past, work'[d])
  BY DEF EmbedInv, EmbedTypeOK
<1>3. EmbedTypeOK'
  BY <1>1 DEF EmbedInv, EmbedTypeOK
<1> QED BY <1>2, <1>3 DEF EmbedInv

LEMMA CallEnds ==
  ASSUME EmbedInv, NEW e \in Embedder, Ends(e), past' = past, spoils' = spoils,
         snapshots' \in SUBSET Snapshot, sent' \in SUBSET Sent,
         SentInv(past, sent')
  PROVE  EmbedInv'
BY OneCallMoves, RestingCalls DEF Ends

(* A call that only moves on: the files, the snapshots and what was sent   *)
(* stay.                                                                   *)
LEMMA CallMovesOn ==
  ASSUME EmbedInv, NEW e \in Embedder, NEW w \in Work, CallInv(past, w),
         work' = [work EXCEPT ![e] = w],
         UNCHANGED <<past, snapshots, spoils, sent>>
  PROVE  EmbedInv'
BY OneCallMoves DEF EmbedInv, EmbedTypeOK

LEMMA CallEndsQuietly ==
  ASSUME EmbedInv, NEW e \in Embedder, Ends(e),
         UNCHANGED <<past, snapshots, spoils, sent>>
  PROVE  EmbedInv'
BY CallEnds DEF EmbedInv, EmbedTypeOK

LEMMA CallFields ==
  ASSUME EmbedInv, NEW e \in Embedder
  PROVE  /\ work[e] \in Work /\ CallInv(past, work[e]) /\ work \in [Embedder -> Work]
         /\ PastInv(past)
         /\ work[e].taken \in Reading
         /\ DOMAIN work[e].taken \subseteq Part
         /\ \A f \in DOMAIN work[e].taken : work[e].taken[f] \in Version
<1>1. work[e] \in Work
  BY DEF EmbedInv, EmbedTypeOK
<1>2. work[e].taken \in Reading
  BY <1>1 DEF Work
<1> QED BY <1>1, <1>2, Readings DEF EmbedInv, EmbedTypeOK

-----------------------------------------------------------------------------
(* One lemma for each step of an embedder.                                 *)

LEMMA ReadDocKeeps ==
  ASSUME EmbedInv, NEW e \in Embedder, ReadDoc(e)  PROVE  EmbedInv'
<1> USE CallFields
<1> DEFINE w == [Resting("listing") EXCEPT !.since = Len(past),
                                           !.taken = [f \in {Doc} |-> disk[Doc]]]
<1>1. CASE disk[Doc] # Absent /\ work' = [work EXCEPT ![e] = w]
  <2>1. /\ Len(past) \in Nat \ {0} /\ disk[Doc] \in Version
    BY <1>1, PresentFiles DEF Part
  <2>2. [f \in {Doc} |-> disk[Doc]] \in Reading
    BY <2>1, Readings DEF Part
  <2>3. w \in Work
    BY <2>1, <2>2 DEF Work, Resting, Source
  <2>4. /\ w.phase = "listing" /\ w.since = Len(past) /\ w.got = {} /\ w.checked = {}
        /\ w.taken = [f \in {Doc} |-> disk[Doc]]
    BY DEF Resting
  <2>5. SeenBy(past, w, Len(past))
    BY <2>1, <2>4 DEF SeenBy, disk
  <2>6. CallInv(past, w)
    BY <2>1, <2>4, <2>5 DEF CallInv, CallBegun, CallReading, CallComparing, CallWhole,
                            CallRewritten, CallCopying, Whole
  <2> HIDE DEF w
  <2> QED BY <1>1, <2>3, <2>6, CallMovesOn DEF ReadDoc
<1>2. CASE Ends(e)
  BY <1>2, CallEndsQuietly DEF ReadDoc
<1> QED BY <1>1, <1>2 DEF ReadDoc

LEMMA PassedOnKeeps ==
  ASSUME EmbedInv, NEW e \in Embedder, PassedOn(e), work[e].got = {},
         work[e].phase \in {"listing", "reading"},
         UNCHANGED <<past, snapshots, spoils, sent>>
  PROVE  EmbedInv'
<1> USE CallFields
<1> DEFINE w == [work[e] EXCEPT !.phase = "sending"]
<1>1. CASE Goes(e, "sending")
  <2>1. w \in Work
    BY DEF Work
  <2>2. work' = [work EXCEPT ![e] = w]
    BY <1>1 DEF Goes
  <2>3. CallInv(past, w)
    BY DEF CallInv, CallBegun, CallReading, CallComparing, CallWhole,
           CallRewritten, CallCopying, Whole, Work
  <2> HIDE DEF w
  <2> QED BY <2>1, <2>2, <2>3, CallMovesOn
<1>2. CASE Ends(e)
  BY <1>2, CallEndsQuietly
<1> QED BY <1>1, <1>2 DEF PassedOn

LEMMA ListAssetsKeeps ==
  ASSUME EmbedInv, NEW e \in Embedder, ListAssets(e)  PROVE  EmbedInv'
<1> USE CallFields
<1> DEFINE found == {a \in Asset : disk[a] # Absent}
           w == [work[e] EXCEPT !.listed = found, !.phase = "reading"]
<1>1. work[e].phase = "listing" /\ work[e].got = {}
  BY DEF ListAssets, CallInv, CallReading
<1>2. CASE found = {}
  BY <1>1, <1>2, PassedOnKeeps DEF ListAssets
<1>3. CASE found # {}
  <2>1. w \in Work
    BY ZenonT(30) DEF Work
  <2>2. work' = [work EXCEPT ![e] = w]
    BY <1>3 DEF ListAssets
  <2>3. /\ w.phase = "reading" /\ w.since = work[e].since /\ w.taken = work[e].taken
        /\ w.got = {} /\ w.checked = work[e].checked
    BY <1>1 DEF Work
  <2>4. CallInv(past, w)
    BY <1>1, <2>3 DEF CallInv, CallBegun, CallReading, CallComparing, CallWhole,
                      CallRewritten, CallCopying, Whole, SeenBy
  <2> HIDE DEF w
  <2> QED BY <2>1, <2>2, <2>4, CallMovesOn DEF ListAssets
<1> QED BY <1>2, <1>3

(* What an embedder may follow is a reference in a file it has read.       *)
LEMMA DueReferences ==
  ASSUME EmbedInv, NEW e \in Embedder, work[e].phase = "reading"
  PROVE  Due(e) \subseteq Part \X Asset
<1> USE CallFields
<1>1. Doc \in DOMAIN work[e].taken
  BY DEF CallInv, CallBegun
<1>2. NamedInHtml(e) \subseteq Part \X Asset
  BY <1>1 DEF NamedInHtml, Version, Part
<1>3. Nested(e) \subseteq Part \X Asset
  <2> SUFFICES ASSUME NEW s \in Sheet, <<Doc, s>> \in work[e].got
               PROVE  {s} \X work[e].taken[s].refs \subseteq Part \X Asset
    BY DEF Nested
  <2>1. s \in DOMAIN work[e].taken
    BY DEF CallInv, CallReading
  <2> QED BY <2>1, EmbedAssumption DEF Version, Part
<1> QED BY <1>2, <1>3 DEF Due, Direct

LEMMA FollowReferenceKeeps ==
  ASSUME EmbedInv, NEW e \in Embedder, FollowReference(e)  PROVE  EmbedInv'
<1> USE CallFields
<1> DEFINE r == First(Due(e))
           read == WithPart(work[e].taken, r[2])
           w == [work[e] EXCEPT !.tried = work[e].tried \cup {r},
                                !.got = work[e].got \cup {r}, !.taken = read]
           v == [work[e] EXCEPT !.tried = work[e].tried \cup {r}]
<1>1. work[e].phase = "reading" /\ r \in Due(e)
  BY DEF FollowReference, First
<1>2. r \in Part \X Asset /\ r[2] \in Part
  BY <1>1, DueReferences DEF Part
<1> HIDE DEF r
<1>3. CASE /\ disk[r[2]] # Absent
           /\ work' = [work EXCEPT ![e] = w]
  <2>1. /\ Len(past) \in Nat \ {0} /\ disk[r[2]] \in Version
    BY <1>2, <1>3, PresentFiles
  <2>2. /\ DOMAIN read = DOMAIN work[e].taken \cup {r[2]}
        /\ \A f \in DOMAIN work[e].taken : read[f] = work[e].taken[f]
        /\ r[2] \in DOMAIN work[e].taken \/ read[r[2]] = disk[r[2]]
    BY DEF WithPart
  <2>3. read \in [DOMAIN read -> Version]
    BY <2>1, <2>2 DEF WithPart
  <2>4. read \in Reading
    BY <1>2, <2>2, <2>3, Readings
  <2>5. w \in Work
    <3>1. /\ work[e].tried \cup {r} \in SUBSET (Part \X Asset)
          /\ work[e].got \cup {r} \in SUBSET (Part \X Asset)
      BY <1>2 DEF Work
    <3>2. /\ \A v1 \in Work, x \in SUBSET (Part \X Asset) : [v1 EXCEPT !.tried = x] \in Work
          /\ \A v1 \in Work, x \in SUBSET (Part \X Asset) : [v1 EXCEPT !.got = x] \in Work
          /\ \A v1 \in Work, x \in Reading : [v1 EXCEPT !.taken = x] \in Work
      BY DEF Work
    <3>3. w = [[[work[e] EXCEPT !.tried = work[e].tried \cup {r}]
                         EXCEPT !.got = work[e].got \cup {r}] EXCEPT !.taken = read]
      BY DEF Work
    <3> HIDE DEF read, w
    <3> QED BY <2>4, <3>1, <3>2, <3>3
  <2>6. /\ w.phase = "reading" /\ w.since = work[e].since /\ w.taken = read
        /\ w.got = work[e].got \cup {r} /\ w.checked = work[e].checked
    BY <1>1 DEF Work
  <2>7. SeenBy(past, w, Len(past))
    <3> SUFFICES ASSUME NEW f \in DOMAIN read
                 PROVE  \E i \in work[e].since..Len(past) : past[i][f] = read[f]
      BY <2>6 DEF SeenBy
    <3>1. CASE f \in DOMAIN work[e].taken
      BY <1>1, <2>2, <3>1 DEF CallInv, CallReading, SeenBy
    <3>2. CASE f \notin DOMAIN work[e].taken
      <4>1. work[e].since \in 1..Len(past) /\ read[f] = past[Len(past)][f]
        BY <1>1, <2>2, <3>2 DEF CallInv, CallBegun, disk
      <4> QED BY <2>1, <4>1
    <3> QED BY <3>1, <3>2
  <2>8. CallBegun(past, w) /\ CallReading(past, w)
    BY <1>1, <2>2, <2>6, <2>7 DEF CallInv, CallBegun, CallReading
  <2>9. CallInv(past, w)
    BY <2>6, <2>8 DEF CallInv, CallComparing, CallWhole, CallRewritten, CallCopying, Whole
  <2> HIDE DEF w
  <2> QED BY <1>3, <2>5, <2>9, CallMovesOn DEF FollowReference
<1>4. CASE work' = [work EXCEPT ![e] = v]
  <2>1. v \in Work
    BY <1>2 DEF Work
  <2>2. CallInv(past, v)
    BY <1>1 DEF CallInv, CallBegun, CallReading, CallComparing, CallWhole,
                CallRewritten, CallCopying, Whole, Work, SeenBy
  <2> HIDE DEF v
  <2> QED BY <1>4, <2>1, <2>2, CallMovesOn DEF FollowReference
<1>5. \/ /\ disk[r[2]] # Absent
         /\ work' = [work EXCEPT ![e] = w]
      \/ work' = [work EXCEPT ![e] = v]
  BY DEF FollowReference, r
<1> QED BY <1>3, <1>4, <1>5

LEMMA RewriteKeeps ==
  ASSUME EmbedInv, NEW e \in Embedder, Rewrite(e)  PROVE  EmbedInv'
<1> USE CallFields
<1> DEFINE w == [work[e] EXCEPT !.phase = "comparing", !.cut = Len(past),
                                !.tried = {}, !.listed = {}]
<1>1. work[e].phase = "reading"
  BY DEF Rewrite
<1>2. CASE work[e].got = {}
  BY <1>1, <1>2, PassedOnKeeps DEF Rewrite
<1>3. CASE work[e].got # {} /\ Remaining(e) # {}
  BY <1>3, CallEndsQuietly DEF Rewrite
<1>4. CASE work[e].got # {} /\ Remaining(e) = {}
  <2> DEFINE taken == work[e].taken
  <2>1. /\ Len(past) \in Nat \ {0} /\ work[e].since \in 1..Len(past)
        /\ Doc \in DOMAIN taken /\ \A r \in work[e].got : r[2] \in DOMAIN taken
        /\ SeenBy(past, work[e], Len(past))
    BY <1>1, PresentFiles DEF CallInv, CallBegun, CallReading
  <2>2. w \in Work
    <3>1. {} \in SUBSET (Part \X Asset) /\ {} \in SUBSET Asset /\ Len(past) \in Nat
      BY <2>1
    <3> QED BY ZenonT(30), <3>1 DEF Work
  <2>3. work' = [work EXCEPT ![e] = w]
    BY <1>4 DEF Rewrite
  <2>4. /\ w.phase = "comparing" /\ w.since = work[e].since /\ w.cut = Len(past)
        /\ w.taken = taken /\ w.checked = work[e].checked /\ w.got = work[e].got
    BY DEF Work
  <2>5. StandsAlone(taken)
    <3> SUFFICES ASSUME NEW f \in {Doc} \cup (DOMAIN taken \cap Sheet),
                        f = Doc \/ f \in taken[Doc].refs, NEW a \in taken[f].refs
                 PROVE  a \in DOMAIN taken
      BY DEF StandsAlone
    <3>1. \A b \in taken[Doc].refs : <<Doc, b>> \in work[e].got
      BY <1>4 DEF Remaining, NamedInHtml, ReplacedInHtml
    <3>2. CASE f = Doc
      BY <2>1, <3>1, <3>2
    <3>3. CASE f # Doc
      <4>1. <<f, a>> \in Nested(e)
        BY <3>1, <3>3 DEF Nested
      <4> QED BY <1>4, <2>1, <4>1 DEF Remaining, ReplacedInSheets
    <3> QED BY <3>2, <3>3
  <2>6. work[e].checked = {}
    BY <1>1 DEF CallInv, CallReading
  <2>7. CutInCall(past, w) /\ SeenBy(past, w, w.cut) /\ ThereAtCut(past, w, w.checked)
    BY <2>1, <2>4, <2>6 DEF CutInCall, SeenBy, ThereAtCut
  <2>8. CallInv(past, w)
    BY <2>1, <2>4, <2>5, <2>6, <2>7 DEF CallInv, CallBegun, CallReading, CallComparing,
       CallWhole, CallRewritten, CallCopying, Whole
  <2> HIDE DEF w
  <2> QED BY <2>2, <2>3, <2>8, CallMovesOn DEF Rewrite
<1> QED BY <1>2, <1>3, <1>4

(* A file that is compared was seen before the cut and is seen now: it was *)
(* there at the cut.                                                       *)
LEMMA SameAtCut ==
  ASSUME EmbedInv, NEW e \in Embedder, NEW f \in DOMAIN work[e].taken,
         work[e].phase = "comparing", disk[f] = work[e].taken[f]
  PROVE  past[work[e].cut][f] = work[e].taken[f]
<1> USE CallFields
<1> DEFINE w == work[e]
<1>1. /\ Len(past) \in Nat \ {0} /\ w.since \in 1..Len(past)
      /\ w.cut \in w.since..Len(past) /\ SeenBy(past, w, w.cut)
  BY PresentFiles DEF CallInv, CallBegun, CallComparing, CutInCall
<1>2. PICK i \in w.since..w.cut : past[i][f] = w.taken[f]
  BY <1>1 DEF SeenBy
<1>3. past[i][f] = past[Len(past)][f] /\ past[i][f] # Absent
  BY <1>2, Readings DEF disk
<1>4. /\ i \in 1..Len(past) /\ w.cut \in 1..Len(past) /\ i <= w.cut
      /\ w.cut <= Len(past) /\ Len(past) \in 1..Len(past)
  BY <1>1, <1>2
<1> QED BY <1>2, <1>3, <1>4 DEF PastInv, NeverBack

LEMMA CompareFileKeeps ==
  ASSUME EmbedInv, NEW e \in Embedder, CompareFile(e)  PROVE  EmbedInv'
<1> USE CallFields
<1> DEFINE rest == DOMAIN work[e].taken \ work[e].checked
           f == IF Doc \in rest THEN Doc ELSE First(rest)
           w == [work[e] EXCEPT !.checked = work[e].checked \cup {f}]
<1>1. work[e].phase \in {"comparing", "comparing_again"}
  BY DEF CompareFile
<1>2. CASE ~Unchanged(e, f)
  BY <1>2, CallEndsQuietly DEF CompareFile
<1>3. CASE Unchanged(e, f) /\ f \in rest
  <2>1. f \in DOMAIN work[e].taken /\ disk[f] = work[e].taken[f]
    BY <1>3 DEF Unchanged
  <2>2. work' = [work EXCEPT ![e] = w]
    BY <1>3 DEF CompareFile
  <2> HIDE DEF f
  <2>3. w \in Work
    BY <2>1 DEF Work
  <2>4. /\ w.phase = work[e].phase /\ w.since = work[e].since /\ w.cut = work[e].cut
        /\ w.taken = work[e].taken /\ w.checked = work[e].checked \cup {f}
        /\ w.got = work[e].got
    BY DEF Work
  <2>5. CASE work[e].phase = "comparing"
    <3>1. past[work[e].cut][f] = work[e].taken[f]
      BY <2>1, <2>5, SameAtCut
    <3>2. CallComparing(past, w)
      BY <2>1, <2>4, <2>5, <3>1 DEF CallInv, CallComparing, CutInCall, SeenBy, ThereAtCut
    <3>3. CallInv(past, w)
      BY <2>1, <2>4, <2>5, <3>2 DEF CallInv, CallBegun, CallReading, CallWhole, CallRewritten,
                              CallCopying, Whole
    <3> HIDE DEF w
    <3> QED BY <2>2, <2>3, <3>3, CallMovesOn DEF CompareFile
  <2>6. CASE work[e].phase = "comparing_again"
    <3>1. CallInv(past, w)
      BY <2>1, <2>4, <2>6 DEF CallInv, CallBegun, CallReading, CallComparing, CallWhole,
                        CallRewritten, CallCopying, Whole, CutInCall, ThereAtCut
    <3> HIDE DEF w
    <3> QED BY <2>2, <2>3, <3>1, CallMovesOn DEF CompareFile
  <2> QED BY <1>1, <2>5, <2>6
<1>4. CASE f \notin rest
  <2>1. rest = {}
    BY <1>4 DEF First
  <2>2. work[e].checked \subseteq DOMAIN work[e].taken
    BY <1>1 DEF CallInv, CallBegun
  <2> QED BY <2>1, <2>2 DEF CompareFile
<1> QED BY <1>2, <1>3, <1>4

LEMMA AllComparedKeeps ==
  ASSUME EmbedInv, NEW e \in Embedder, AllCompared(e)  PROVE  EmbedInv'
<1> USE CallFields
<1> DEFINE to == IF work[e].phase = "comparing" THEN "publishing" ELSE "sending"
           w == [work[e] EXCEPT !.phase = to, !.checked = {}]
<1>1. /\ work[e].phase \in {"comparing", "comparing_again"}
      /\ work[e].checked = DOMAIN work[e].taken
      /\ work' = [work EXCEPT ![e] = w]
  BY DEF AllCompared
<1>2. w \in Work
  <2>1. /\ \A v \in Work, x \in SUBSET Part : [v EXCEPT !.checked = x] \in Work
        /\ \A v \in Work : [v EXCEPT !.phase = "publishing"] \in Work
        /\ \A v \in Work : [v EXCEPT !.phase = "sending"] \in Work
    BY DEF Work
  <2>2. w = [[work[e] EXCEPT !.phase = to] EXCEPT !.checked = {}]
    BY DEF Work
  <2>3. [work[e] EXCEPT !.phase = to] \in Work
    BY <2>1
  <2> HIDE DEF w, to
  <2> QED BY <2>1, <2>2, <2>3
<1>3. /\ w.phase = to /\ w.since = work[e].since /\ w.cut = work[e].cut
      /\ w.taken = work[e].taken /\ w.checked = {} /\ w.got = work[e].got
  BY DEF Work
<1>4. CallInv(past, w)
  BY <1>1, <1>3 DEF CallInv, CallBegun, CallReading, CallComparing, CallWhole,
     CallRewritten, CallCopying, Whole, CutInCall, ThereAtCut
<1> HIDE DEF w
<1> QED BY <1>1, <1>2, <1>4, CallMovesOn DEF AllCompared

(* A call whose file is whole goes on to a later stage of the same kind.   *)
LEMMA WholeGoesOn ==
  ASSUME NEW p, NEW w \in Work, CallInv(p, w), NEW v \in Work, Whole(w), Whole(v),
         v.phase # "copying", v.since = w.since, v.cut = w.cut, v.taken = w.taken,
         v.checked = w.checked
  PROVE  CallInv(p, v)
BY DEF CallInv, CallBegun, CallReading, CallComparing, CallWhole, CallRewritten,
       CallCopying, Whole, CutInCall, ThereAtCut

LEMMA PublishSnapshotKeeps ==
  ASSUME EmbedInv, NEW e \in Embedder, PublishSnapshot(e)  PROVE  EmbedInv'
<1> USE CallFields
<1> DEFINE w(b) == [work[e] EXCEPT !.phase = "verifying", !.reused = b]
<1>1. PICK b \in BOOLEAN : work' = [work EXCEPT ![e] = w(b)]
  BY DEF PublishSnapshot
<1>2. w(b) \in Work
  BY ZenonT(30) DEF Work
<1>3. Whole(work[e]) /\ Whole(w(b))
  BY DEF PublishSnapshot, Whole, Work
<1>4. CallInv(past, w(b))
  <2>1. /\ w(b).phase = "verifying" /\ w(b).since = work[e].since
        /\ w(b).cut = work[e].cut /\ w(b).taken = work[e].taken
        /\ w(b).checked = work[e].checked
    BY DEF Work
  <2> HIDE DEF w
  <2> QED BY <1>2, <1>3, <2>1, WholeGoesOn
<1>5. snapshots' \in SUBSET Snapshot
  <2>1. Own(e) \in Snapshot
    BY DEF Own, Snapshot
  <2>2. snapshots \in SUBSET Snapshot
    BY DEF EmbedInv, EmbedTypeOK
  <2> QED BY <2>1, <2>2 DEF PublishSnapshot
<1>6. /\ past' = past /\ spoils' = spoils /\ sent' = sent
      /\ sent \in SUBSET Sent /\ SentInv(past, sent)
  BY DEF PublishSnapshot, EmbedInv, EmbedTypeOK
<1> HIDE DEF w
<1> QED BY <1>1, <1>2, <1>4, <1>5, <1>6, OneCallMoves

LEMMA VerifySnapshotKeeps ==
  ASSUME EmbedInv, NEW e \in Embedder, VerifySnapshot(e)  PROVE  EmbedInv'
<1> USE CallFields
<1> DEFINE w == [work[e] EXCEPT !.phase = "comparing_again"]
<1>1. /\ past' = past /\ spoils' = spoils /\ sent' = sent
      /\ sent \in SUBSET Sent /\ SentInv(past, sent)
      /\ snapshots' \in SUBSET Snapshot
  BY DEF VerifySnapshot, EmbedInv, EmbedTypeOK
<1>2. CASE Ends(e)
  BY <1>1, <1>2, CallEnds
<1>3. CASE Goes(e, "comparing_again")
  <2>1. w \in Work
    BY DEF Work
  <2>2. work' = [work EXCEPT ![e] = w]
    BY <1>3 DEF Goes
  <2>3. /\ w.phase = "comparing_again" /\ w.since = work[e].since
        /\ w.cut = work[e].cut /\ w.taken = work[e].taken
        /\ w.checked = work[e].checked
    BY DEF Work
  <2>4. Whole(work[e]) /\ Whole(w)
    BY <2>3 DEF VerifySnapshot, Whole
  <2> HIDE DEF w
  <2>5. CallInv(past, w)
    BY <2>1, <2>3, <2>4, WholeGoesOn
  <2> QED BY <1>1, <2>1, <2>2, <2>5, OneCallMoves
<1> QED BY <1>2, <1>3 DEF VerifySnapshot

LEMMA FingerprintSourceKeeps ==
  ASSUME EmbedInv, NEW e \in Embedder, FingerprintSource(e)  PROVE  EmbedInv'
<1> USE CallFields
<1> DEFINE w(x) == [work[e] EXCEPT !.phase = "copying", !.expected = x]
<1>1. \A x : /\ w(x).phase = "copying" /\ w(x).since = work[e].since
             /\ w(x).cut = work[e].cut /\ w(x).taken = work[e].taken
             /\ w(x).checked = work[e].checked /\ w(x).got = work[e].got
             /\ w(x).expected = x
  BY DEF Work
<1>2. \A x \in Source : w(x) \in Work
  BY ZenonT(30) DEF Work
<1> HIDE DEF w
<1>3. ASSUME NEW x \in FileSource \cup SnapshotSource,
             work' = [work EXCEPT ![e] = w(x)],
             \/ work[e].got # {} /\ x \in SnapshotSource /\ x.made = work[e].taken
             \/ work[e].got = {} /\ x \in FileSource
      PROVE  EmbedInv'
  <2>1. w(x) \in Work
    BY <1>2 DEF Source, FileSource, SnapshotSource
  <2>2. CallInv(past, w(x))
    BY <1>1, <1>3 DEF FingerprintSource, CallInv, CallBegun, CallReading, CallComparing,
       CallWhole, CallRewritten, CallCopying, Whole, CutInCall, ThereAtCut
  <2> QED BY <1>3, <2>1, <2>2, CallMovesOn DEF FingerprintSource
<1>4. CASE /\ work[e].got # {}
           /\ \E s \in Twins(e) :
                work' = [work EXCEPT ![e] =
                           w([kind |-> "snapshot", made |-> s.made, by |-> s.by])]
  <2>1. PICK s \in Twins(e) :
          work' = [work EXCEPT ![e] =
                     w([kind |-> "snapshot", made |-> s.made, by |-> s.by])]
    BY <1>4
  <2>2. s \in Snapshot /\ s.made = work[e].taken
    BY DEF Twins, EmbedInv, EmbedTypeOK
  <2>3. [kind |-> "snapshot", made |-> s.made, by |-> s.by] \in SnapshotSource
    BY <2>2 DEF SnapshotSource, Snapshot
  <2> QED BY <1>3, <1>4, <2>1, <2>2, <2>3
<1>5. CASE /\ work[e].got = {} /\ disk[Doc] # Absent
           /\ work' = [work EXCEPT ![e] = w([kind |-> "file", version |-> disk[Doc]])]
  <2>1. [kind |-> "file", version |-> disk[Doc]] \in FileSource
    BY <1>5, PresentFiles DEF FileSource, Part
  <2> QED BY <1>3, <1>5, <2>1
<1>6. CASE Ends(e)
  BY <1>6, CallEndsQuietly DEF FingerprintSource
<1>7. \/ /\ work[e].got # {}
         /\ \E s \in Twins(e) :
              work' = [work EXCEPT ![e] =
                         w([kind |-> "snapshot", made |-> s.made, by |-> s.by])]
      \/ /\ work[e].got = {} /\ disk[Doc] # Absent
         /\ work' = [work EXCEPT ![e] = w([kind |-> "file", version |-> disk[Doc]])]
      \/ Ends(e)
  BY DEF FingerprintSource, w
<1> QED BY <1>4, <1>5, <1>6, <1>7

LEMMA CopyAndSendKeeps ==
  ASSUME EmbedInv, NEW e \in Embedder, CopyAndSend(e)  PROVE  EmbedInv'
<1> USE CallFields
<1>1. /\ Ends(e) /\ past' = past /\ spoils' = spoils /\ snapshots' = snapshots
      /\ sent \in SUBSET Sent /\ SentInv(past, sent)
      /\ snapshots \in SUBSET Snapshot
      /\ work[e].phase = "copying"
  BY DEF CopyAndSend, EmbedInv, EmbedTypeOK
<1>2. Len(past) \in Nat \ {0} /\ work[e].since \in 1..Len(past)
  BY <1>1, PresentFiles DEF CallInv, CallBegun
<1>3. ASSUME NEW s \in Sent, sent' = sent \cup {s}, s.since = work[e].since,
             \E i \in s.since..Len(past) : \A f \in DOMAIN s.made : past[i][f] = s.made[f],
             s.embedded => StandsAlone(s.made)
      PROVE  EmbedInv'
  <2>1. SentInv(past, sent')
    BY <1>1, <1>2, <1>3 DEF SentInv
  <2> QED BY <1>1, <1>3, <2>1, CallEnds
<1>4. CASE /\ work[e].expected.kind = "snapshot"
           /\ \E s \in snapshots :
                /\ SnapshotStill(e, s)
                /\ sent' = sent \cup {[since |-> work[e].since, made |-> s.made,
                                       embedded |-> TRUE]}
  <2>1. PICK s \in snapshots :
          /\ SnapshotStill(e, s)
          /\ sent' = sent \cup {[since |-> work[e].since, made |-> s.made,
                                 embedded |-> TRUE]}
    BY <1>4
  <2>2. work[e].got # {} /\ s.made = work[e].taken
    BY <1>1, <1>4, <2>1 DEF CallInv, CallCopying, FileSource, SnapshotStill
  <2>3. /\ work[e].cut \in work[e].since..Len(past)
        /\ \A f \in DOMAIN work[e].taken : past[work[e].cut][f] = work[e].taken[f]
        /\ StandsAlone(work[e].taken)
    BY <1>1, <2>2 DEF CallInv, CallWhole, CallRewritten, Whole, CutInCall, ThereAtCut
  <2> DEFINE x == [since |-> work[e].since, made |-> s.made, embedded |-> TRUE]
  <2>4. /\ x \in Sent /\ x.since = work[e].since /\ x.made = work[e].taken
        /\ sent' = sent \cup {x}
    BY <1>2, <2>1, <2>2 DEF Sent
  <2> HIDE DEF x
  <2>5. \E i \in x.since..Len(past) : \A f \in DOMAIN x.made : past[i][f] = x.made[f]
    BY <2>3, <2>4
  <2> QED BY <1>3, <2>3, <2>4, <2>5
<1>5. CASE /\ work[e].expected.kind = "file" /\ FileStill(e)
           /\ sent' = sent \cup {[since |-> work[e].since, embedded |-> FALSE,
                                  made |-> [f \in {Doc} |-> disk[Doc]]]}
  <2>1. disk[Doc] \in Version
    BY <1>1, <1>5 DEF CallInv, CallCopying, FileSource, SnapshotSource, FileStill
  <2>2. [f \in {Doc} |-> disk[Doc]] \in Reading
    BY <2>1, Readings DEF Part
  <2> DEFINE x == [since |-> work[e].since, embedded |-> FALSE,
                   made |-> [f \in {Doc} |-> disk[Doc]]]
  <2>3. /\ x \in Sent /\ x.since = work[e].since /\ ~x.embedded
        /\ x.made = [f \in {Doc} |-> disk[Doc]] /\ sent' = sent \cup {x}
    BY <1>2, <1>5, <2>2 DEF Sent
  <2> HIDE DEF x
  <2>4. \A f \in DOMAIN x.made : past[Len(past)][f] = x.made[f]
    BY <2>3 DEF disk
  <2> QED BY <1>2, <1>3, <2>3, <2>4
<1>6. CASE sent' = sent
  BY <1>1, <1>6, CallEnds
<1> QED BY <1>4, <1>5, <1>6 DEF CopyAndSend

-----------------------------------------------------------------------------
(* The other writers.                                                      *)

LEMMA BecomesKeeps ==
  ASSUME EmbedInv, NEW shown \in Disk, Becomes(shown),
         \A f \in Part : \/ shown[f] = disk[f]
                         \/ shown[f] = Absent
                         \/ shown[f].write = Len(past) + 1
  PROVE  EmbedInv'
<1>1. /\ PastInv(past')
      /\ Len(past') = Len(past) + 1
      /\ \A i \in 1..Len(past) : past'[i] = past[i]
  BY PastGrows DEF EmbedInv, Becomes, disk
<1>2. /\ work' = work /\ sent' = sent /\ snapshots' = snapshots /\ spoils' = spoils
  BY DEF Becomes
<1>3. \A e \in Embedder : CallInv(past', work[e])
  BY <1>1, CallFields, CallOutlives
<1>4. SentInv(past', sent)
  BY <1>1, SentOutlives DEF EmbedInv
<1>5. EmbedTypeOK'
  BY <1>1, <1>2 DEF EmbedInv, EmbedTypeOK, PastInv
<1> QED BY <1>1, <1>2, <1>3, <1>4, <1>5 DEF EmbedInv

LEMMA NewVersions ==
  ASSUME EmbedInv, Len(past) <= MaxWrites
  PROVE  /\ disk \in Disk
         /\ \A r \in SUBSET Asset : /\ Written(r) \in Version
                                    /\ Written(r).write = Len(past) + 1
         /\ \A r \in DocRefs, s \in SheetRefs :
              /\ FilesWith(Len(past) + 1, r, s) \in Disk
              /\ \A f \in Part :
                   FilesWith(Len(past) + 1, r, s)[f].write = Len(past) + 1
<1>1. Len(past) \in Nat \ {0} /\ disk \in Disk
  BY PresentFiles DEF EmbedInv
<1>2. Len(past) + 1 \in 1..(MaxWrites + 1)
  BY <1>1, EmbedAssumption
<1>3. \A r \in SUBSET Asset : Written(r) \in Version /\ Written(r).write = Len(past) + 1
  BY <1>2 DEF Written, Version
<1>4. ASSUME NEW r \in DocRefs, NEW s \in SheetRefs
      PROVE  /\ FilesWith(Len(past) + 1, r, s) \in Disk
             /\ \A f \in Part : FilesWith(Len(past) + 1, r, s)[f].write = Len(past) + 1
  <2>1. r \in SUBSET Asset /\ s \in SUBSET Asset
    BY EmbedAssumption
  <2>2. \A f \in Part : FilesWith(Len(past) + 1, r, s)[f] \in Version
    BY <1>2, <2>1 DEF FilesWith, Version
  <2> QED BY <2>2 DEF FilesWith, Disk
<1> QED BY <1>1, <1>3, <1>4

LEMMA WritersKeep ==
  ASSUME EmbedInv, DocWritten \/ AssetWritten \/ PackageMovedAway \/ PackageMovedIn
  PROVE  EmbedInv'
<1>1. CASE DocWritten
  <2>1. PICK r \in DocRefs : Becomes([disk EXCEPT ![Doc] = Written(r)])
    BY <1>1 DEF DocWritten
  <2>2. /\ disk \in Disk /\ Written(r) \in Version /\ Written(r).write = Len(past) + 1
    BY <2>1, NewVersions, EmbedAssumption DEF Becomes
  <2> QED BY <2>1, <2>2, BecomesKeeps DEF Disk
<1>2. CASE AssetWritten
  <2>1. PICK a \in Asset, r \in SUBSET Asset : Becomes([disk EXCEPT ![a] = Written(r)])
    BY <1>2, EmbedAssumption DEF AssetWritten
  <2>2. /\ disk \in Disk /\ Written(r) \in Version /\ Written(r).write = Len(past) + 1
    BY <2>1, NewVersions DEF Becomes
  <2> QED BY <2>1, <2>2, BecomesKeeps DEF Disk
<1>3. CASE PackageMovedAway
  BY <1>3, BecomesKeeps DEF PackageMovedAway, Disk
<1>4. CASE PackageMovedIn
  <2>1. PICK r \in DocRefs, s \in SheetRefs : Becomes(FilesWith(Len(past) + 1, r, s))
    BY <1>4 DEF PackageMovedIn
  <2>2. Len(past) <= MaxWrites
    BY <2>1 DEF Becomes
  <2> QED BY <2>1, <2>2, NewVersions, BecomesKeeps
<1> QED BY <1>1, <1>2, <1>3, <1>4

LEMMA SnapshotSpoiltKeeps ==
  ASSUME EmbedInv, SnapshotSpoilt  PROVE  EmbedInv'
<1>1. /\ past' = past /\ work' = work /\ sent' = sent
  BY DEF SnapshotSpoilt
<1>2. snapshots' \in SUBSET Snapshot
  BY DEF SnapshotSpoilt, EmbedInv, EmbedTypeOK, Snapshot
<1>3. spoils' \in Nat
  BY DEF SnapshotSpoilt, EmbedInv, EmbedTypeOK
<1> QED BY <1>1, <1>2, <1>3 DEF EmbedInv, EmbedTypeOK

-----------------------------------------------------------------------------
LEMMA EmbedInvAtFirst == EmbedInit => EmbedInv
<1> SUFFICES ASSUME EmbedInit  PROVE EmbedInv
  OBVIOUS
<1>1. PICK r \in DocRefs, s \in SheetRefs : past = <<FilesWith(1, r, s)>>
  BY DEF EmbedInit
<1>2. /\ r \in SUBSET Asset /\ s \in SUBSET Asset /\ 1 \in 1..(MaxWrites + 1)
  BY EmbedAssumption
<1>3. \A f \in Part : FilesWith(1, r, s)[f] \in Version /\ FilesWith(1, r, s)[f].write = 1
  BY <1>2 DEF FilesWith, Version
<1>4. FilesWith(1, r, s) \in Disk
  BY <1>3 DEF FilesWith, Disk
<1>5. /\ past \in Seq(Disk) /\ past # <<>> /\ Len(past) = 1
      /\ past[1] = FilesWith(1, r, s)
  BY <1>1, <1>4
<1>6. PastInv(past)
  BY <1>3, <1>5 DEF PastInv, Numbered, NeverBack
<1>7. \A e \in Embedder : work[e] = Resting("idle")
  BY DEF EmbedInit
<1>8. EmbedTypeOK
  BY <1>5, RestingCalls DEF EmbedInit, EmbedTypeOK
<1> QED
  BY <1>6, <1>7, <1>8, RestingCalls DEF EmbedInit, EmbedInv, SentInv

LEMMA EmbedInvKept == EmbedInv /\ [EmbedNext]_bvars => EmbedInv'
<1> SUFFICES ASSUME EmbedInv, [EmbedNext]_bvars  PROVE EmbedInv'
  OBVIOUS
<1>1. CASE DocWritten \/ AssetWritten \/ PackageMovedAway \/ PackageMovedIn
  BY <1>1, WritersKeep
<1>2. CASE SnapshotSpoilt
  BY <1>2, SnapshotSpoiltKeeps
<1>3. ASSUME NEW e \in Embedder,
             \/ ReadDoc(e) \/ ListAssets(e) \/ FollowReference(e) \/ Rewrite(e)
             \/ CompareFile(e) \/ AllCompared(e)
             \/ PublishSnapshot(e) \/ VerifySnapshot(e)
             \/ FingerprintSource(e) \/ CopyAndSend(e)
      PROVE  EmbedInv'
  BY <1>3, ReadDocKeeps, ListAssetsKeeps, FollowReferenceKeeps, RewriteKeeps,
     CompareFileKeeps, AllComparedKeeps, PublishSnapshotKeeps, VerifySnapshotKeeps,
     FingerprintSourceKeeps, CopyAndSendKeeps
<1>4. CASE UNCHANGED bvars
  BY <1>4 DEF bvars, EmbedInv, EmbedTypeOK
<1> QED BY <1>1, <1>2, <1>3, <1>4 DEF EmbedNext

LEMMA EmbedInvAlways == EmbedSpec => []EmbedInv
BY EmbedInvAtFirst, EmbedInvKept, PTL DEF EmbedSpec

(* Every variable keeps its type.                                          *)
THEOREM EmbedTypeCorrect == EmbedSpec => []EmbedTypeOK
<1>1. EmbedInv => EmbedTypeOK
  BY DEF EmbedInv
<1> QED BY <1>1, EmbedInvAlways, PTL

(* Whatever is sent was in place, HTML file and assets together, at one    *)
(* moment of the call that sent it.                                        *)
THEOREM SentIsOneMomentAlways == EmbedSpec => []SentIsOneMoment
<1>1. EmbedInv => SentIsOneMoment
  <2> SUFFICES ASSUME EmbedInv, NEW s \in sent
               PROVE  \E i \in s.since..Len(past) :
                        i > 0 /\ \A f \in DOMAIN s.made : past[i][f] = s.made[f]
    BY DEF SentIsOneMoment
  <2>1. s.since \in 1..Len(past) /\ Len(past) \in Nat
    BY PresentFiles DEF EmbedInv, SentInv
  <2>2. PICK i \in s.since..Len(past) : \A f \in DOMAIN s.made : past[i][f] = s.made[f]
    BY DEF EmbedInv, SentInv
  <2> QED BY <2>1, <2>2
<1> QED BY <1>1, EmbedInvAlways, PTL

(* An embedded file that is sent refers to nothing it does not contain.    *)
THEOREM SentStandsAloneAlways == EmbedSpec => []SentStandsAlone
<1>1. EmbedInv => SentStandsAlone
  BY DEF EmbedInv, SentInv, SentStandsAlone, StandsAlone
<1> QED BY <1>1, EmbedInvAlways, PTL

(* Both: what is sent is one moment of the files, and stands alone.        *)
THEOREM SentIsWholeAlways == EmbedSpec => []SentIsWhole
<1>1. SentIsOneMoment /\ SentStandsAlone => SentIsWhole
  BY DEF SentIsWhole
<1> QED BY <1>1, SentIsOneMomentAlways, SentStandsAloneAlways, PTL
=============================================================================

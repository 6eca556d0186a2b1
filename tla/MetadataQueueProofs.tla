------------------------ MODULE MetadataQueueProofs ------------------------
(***************************************************************************)
(* The safety properties of MetadataQueue, for any sets of jobs, keys,     *)
(* threads and owners and any lease time; then those of MetadataDrain, and *)
(* that it implements LeaseQueue, for any workers spread in any way over   *)
(* any drains.                                                             *)
(*                                                                         *)
(* The proofs go through one lemma: whatever step is taken, each row of    *)
(* the table either stays as it is or changes in one of the eight ways the *)
(* UPDATEs of state.py can change it.  Every property of single rows is    *)
(* then an induction over those eight ways.                                *)
(*                                                                         *)
(* A step of a worker is a step of the store with the worker's bookkeeping *)
(* conjoined, so what is shown of the rows holds of the drains too.        *)
(* What is added is the bookkeeping: which call a worker is in, that the   *)
(* token it holds was granted, and, if lease_next returns within the lease *)
(* (PromptReread), that the token is its own and of the latest claim.      *)
(***************************************************************************)
EXTENDS MetadataDrain, TLAPS

-----------------------------------------------------------------------------
(* The ways a row changes.                                                 *)

Becomes(j, row, event) ==
  jobs'[j] = row /\ trail'[j] = Logged(trail[j], event)

RowKept(j) == jobs'[j] = jobs[j] /\ trail'[j] = trail[j]

RowCreated(j) ==
  /\ jobs[j].status = "absent"
  /\ \E k \in Key, b \in Budgets, t \in Nat :
       ~HasKey(k) /\ Becomes(j, Created(k, b, t), "created")
  /\ \A i \in Job \ {j} : RowKept(i)

RowRecovered(j) ==
  /\ jobs[j].status = "running"
  /\ \E t \in Nat : Becomes(j, Unleased(jobs[j], "queued", t), "recovered")

RowExhausted(j) ==
  /\ jobs[j].status = "queued" /\ BudgetSpent(jobs[j])
  /\ \E t \in Nat : Becomes(j, Exhausted(jobs[j], t), "attempts_exhausted")

RowLeased(j) ==
  /\ jobs[j].status = "queued" /\ ~BudgetSpent(jobs[j])
  /\ \E o \in Owner, t \in 0..now : Becomes(j, Leased(jobs[j], o, t), "leased")

(* The lease of the row: who took it, and not before when.                 *)
LeasedAs(j, owner, since) ==
  \E t \in since..now : Becomes(j, Leased(jobs[j], owner, t), "leased")

RowReported(j) ==
  /\ jobs[j].status = "running"
  /\ \E s \in Reported, t \in Nat : Becomes(j, Unleased(jobs[j], s, t), s)

RowExtended(j) ==
  /\ jobs[j].status = "running"
  /\ \E t \in 0..now : jobs'[j] = Extended(jobs[j], t)
  /\ trail'[j] = trail[j]

RowRetried(j) ==
  /\ jobs[j].status \in Terminal \ {"succeeded"}
  /\ \E reset \in BOOLEAN, t \in Nat :
       Becomes(j, Requeued(jobs[j], reset, t),
               IF reset THEN "retry_generation_reset" ELSE "retry")

RowCancelled(j) ==
  /\ jobs[j].status \in {"queued", "failed_retryable", "skipped"}
  /\ \E t \in Nat : Becomes(j, Unleased(jobs[j], "cancelled", t), "cancelled")

RowNotLeased(j) ==
  \/ RowKept(j) \/ RowCreated(j) \/ RowRecovered(j) \/ RowExhausted(j)
  \/ RowReported(j) \/ RowExtended(j) \/ RowRetried(j) \/ RowCancelled(j)

RowChange(j) == RowLeased(j) \/ RowNotLeased(j)

-----------------------------------------------------------------------------
(* Write changes the rows it names and keeps the others.                   *)
LEMMA WriteRow ==
  ASSUME NEW rows, NEW events, Write(rows, events), NEW j \in Job
  PROVE  /\ j \in DOMAIN rows => Becomes(j, rows[j], events[j])
         /\ j \notin DOMAIN rows => RowKept(j)
BY DEF Write, Becomes, RowKept

LEMMA WriteOneRow ==
  ASSUME NEW i, NEW row, NEW event, WriteOne(i, row, event), NEW j \in Job
  PROVE  /\ j = i => Becomes(j, row, event)
         /\ j # i => RowKept(j)
BY DEF WriteOne, Write, Becomes, RowKept

(* A call of each kind has the fields of its kind.                         *)
LEMMA CallFields ==
  ASSUME NEW call \in Call
  PROVE  /\ call.op = "insert" => call \in InsertCall
         /\ call.op = "sweep"  => call \in SweepCall
         /\ call.op = "reap"   => call \in ReapCall
         /\ call.op = "claim"  => call \in ClaimCall
         /\ call.op = "report" => call \in ReportCall
         /\ call.op = "beat"   => call \in BeatCall
BY DEF Call, IdleCall, InsertCall, SweepCall, ReapCall, ClaimCall, ReportCall,
       BeatCall

-----------------------------------------------------------------------------
(* One lemma for each action that writes the table.                        *)

LEMMA InsertChange ==
  ASSUME TypeOK, NEW c \in Client, EnqueueInsert(c), NEW j \in Job
  PROVE  RowKept(j) \/ RowCreated(j)
<1>1. calls[c] \in InsertCall
  BY CallFields DEF TypeOK, EnqueueInsert
<1>2. PICK i \in Job :
        /\ ~Present(i)
        /\ WriteOne(i, Created(calls[c].key, calls[c].budget, calls[c].time),
                    "created")
  BY DEF EnqueueInsert
<1>3. CASE j = i
  <2>1. Becomes(j, Created(calls[c].key, calls[c].budget, calls[c].time),
                "created")
    BY <1>2, <1>3, WriteOneRow
  <2>2. /\ calls[c].key \in Key
        /\ calls[c].budget \in Budgets
        /\ calls[c].time \in Nat
        /\ ~HasKey(calls[c].key)
    BY <1>1 DEF InsertCall, EnqueueInsert, Conflict
  <2>3. \A k \in Job \ {j} : RowKept(k)
    BY <1>2, <1>3, WriteOneRow
  <2> QED BY <1>2, <1>3, <2>1, <2>2, <2>3 DEF RowCreated, Present
<1>4. CASE j # i
  BY <1>2, <1>4, WriteOneRow
<1> QED BY <1>3, <1>4

LEMMA SweepChange ==
  ASSUME TypeOK, NEW c \in Client, SweepUpdate(c), NEW j \in Job
  PROVE  RowKept(j) \/ RowRecovered(j)
<1> DEFINE ids == Matched(calls[c].ids, calls[c].time)
<1>1. calls[c] \in SweepCall
  BY CallFields DEF TypeOK, SweepUpdate
<1>2. Write([i \in ids |-> Unleased(jobs[i], "queued", calls[c].time)],
            [i \in ids |-> "recovered"])
  BY DEF SweepUpdate
<1>3. CASE j \in ids
  <2>1. Becomes(j, Unleased(jobs[j], "queued", calls[c].time), "recovered")
    BY <1>2, <1>3, WriteRow
  <2>2. calls[c].time \in Nat /\ jobs[j].status = "running"
    BY <1>1, <1>3 DEF SweepCall, Matched, Expired
  <2> QED BY <2>1, <2>2 DEF RowRecovered
<1>4. CASE j \notin ids
  BY <1>2, <1>4, WriteRow
<1> QED BY <1>3, <1>4

LEMMA ReapChange ==
  ASSUME TypeOK, NEW c \in Client, ReapUpdate(c), NEW j \in Job
  PROVE  RowKept(j) \/ RowRecovered(j)
<1> DEFINE ids == {i \in Job :
                     /\ jobs[i].status = "running"
                     /\ [job |-> i, owner |-> jobs[i].owner,
                         updated |-> jobs[i].updated] \in calls[c].seen}
<1>1. calls[c] \in ReapCall
  BY CallFields DEF TypeOK, ReapUpdate
<1>2. Write([i \in ids |-> Unleased(jobs[i], "queued", calls[c].time)],
            [i \in ids |-> "recovered"])
  BY DEF ReapUpdate
<1>3. CASE j \in ids
  <2>1. Becomes(j, Unleased(jobs[j], "queued", calls[c].time), "recovered")
    BY <1>2, <1>3, WriteRow
  <2>2. calls[c].time \in Nat /\ jobs[j].status = "running"
    BY <1>1, <1>3 DEF ReapCall
  <2> QED BY <2>1, <2>2 DEF RowRecovered
<1>4. CASE j \notin ids
  BY <1>2, <1>4, WriteRow
<1> QED BY <1>3, <1>4

LEMMA LeaseNothingChange ==
  ASSUME TypeOK, NEW c \in Client, LeaseNothing(c), NEW j \in Job
  PROVE  RowKept(j) \/ RowExhausted(j)
<1>1. calls[c] \in ClaimCall
  BY CallFields DEF TypeOK, LeaseNothing
<1>2. PICK t \in calls[c].since .. now :
        Write([i \in Spent |-> Exhausted(jobs[i], t)],
              [i \in Spent |-> "attempts_exhausted"])
  BY DEF LeaseNothing
<1>3. t \in Nat
  BY <1>1 DEF ClaimCall, TypeOK, Time, QueueAssumption
<1>4. CASE j \in Spent
  <2>1. Becomes(j, Exhausted(jobs[j], t), "attempts_exhausted")
    BY <1>2, <1>4, WriteRow
  <2> QED BY <1>3, <1>4, <2>1 DEF RowExhausted, Spent, Queued
<1>5. CASE j \notin Spent
  BY <1>2, <1>5, WriteRow
<1> QED BY <1>4, <1>5

LEMMA LeaseJobChange ==
  ASSUME TypeOK, NEW c \in Client, NEW i \in Job, LeaseJob(c, i), NEW j \in Job
  PROVE  /\ j # i => RowKept(j) \/ RowExhausted(j)
         /\ j = i => RowLeased(j) /\ LeasedAs(j, calls[c].owner, calls[c].since)
<1>1. calls[c] \in ClaimCall
  BY CallFields DEF TypeOK, LeaseJob
<1>2. PICK t \in calls[c].since .. now :
        Write([k \in Spent \cup {i} |-> IF k = i
                                        THEN Leased(jobs[k], calls[c].owner, t)
                                        ELSE Exhausted(jobs[k], t)],
              [k \in Spent \cup {i} |-> IF k = i THEN "leased"
                                        ELSE "attempts_exhausted"])
  BY DEF LeaseJob
<1>3. /\ t \in 0..now /\ t \in calls[c].since .. now /\ t \in Nat
      /\ calls[c].owner \in Owner
  BY <1>1 DEF ClaimCall, TypeOK, Time, QueueAssumption
<1>4. i \in Queued \ Spent
  BY DEF LeaseJob, Oldest
<1>5. CASE j = i
  <2>1. Becomes(j, Leased(jobs[j], calls[c].owner, t), "leased")
    BY <1>2, <1>5, WriteRow
  <2> QED BY <1>3, <1>4, <1>5, <2>1 DEF RowLeased, LeasedAs, Spent, Queued
<1>6. CASE j \in Spent
  <2>1. Becomes(j, Exhausted(jobs[j], t), "attempts_exhausted")
    BY <1>2, <1>4, <1>6, WriteRow
  <2> QED BY <1>3, <1>4, <1>6, <2>1 DEF RowExhausted, Spent, Queued
<1>7. CASE j \notin Spent \cup {i}
  BY <1>2, <1>7, WriteRow
<1> QED BY <1>5, <1>6, <1>7

LEMMA ReportChange ==
  ASSUME TypeOK, NEW c \in Client, ReportAccepted(c), NEW j \in Job
  PROVE  /\ RowKept(j) \/ RowReported(j)
         /\ j = calls[c].token.job =>
              RowReported(j) /\ jobs[j].owner = calls[c].token.owner
         /\ j # calls[c].token.job => RowKept(j)
<1> DEFINE i == calls[c].token.job
<1>1. calls[c] \in ReportCall
  BY CallFields DEF TypeOK, ReportAccepted
<1>2. PICK t \in calls[c].since .. now :
        /\ LeaseHeld(calls[c].token, t)
        /\ WriteOne(i, Unleased(jobs[i], calls[c].status, t), calls[c].status)
  BY DEF ReportAccepted
<1>3. t \in Nat /\ calls[c].status \in Reported /\ jobs[i].status = "running"
  BY <1>1, <1>2 DEF ReportCall, TypeOK, Time, QueueAssumption, LeaseHeld
<1>4. CASE j = i
  BY <1>2, <1>3, <1>4, WriteOneRow DEF RowReported, LeaseHeld
<1>5. CASE j # i
  BY <1>2, <1>5, WriteOneRow
<1> QED BY <1>4, <1>5

LEMMA BeatChange ==
  ASSUME TypeOK, NEW c \in Client, BeatAccepted(c), NEW j \in Job
  PROVE  RowKept(j) \/ RowExtended(j)
<1> DEFINE i == calls[c].token.job
<1>1. calls[c] \in BeatCall
  BY CallFields DEF TypeOK, BeatAccepted
<1>2. PICK t \in calls[c].since .. now :
        /\ LeaseHeld(calls[c].token, t)
        /\ jobs' = [jobs EXCEPT ![i] = Extended(@, t)]
  BY DEF BeatAccepted
<1>3. t \in 0..now /\ jobs[i].status = "running" /\ trail' = trail
  BY <1>1, <1>2 DEF BeatCall, TypeOK, Time, QueueAssumption, LeaseHeld,
                    BeatAccepted
<1>4. jobs'[j] = IF j = i THEN Extended(jobs[j], t) ELSE jobs[j]
  BY <1>2 DEF TypeOK
<1> QED BY <1>3, <1>4 DEF RowExtended, RowKept

LEMMA RetryChange ==
  ASSUME TypeOK, NEW i \in Job, NEW reset \in BOOLEAN, Retry(i, reset),
         NEW j \in Job
  PROVE  /\ j = i => RowRetried(j)
         /\ j # i => RowKept(j)
<1>1. now \in Nat
  BY DEF TypeOK, Time, QueueAssumption
<1>2. CASE j = i
  BY <1>1, <1>2, WriteOneRow DEF Retry, RowRetried
<1>3. CASE j # i
  BY <1>3, WriteOneRow DEF Retry
<1> QED BY <1>2, <1>3

LEMMA CancelChange ==
  ASSUME TypeOK, NEW i \in Job, Cancel(i), NEW j \in Job
  PROVE  /\ j = i => RowCancelled(j)
         /\ j # i => RowKept(j)
<1>1. now \in Nat
  BY DEF TypeOK, Time, QueueAssumption
<1>2. CASE j = i
  BY <1>1, <1>2, WriteOneRow DEF Cancel, RowCancelled
<1>3. CASE j # i
  BY <1>3, WriteOneRow DEF Cancel
<1> QED BY <1>2, <1>3

(* The other actions leave the table alone.                                *)
LEMMA ReadOnlyChange ==
  ASSUME jobs' = jobs, trail' = trail, NEW j \in Job
  PROVE  RowKept(j)
BY DEF RowKept

(* Whatever step is taken, a row changes in one of the ways above.         *)
THEOREM StepChange ==
  ASSUME TypeOK, [Next]_vars, NEW j \in Job
  PROVE  RowChange(j)
<1> USE DEF RowChange, RowNotLeased
<1>1. ASSUME NEW c \in Client, ClientStep(c)
      PROVE  RowChange(j)
  <2>1. CASE EnqueueInsert(c) BY <2>1, InsertChange
  <2>2. CASE SweepUpdate(c) BY <2>2, SweepChange
  <2>3. CASE ReapUpdate(c) BY <2>3, ReapChange
  <2>4. CASE LeaseNothing(c) BY <2>4, LeaseNothingChange
  <2>5. ASSUME NEW i \in Job, LeaseJob(c, i)
        PROVE  RowChange(j)
    BY <2>5, LeaseJobChange
  <2>6. CASE ReportAccepted(c) BY <2>6, ReportChange
  <2>7. CASE BeatAccepted(c) BY <2>7, BeatChange
  <2>8. CASE \/ \E k \in Key, b \in Budgets : EnqueueLookup(c, k, b)
             \/ EnqueueConflict(c)
             \/ \E o \in Owner \cup {None} : SweepSelect(c, o)
             \/ \E dead \in SUBSET Owner : ReapSelect(c, dead)
             \/ \E token \in granted, out \in Outcome : ReportBegin(c, token, out)
             \/ ReportDiscarded(c)
             \/ \E token \in granted : BeatBegin(c, token)
             \/ BeatRefused(c)
             \/ AbandonCall(c)
    <3>1. jobs' = jobs /\ trail' = trail
      BY <2>8 DEF EnqueueLookup, EnqueueConflict, SweepSelect, ReapSelect,
                  ReportBegin, ReportDiscarded, BeatBegin, BeatRefused,
                  AbandonCall
    <3> QED BY <3>1, ReadOnlyChange
  <2> QED BY <1>1, <2>1, <2>2, <2>3, <2>4, <2>5, <2>6, <2>7, <2>8
          DEF ClientStep
<1>2. ASSUME OperatorStep
      PROVE  RowChange(j)
  BY <1>2, RetryChange, CancelChange DEF OperatorStep
<1>3. CASE Tick
  BY <1>3, ReadOnlyChange DEF Tick
<1>4. CASE UNCHANGED vars
  BY <1>4, ReadOnlyChange DEF vars
<1> QED BY <1>1, <1>2, <1>3, <1>4 DEF Next

-----------------------------------------------------------------------------
(* The inductive invariant, row by row.  LeaseBounded needs that a row not *)
(* running has no expiry, and AuditTrailReplays that a row not yet used has *)
(* used no attempts; the other conjuncts carry themselves.                 *)

RowInv(j) ==
  LET row == jobs[j] IN
  /\ row \in Row
  /\ trail[j] \in Trail
  /\ row.status = "absent" => row.attempts = 0
  /\ row.status = "running" <=> row.owner # None
  /\ row.status = "running" <=> row.until # NoTime
  /\ row.budget > 0 => row.attempts <= row.budget
  /\ row.until <= now + Lease
  /\ row.status = StatusAfter(trail[j].event)
  /\ row.attempts = trail[j].leases

(* A sweep under way has read its clock already.                           *)
SweepInPast ==
  \A c \in Client : calls[c].op = "sweep" => calls[c].time <= now

QueueInv ==
  /\ TypeOK
  /\ \A j \in Job : RowInv(j)
  /\ SweepInPast

(* Each column of a row can be set to a value of its type.                 *)
LEMMA SetColumn ==
  /\ \A row \in Row, v \in Status : [row EXCEPT !.status = v] \in Row
  /\ \A row \in Row, v \in Key : [row EXCEPT !.key = v] \in Row
  /\ \A row \in Row, v \in Nat : [row EXCEPT !.attempts = v] \in Row
  /\ \A row \in Row, v \in Nat : [row EXCEPT !.budget = v] \in Row
  /\ \A row \in Row, v \in Owner \cup {None} : [row EXCEPT !.owner = v] \in Row
  /\ \A row \in Row, v \in Int : [row EXCEPT !.until = v] \in Row
  /\ \A row \in Row, v \in Nat : [row EXCEPT !.created = v] \in Row
  /\ \A row \in Row, v \in Nat : [row EXCEPT !.updated = v] \in Row
BY DEF Row

(* Taking a row out of its lease.                                          *)
LEMMA UnleasedRow ==
  ASSUME NEW row \in Row, NEW status \in Status, NEW t \in Nat
  PROVE  /\ Unleased(row, status, t) \in Row
         /\ Unleased(row, status, t).status = status
         /\ Unleased(row, status, t).owner = None
         /\ Unleased(row, status, t).until = NoTime
         /\ Unleased(row, status, t).budget = row.budget
         /\ Unleased(row, status, t).attempts = row.attempts
<1> DEFINE r1 == [row EXCEPT !.status = status]
           r2 == [r1 EXCEPT !.owner = None]
           r3 == [r2 EXCEPT !.until = NoTime]
           r4 == [r3 EXCEPT !.updated = t]
<1>1. r1 \in Row BY SetColumn
<1>2. r2 \in Row BY <1>1, SetColumn
<1>3. r3 \in Row
  <2>1. NoTime \in Int BY DEF NoTime
  <2> QED BY <1>2, <2>1, SetColumn
<1>4. r4 \in Row BY <1>3, SetColumn
<1>5. Unleased(row, status, t) = r4 BY DEF Unleased
<1>6. /\ Unleased(row, status, t).status = status
      /\ Unleased(row, status, t).owner = None
      /\ Unleased(row, status, t).until = NoTime
      /\ Unleased(row, status, t).budget = row.budget
      /\ Unleased(row, status, t).attempts = row.attempts
  BY DEF Unleased, Row
<1> QED BY <1>4, <1>5, <1>6

(* Every event a row can have is one of these, and names these statuses.   *)
LEMMA EventStatus ==
  /\ Event = {"none", "created", "leased", "recovered", "attempts_exhausted",
              "retry", "retry_generation_reset", "cancelled"} \cup Reported
  /\ StatusAfter("none") = "absent"
  /\ StatusAfter("leased") = "running"
  /\ \A e \in {"created", "recovered", "retry", "retry_generation_reset"} :
       e \in Event /\ StatusAfter(e) = "queued"
  /\ StatusAfter("attempts_exhausted") = "failed_final"
  /\ StatusAfter("cancelled") = "cancelled"
  /\ \A e \in Reported : e \in Event /\ StatusAfter(e) = e
BY DEF Event, Reported, StatusAfter

(* An event recorded for a row.                                            *)
LEMMA LoggedEntry ==
  ASSUME NEW entry \in Trail, NEW event \in Event
  PROVE  /\ Logged(entry, event) \in Trail
         /\ Logged(entry, event).event = event
         /\ event = "leased" => Logged(entry, event).leases = entry.leases + 1
         /\ event = "retry_generation_reset" => Logged(entry, event).leases = 0
         /\ event \notin {"leased", "retry_generation_reset"} =>
              Logged(entry, event).leases = entry.leases
<1>1. entry.leases \in Nat
  BY DEF Trail
<1>2. CASE event = "leased"
  BY <1>1, <1>2 DEF Logged, Trail
<1>3. CASE event = "retry_generation_reset"
  BY <1>1, <1>3 DEF Logged, Trail
<1>4. CASE event \notin {"leased", "retry_generation_reset"}
  BY <1>1, <1>4 DEF Logged, Trail
<1> QED BY <1>2, <1>3, <1>4

(* Finalising a queued row, leasing it, extending its lease, returning it  *)
(* to the queue, and filling a new one.                                    *)
LEMMA ExhaustedRow ==
  ASSUME NEW row \in Row, NEW t \in Nat
  PROVE  /\ Exhausted(row, t) \in Row
         /\ Exhausted(row, t).status = "failed_final"
         /\ Exhausted(row, t).owner = row.owner
         /\ Exhausted(row, t).until = row.until
         /\ Exhausted(row, t).budget = row.budget
         /\ Exhausted(row, t).attempts = row.attempts
<1> DEFINE r1 == [row EXCEPT !.status = "failed_final"]
           r2 == [r1 EXCEPT !.updated = t]
<1>1. r1 \in Row BY SetColumn DEF Status, Terminal, Reported
<1>2. r2 \in Row BY <1>1, SetColumn
<1>3. Exhausted(row, t) = r2 BY DEF Exhausted
<1>4. /\ Exhausted(row, t).status = "failed_final"
      /\ Exhausted(row, t).owner = row.owner
      /\ Exhausted(row, t).until = row.until
      /\ Exhausted(row, t).budget = row.budget
      /\ Exhausted(row, t).attempts = row.attempts
  BY DEF Exhausted, Row
<1> QED BY <1>2, <1>3, <1>4

LEMMA LeasedRow ==
  ASSUME NEW row \in Row, NEW owner \in Owner, NEW t \in Nat
  PROVE  /\ Leased(row, owner, t) \in Row
         /\ Leased(row, owner, t).status = "running"
         /\ Leased(row, owner, t).owner = owner
         /\ Leased(row, owner, t).until = t + Lease
         /\ Leased(row, owner, t).budget = row.budget
         /\ Leased(row, owner, t).attempts = row.attempts + 1
<1> DEFINE r1 == [row EXCEPT !.status = "running"]
           r2 == [r1 EXCEPT !.attempts = row.attempts + 1]
           r3 == [r2 EXCEPT !.owner = owner]
           r4 == [r3 EXCEPT !.until = t + Lease]
           r5 == [r4 EXCEPT !.updated = t]
<1>1. row.attempts + 1 \in Nat /\ t + Lease \in Int
  BY QueueAssumption DEF QueueAssumption, Row
<1>2. r1 \in Row BY SetColumn DEF Status
<1>3. r2 \in Row BY <1>1, <1>2, SetColumn
<1>4. r3 \in Row BY <1>3, SetColumn
<1>5. r4 \in Row BY <1>1, <1>4, SetColumn
<1>6. r5 \in Row BY <1>5, SetColumn
<1>7. Leased(row, owner, t) = r5 BY DEF Leased, Row
<1>8. /\ Leased(row, owner, t).status = "running"
      /\ Leased(row, owner, t).owner = owner
      /\ Leased(row, owner, t).until = t + Lease
      /\ Leased(row, owner, t).budget = row.budget
      /\ Leased(row, owner, t).attempts = row.attempts + 1
  BY DEF Leased, Row
<1> QED BY <1>6, <1>7, <1>8

LEMMA ExtendedRow ==
  ASSUME NEW row \in Row, NEW t \in Nat
  PROVE  /\ Extended(row, t) \in Row
         /\ Extended(row, t).status = row.status
         /\ Extended(row, t).owner = row.owner
         /\ Extended(row, t).until = t + Lease
         /\ Extended(row, t).budget = row.budget
         /\ Extended(row, t).attempts = row.attempts
<1> DEFINE r1 == [row EXCEPT !.until = t + Lease]
           r2 == [r1 EXCEPT !.updated = t]
<1>1. t + Lease \in Int
  BY QueueAssumption DEF QueueAssumption
<1>2. r1 \in Row BY <1>1, SetColumn
<1>3. r2 \in Row BY <1>2, SetColumn
<1>4. Extended(row, t) = r2 BY DEF Extended
<1>5. /\ Extended(row, t).status = row.status
      /\ Extended(row, t).owner = row.owner
      /\ Extended(row, t).until = t + Lease
      /\ Extended(row, t).budget = row.budget
      /\ Extended(row, t).attempts = row.attempts
  BY DEF Extended, Row
<1> QED BY <1>3, <1>4, <1>5

LEMMA RequeuedRow ==
  ASSUME NEW row \in Row, NEW reset \in BOOLEAN, NEW t \in Nat
  PROVE  /\ Requeued(row, reset, t) \in Row
         /\ Requeued(row, reset, t).status = "queued"
         /\ Requeued(row, reset, t).owner = None
         /\ Requeued(row, reset, t).until = NoTime
         /\ Requeued(row, reset, t).budget = row.budget
         /\ Requeued(row, reset, t).attempts = IF reset THEN 0 ELSE row.attempts
<1> DEFINE r1 == Unleased(row, "queued", t)
           n  == IF reset THEN 0 ELSE row.attempts
<1>1. "queued" \in Status /\ n \in Nat
  BY DEF Status, Row
<1>2. /\ r1 \in Row /\ r1.status = "queued" /\ r1.owner = None
      /\ r1.until = NoTime /\ r1.budget = row.budget
      /\ r1.attempts = row.attempts
  BY <1>1, UnleasedRow
<1> HIDE DEF r1, n
<1>3. [r1 EXCEPT !.attempts = n] \in Row
  BY <1>1, <1>2, SetColumn
<1>4. Requeued(row, reset, t) = [r1 EXCEPT !.attempts = n]
  BY <1>2 DEF Requeued, r1, n
<1>5. r1 = [status |-> r1.status, key |-> r1.key, attempts |-> r1.attempts,
            budget |-> r1.budget, owner |-> r1.owner, until |-> r1.until,
            created |-> r1.created, updated |-> r1.updated]
  BY <1>2 DEF Row
<1>6. LET r == [r1 EXCEPT !.attempts = n] IN
      /\ r.status = r1.status /\ r.owner = r1.owner /\ r.until = r1.until
      /\ r.budget = r1.budget /\ r.attempts = n
  BY <1>2, <1>5 DEF Row
<1> QED BY <1>2, <1>3, <1>4, <1>6 DEF n

LEMMA CreatedRow ==
  ASSUME NEW key \in Key, NEW budget \in Budgets, NEW t \in Nat
  PROVE  /\ Created(key, budget, t) \in Row
         /\ Created(key, budget, t).status = "queued"
         /\ Created(key, budget, t).owner = None
         /\ Created(key, budget, t).until = NoTime
         /\ Created(key, budget, t).budget = budget
         /\ Created(key, budget, t).attempts = 0
<1> DEFINE r1 == [NoRow EXCEPT !.status = "queued"]
           r2 == [r1 EXCEPT !.key = key]
           r3 == [r2 EXCEPT !.budget = budget]
           r4 == [r3 EXCEPT !.created = t]
           r5 == [r4 EXCEPT !.updated = t]
<1>1. NoRow \in Row /\ budget \in Nat /\ "queued" \in Status
  BY QueueAssumption
     DEF QueueAssumption, NoRow, Row, NoTime, Status, Terminal, Reported
<1>2. r1 \in Row BY <1>1, SetColumn
<1>3. r2 \in Row BY <1>2, SetColumn
<1>4. r3 \in Row BY <1>1, <1>3, SetColumn
<1>5. r4 \in Row BY <1>4, SetColumn
<1>6. r5 \in Row BY <1>5, SetColumn
<1>7. Created(key, budget, t) = r5 BY DEF Created
<1>8. /\ Created(key, budget, t).status = "queued"
      /\ Created(key, budget, t).owner = None
      /\ Created(key, budget, t).until = NoTime
      /\ Created(key, budget, t).budget = budget
      /\ Created(key, budget, t).attempts = 0
  BY DEF Created, NoRow
<1> QED BY <1>6, <1>7, <1>8

(* The clock does not run backwards, and nothing else moves it.            *)
LEMMA ClockStep ==
  ASSUME TypeOK, [Next]_vars
  PROVE  now' \in Time /\ now \in Nat /\ now' \in Nat /\ now <= now'
<1>1. MaxTime \in Nat /\ now \in Nat
  BY QueueAssumption DEF QueueAssumption, TypeOK, Time
<1>2. CASE Tick
  BY <1>1, <1>2 DEF Tick, Time, TypeOK
<1>3. CASE now' = now
  BY <1>1, <1>3 DEF TypeOK
<1>4. ASSUME NEW c \in Client, ClientStep(c)
      PROVE  now' = now
  BY <1>4 DEF ClientStep, EnqueueLookup, EnqueueInsert, EnqueueConflict,
              SweepSelect, SweepUpdate, ReapSelect, ReapUpdate, LeaseNothing,
              LeaseJob, ReportBegin, ReportAccepted, ReportDiscarded,
              BeatBegin, BeatAccepted, BeatRefused, AbandonCall
<1>5. ASSUME OperatorStep
      PROVE  now' = now
  BY <1>5 DEF OperatorStep, Cancel, Retry
<1> QED BY <1>2, <1>3, <1>4, <1>5 DEF Next, vars
(* When a lease taken at t ends, seen from a later moment u.               *)
LEMMA LeaseEnd ==
  ASSUME NEW t \in Nat, NEW u \in Nat, t <= u
  PROVE  /\ NoTime \in Int /\ NoTime <= u + Lease
         /\ t + Lease \in Nat /\ t + Lease <= u + Lease /\ t + Lease # NoTime
         /\ \A until \in Int : until <= t + Lease => until <= u + Lease
<1>1. Lease \in Nat
  BY QueueAssumption DEF QueueAssumption
<1> QED BY <1>1 DEF NoTime

LEMMA Later ==
  ASSUME NEW t \in Nat, NEW u \in Nat, NEW v \in Nat, t <= u, u <= v
  PROVE  t <= v
OBVIOUS

(* RowInv is kept by each of the eight ways a row changes.                 *)
LEMMA RowInvStep ==
  ASSUME QueueInv, [Next]_vars, NEW j \in Job
  PROVE  RowInv(j)'
<1>1. TypeOK /\ RowInv(j)
  BY DEF QueueInv
<1>2. RowChange(j)
  BY <1>1, StepChange
<1>3. now \in Nat /\ now' \in Nat /\ now <= now' /\ Lease \in Nat
  BY <1>1, ClockStep, QueueAssumption DEF QueueAssumption
<1>4. jobs[j] \in Row /\ trail[j] \in Trail /\ trail[j].leases \in Nat
  BY <1>1 DEF RowInv, Trail
<1>5. None \notin Owner
  BY QueueAssumption DEF QueueAssumption
<1>6. NoTime \in Int /\ NoTime <= now' + Lease
  BY <1>3, LeaseEnd
<1>7. jobs[j].until \in Int /\ jobs[j].attempts \in Nat /\ jobs[j].budget \in Nat
  BY <1>4 DEF Row
<1>8. Status = {"absent", "queued", "running", "succeeded", "skipped",
                "failed_retryable", "failed_final", "cancelled"}
  BY DEF Status, Terminal, Reported
<1> USE DEF Becomes
<1>9. \A u \in Int : u <= now + Lease => u <= now' + Lease
  BY <1>3, LeaseEnd
<1>10. CASE RowKept(j)
  BY <1>1, <1>7, <1>9, <1>10 DEF RowKept, RowInv
<1>11. CASE RowCreated(j)
  <2>1. PICK k \in Key, b \in Budgets, t \in Nat :
          Becomes(j, Created(k, b, t), "created")
    BY <1>11 DEF RowCreated
  <2>2. /\ jobs'[j] \in Row
        /\ jobs'[j].status = "queued" /\ jobs'[j].owner = None
        /\ jobs'[j].until = NoTime /\ jobs'[j].attempts = 0
    BY <2>1, CreatedRow
  <2>3. /\ trail'[j] \in Trail /\ StatusAfter(trail'[j].event) = "queued"
        /\ trail'[j].leases = trail[j].leases
    <3>1. "created" \in Event /\ StatusAfter("created") = "queued"
      BY EventStatus
    <3> QED BY <2>1, <3>1, <1>4, LoggedEntry
  <2>4. jobs[j].attempts = 0 /\ trail[j].leases = 0
    BY <1>1, <1>11 DEF RowCreated, RowInv
  <2>5. jobs'[j].budget \in Nat
    BY <2>2 DEF Row
  <2> QED BY <1>6, <2>2, <2>3, <2>4, <2>5 DEF RowInv
<1>12. CASE RowRecovered(j)
  <2>1. PICK t \in Nat : Becomes(j, Unleased(jobs[j], "queued", t), "recovered")
    BY <1>12 DEF RowRecovered
  <2>2. /\ jobs'[j] \in Row
        /\ jobs'[j].status = "queued" /\ jobs'[j].owner = None
        /\ jobs'[j].until = NoTime /\ jobs'[j].budget = jobs[j].budget
        /\ jobs'[j].attempts = jobs[j].attempts
    <3>1. "queued" \in Status
      BY <1>8
    <3> QED BY <2>1, <3>1, <1>4, UnleasedRow
  <2>3. /\ trail'[j] \in Trail /\ StatusAfter(trail'[j].event) = "queued"
        /\ trail'[j].leases = trail[j].leases
    <3>1. "recovered" \in Event /\ StatusAfter("recovered") = "queued"
      BY EventStatus
    <3> QED BY <2>1, <3>1, <1>4, LoggedEntry
  <2> QED BY <1>1, <1>6, <2>2, <2>3 DEF RowInv
<1>13. CASE RowExhausted(j)
  <2>1. PICK t \in Nat : Becomes(j, Exhausted(jobs[j], t), "attempts_exhausted")
    BY <1>13 DEF RowExhausted
  <2>2. /\ jobs'[j] \in Row
        /\ jobs'[j].status = "failed_final" /\ jobs'[j].owner = jobs[j].owner
        /\ jobs'[j].until = jobs[j].until /\ jobs'[j].budget = jobs[j].budget
        /\ jobs'[j].attempts = jobs[j].attempts
    BY <2>1, <1>4, ExhaustedRow
  <2>3. /\ trail'[j] \in Trail
        /\ StatusAfter(trail'[j].event) = "failed_final"
        /\ trail'[j].leases = trail[j].leases
    <3>1. /\ "attempts_exhausted" \in Event
          /\ StatusAfter("attempts_exhausted") = "failed_final"
      BY EventStatus
    <3> QED BY <2>1, <3>1, <1>4, LoggedEntry
  <2>4. jobs[j].status = "queued" /\ jobs[j].owner = None /\ jobs[j].until = NoTime
    BY <1>1, <1>13 DEF RowExhausted, RowInv
  <2> QED BY <1>1, <1>6, <2>2, <2>3, <2>4 DEF RowInv
<1>14. CASE RowLeased(j)
  <2>1. PICK o \in Owner, t \in 0..now : Becomes(j, Leased(jobs[j], o, t), "leased")
    BY <1>14 DEF RowLeased
  <2>2. t \in Nat /\ t <= now
    BY <1>3
  <2>3. /\ jobs'[j] \in Row
        /\ jobs'[j].status = "running" /\ jobs'[j].owner = o
        /\ jobs'[j].until = t + Lease /\ jobs'[j].budget = jobs[j].budget
        /\ jobs'[j].attempts = jobs[j].attempts + 1
    BY <2>1, <2>2, <1>4, LeasedRow
  <2>4. /\ trail'[j] \in Trail /\ StatusAfter(trail'[j].event) = "running"
        /\ trail'[j].leases = trail[j].leases + 1
    <3>1. "leased" \in Event /\ StatusAfter("leased") = "running"
      BY EventStatus
    <3> QED BY <2>1, <3>1, <1>4, LoggedEntry
  <2>5. t + Lease # NoTime /\ t + Lease <= now' + Lease
    <3>1. /\ t + Lease \in Nat /\ t + Lease # NoTime
          /\ t + Lease <= now + Lease
      BY <1>3, <2>2, LeaseEnd
    <3> QED BY <1>9, <3>1
  <2>6. jobs[j].budget > 0 => jobs[j].attempts + 1 <= jobs[j].budget
    BY <1>7, <1>14 DEF RowLeased, BudgetSpent
  <2> QED BY <1>1, <1>5, <2>3, <2>4, <2>5, <2>6 DEF RowInv
<1>15. CASE RowReported(j)
  <2>1. PICK s \in Reported, t \in Nat : Becomes(j, Unleased(jobs[j], s, t), s)
    BY <1>15 DEF RowReported
  <2>2. /\ jobs'[j] \in Row
        /\ jobs'[j].status = s /\ jobs'[j].owner = None
        /\ jobs'[j].until = NoTime /\ jobs'[j].budget = jobs[j].budget
        /\ jobs'[j].attempts = jobs[j].attempts
    <3>1. s \in Status
      BY DEF Status, Terminal
    <3> QED BY <2>1, <3>1, <1>4, UnleasedRow
  <2>3. /\ trail'[j] \in Trail /\ StatusAfter(trail'[j].event) = s
        /\ trail'[j].leases = trail[j].leases
    <3>1. s \in Event /\ StatusAfter(s) = s
      BY EventStatus
    <3>2. s \notin {"leased", "retry_generation_reset"}
      BY DEF Reported
    <3> QED BY <2>1, <3>1, <3>2, <1>4, LoggedEntry
  <2>4. s \notin {"absent", "running"}
    BY DEF Reported
  <2> QED BY <1>1, <1>6, <2>2, <2>3, <2>4 DEF RowInv
<1>16. CASE RowExtended(j)
  <2>1. PICK t \in 0..now : jobs'[j] = Extended(jobs[j], t)
    BY <1>16 DEF RowExtended
  <2>2. t \in Nat /\ t <= now
    BY <1>3
  <2>3. /\ jobs'[j] \in Row
        /\ jobs'[j].status = jobs[j].status /\ jobs'[j].owner = jobs[j].owner
        /\ jobs'[j].until = t + Lease /\ jobs'[j].budget = jobs[j].budget
        /\ jobs'[j].attempts = jobs[j].attempts
    BY <2>1, <2>2, <1>4, ExtendedRow
  <2>4. t + Lease # NoTime /\ t + Lease <= now' + Lease
    <3>1. /\ t + Lease \in Nat /\ t + Lease # NoTime
          /\ t + Lease <= now + Lease
      BY <1>3, <2>2, LeaseEnd
    <3> QED BY <1>9, <3>1
  <2>5. trail'[j] = trail[j] /\ jobs[j].status = "running"
    BY <1>16 DEF RowExtended
  <2> QED BY <1>1, <2>3, <2>4, <2>5 DEF RowInv
<1>17. CASE RowRetried(j)
  <2>1. PICK reset \in BOOLEAN, t \in Nat :
          Becomes(j, Requeued(jobs[j], reset, t),
                  IF reset THEN "retry_generation_reset" ELSE "retry")
    BY <1>17 DEF RowRetried
  <2>2. /\ jobs'[j] \in Row
        /\ jobs'[j].status = "queued" /\ jobs'[j].owner = None
        /\ jobs'[j].until = NoTime /\ jobs'[j].budget = jobs[j].budget
        /\ jobs'[j].attempts = IF reset THEN 0 ELSE jobs[j].attempts
    BY <2>1, <1>4, RequeuedRow
  <2>3. /\ trail'[j] \in Trail /\ StatusAfter(trail'[j].event) = "queued"
        /\ trail'[j].leases = IF reset THEN 0 ELSE trail[j].leases
    <3>1. /\ "retry" \in Event /\ StatusAfter("retry") = "queued"
          /\ "retry_generation_reset" \in Event
          /\ StatusAfter("retry_generation_reset") = "queued"
      BY EventStatus
    <3>2. CASE reset
      BY <2>1, <3>1, <3>2, <1>4, LoggedEntry
    <3>3. CASE ~reset
      BY <2>1, <3>1, <3>3, <1>4, LoggedEntry
    <3> QED BY <3>2, <3>3
  <2>4. CASE reset
    BY <1>1, <1>6, <1>7, <2>2, <2>3, <2>4 DEF RowInv
  <2>5. CASE ~reset
    BY <1>1, <1>6, <1>7, <2>2, <2>3, <2>5 DEF RowInv
  <2> QED BY <2>4, <2>5
<1>18. CASE RowCancelled(j)
  <2>1. PICK t \in Nat : Becomes(j, Unleased(jobs[j], "cancelled", t), "cancelled")
    BY <1>18 DEF RowCancelled
  <2>2. /\ jobs'[j] \in Row
        /\ jobs'[j].status = "cancelled" /\ jobs'[j].owner = None
        /\ jobs'[j].until = NoTime /\ jobs'[j].budget = jobs[j].budget
        /\ jobs'[j].attempts = jobs[j].attempts
    <3>1. "cancelled" \in Status
      BY <1>8
    <3> QED BY <2>1, <3>1, <1>4, UnleasedRow
  <2>3. /\ trail'[j] \in Trail /\ StatusAfter(trail'[j].event) = "cancelled"
        /\ trail'[j].leases = trail[j].leases
    <3>1. "cancelled" \in Event /\ StatusAfter("cancelled") = "cancelled"
      BY EventStatus
    <3> QED BY <2>1, <3>1, <1>4, LoggedEntry
  <2> QED BY <1>1, <1>6, <2>2, <2>3 DEF RowInv
<1> QED BY <1>2, <1>10, <1>11, <1>12, <1>13, <1>14, <1>15, <1>16, <1>17, <1>18
        DEF RowChange, RowNotLeased
-----------------------------------------------------------------------------
(* Types of what is not a row.                                             *)

(* The tables are functions over Job after every step.                     *)
LEMMA TableShape ==
  ASSUME TypeOK, [Next]_vars
  PROVE  /\ jobs' = [j \in Job |-> jobs'[j]]
         /\ trail' = [j \in Job |-> trail'[j]]
<1>1. ASSUME NEW rows, NEW events, Write(rows, events)
      PROVE  /\ jobs' = [j \in Job |-> jobs'[j]]
             /\ trail' = [j \in Job |-> trail'[j]]
  BY <1>1 DEF Write
<1>2. ASSUME jobs' = jobs, trail' = trail
      PROVE  /\ jobs' = [j \in Job |-> jobs'[j]]
             /\ trail' = [j \in Job |-> trail'[j]]
  BY <1>2 DEF TypeOK
<1>3. ASSUME NEW c \in Client, ClientStep(c)
      PROVE  /\ jobs' = [j \in Job |-> jobs'[j]]
             /\ trail' = [j \in Job |-> trail'[j]]
  <2>1. CASE \/ EnqueueInsert(c) \/ SweepUpdate(c) \/ ReapUpdate(c)
             \/ LeaseNothing(c) \/ (\E j \in Job : LeaseJob(c, j))
             \/ ReportAccepted(c)
    BY <1>1, <2>1 DEF EnqueueInsert, SweepUpdate, ReapUpdate, LeaseNothing,
                      LeaseJob, ReportAccepted, WriteOne
  <2>2. CASE BeatAccepted(c)
    BY <2>2 DEF BeatAccepted, TypeOK
  <2>3. CASE \/ \E k \in Key, b \in Budgets : EnqueueLookup(c, k, b)
             \/ EnqueueConflict(c)
             \/ \E o \in Owner \cup {None} : SweepSelect(c, o)
             \/ \E dead \in SUBSET Owner : ReapSelect(c, dead)
             \/ \E token \in granted, out \in Outcome : ReportBegin(c, token, out)
             \/ ReportDiscarded(c)
             \/ \E token \in granted : BeatBegin(c, token)
             \/ BeatRefused(c)
             \/ AbandonCall(c)
    <3>1. jobs' = jobs /\ trail' = trail
      BY <2>3 DEF EnqueueLookup, EnqueueConflict, SweepSelect, ReapSelect,
                  ReportBegin, ReportDiscarded, BeatBegin, BeatRefused,
                  AbandonCall
    <3> QED BY <3>1, <1>2
  <2> QED BY <1>3, <2>1, <2>2, <2>3 DEF ClientStep
<1>4. CASE OperatorStep
  BY <1>1, <1>4 DEF OperatorStep, Retry, Cancel, WriteOne
<1>5. CASE Tick \/ UNCHANGED vars
  BY <1>2, <1>5 DEF Tick, vars
<1> QED BY <1>3, <1>4, <1>5 DEF Next

(* lease_next hands out tokens of existing jobs, owners and attempts.      *)
LEMMA GrantedStep ==
  ASSUME TypeOK, [Next]_vars
  PROVE  granted' \subseteq Token
<1>1. granted \subseteq Token
  BY DEF TypeOK
<1>2. ASSUME NEW c \in Client, NEW j \in Job, LeaseJob(c, j)
      PROVE  granted' \subseteq Token
  <2>1. calls[c].owner \in Owner
    BY <1>2, CallFields DEF TypeOK, LeaseJob, ClaimCall
  <2>2. jobs[j].attempts + 1 \in Nat
    BY DEF TypeOK, Row
  <2>3. [job |-> j, owner |-> calls[c].owner,
         attempt |-> jobs[j].attempts + 1] \in Token
    BY <2>1, <2>2 DEF Token
  <2> QED BY <1>1, <1>2, <2>3 DEF LeaseJob
<1>3. ASSUME NEW c \in Client, ClientStep(c), ~(\E j \in Job : LeaseJob(c, j))
      PROVE  granted' = granted
  BY <1>3 DEF ClientStep, EnqueueLookup, EnqueueInsert, EnqueueConflict,
              SweepSelect, SweepUpdate, ReapSelect, ReapUpdate, LeaseNothing,
              ReportBegin, ReportAccepted, ReportDiscarded,
              BeatBegin, BeatAccepted, BeatRefused, AbandonCall
<1>4. ASSUME OperatorStep \/ Tick \/ UNCHANGED vars
      PROVE  granted' = granted
  BY <1>4 DEF OperatorStep, Cancel, Retry, Tick, vars
<1> QED BY <1>1, <1>2, <1>3, <1>4 DEF Next
(* The row a report or a heartbeat is for, and what a report may ask.      *)
LEMMA ReportStatus ==
  ASSUME NEW out \in Outcome, NEW row
  PROVE  StatusFor(out, row) \in Reported
BY DEF StatusFor, Outcome, Reported

(* A call that begins is of its kind; a sweep reads the clock at once, a   *)
(* lease or a heartbeat not before it begins.                              *)
CallBegun(call) ==
  /\ call \in Call
  /\ call.op = "sweep" => call.time = now
  /\ call.op \in {"claim", "beat"} => call.since = now

LEMMA CallStep ==
  ASSUME TypeOK, NEW c \in Client, ClientStep(c)
  PROVE  \E call : CallBegun(call) /\ calls' = [calls EXCEPT ![c] = call]
<1>1. now \in Nat
  BY QueueAssumption DEF QueueAssumption, TypeOK, Time
<1>2. CallBegun(Idle)
  BY DEF CallBegun, Idle, Call, IdleCall
<1>3. CASE \/ EnqueueInsert(c) \/ EnqueueConflict(c) \/ ReapUpdate(c)
           \/ LeaseNothing(c) \/ (\E j \in Job : LeaseJob(c, j))
           \/ ReportAccepted(c) \/ ReportDiscarded(c) \/ BeatAccepted(c)
           \/ BeatRefused(c) \/ AbandonCall(c)
  BY <1>2, <1>3 DEF EnqueueInsert, EnqueueConflict, ReapUpdate, LeaseNothing,
                    LeaseJob, ReportAccepted, ReportDiscarded, BeatAccepted,
                    BeatRefused, AbandonCall, Leave
<1>4. ASSUME NEW k \in Key, NEW b \in Budgets, EnqueueLookup(c, k, b)
      PROVE  \E call : CallBegun(call) /\ calls' = [calls EXCEPT ![c] = call]
  <2> DEFINE call == [op |-> "insert", key |-> k, budget |-> b, time |-> now]
  <2>1. call \in InsertCall
    BY <1>1 DEF InsertCall
  <2>2. CallBegun(call)
    BY <2>1 DEF CallBegun, Call
  <2> QED BY <1>4, <2>2 DEF EnqueueLookup, Enter
<1>5. ASSUME NEW o \in Owner \cup {None}, SweepSelect(c, o)
      PROVE  \E call : CallBegun(call) /\ calls' = [calls EXCEPT ![c] = call]
  <2> DEFINE call == [op |-> "sweep", ids |-> {j \in Job : Expired(j, now)},
                      time |-> now, owner |-> o]
  <2>1. call \in SweepCall
    BY <1>1 DEF SweepCall
  <2>2. CallBegun(call)
    BY <2>1 DEF CallBegun, Call
  <2> QED BY <1>5, <2>2 DEF SweepSelect, Enter
<1>6. CASE SweepUpdate(c)
  <2> DEFINE call == [op |-> "claim", owner |-> calls[c].owner, since |-> now]
  <2>1. calls[c] \in SweepCall
    BY <1>6, CallFields DEF TypeOK, SweepUpdate
  <2>2. calls[c].owner # None => calls[c].owner \in Owner
    BY <2>1 DEF SweepCall
  <2>3. calls[c].owner # None => CallBegun(call)
    BY <1>1, <2>2 DEF CallBegun, Call, ClaimCall
  <2> QED BY <1>2, <1>6, <2>3 DEF SweepUpdate
<1>7. ASSUME NEW dead \in SUBSET Owner, ReapSelect(c, dead)
      PROVE  \E call : CallBegun(call) /\ calls' = [calls EXCEPT ![c] = call]
  <2> DEFINE seen == {[job |-> j, owner |-> jobs[j].owner,
                       updated |-> jobs[j].updated] :
                        j \in {i \in Job : /\ jobs[i].status = "running"
                                           /\ jobs[i].owner \in dead}}
             call == [op |-> "reap", time |-> now, seen |-> seen]
  <2>1. seen \subseteq [job : Job, owner : Owner, updated : Nat]
    BY DEF TypeOK, Row
  <2>2. call \in ReapCall
    BY <1>1, <2>1 DEF ReapCall
  <2>3. CallBegun(call)
    BY <2>2 DEF CallBegun, Call
  <2> QED BY <1>7, <2>3 DEF ReapSelect, Enter
<1>8. ASSUME NEW token \in granted, NEW out \in Outcome, ReportBegin(c, token, out)
      PROVE  \E call : CallBegun(call) /\ calls' = [calls EXCEPT ![c] = call]
  <2> DEFINE status == StatusFor(out, jobs[token.job])
             call == [op |-> "report", token |-> token, status |-> status,
                      since |-> now]
  <2>1. status \in Reported /\ token \in Token
    BY ReportStatus DEF TypeOK
  <2> HIDE DEF status
  <2>2. call \in ReportCall
    BY <1>1, <2>1 DEF ReportCall
  <2>3. CallBegun(call)
    BY <2>2 DEF CallBegun, Call
  <2> QED BY <1>8, <2>3 DEF ReportBegin, Enter, status
<1>9. ASSUME NEW token \in granted, BeatBegin(c, token)
      PROVE  \E call : CallBegun(call) /\ calls' = [calls EXCEPT ![c] = call]
  <2> DEFINE call == [op |-> "beat", token |-> token, since |-> now]
  <2>1. token \in Token
    BY DEF TypeOK
  <2>2. call \in BeatCall
    BY <1>1, <2>1 DEF BeatCall
  <2>3. CallBegun(call)
    BY <2>2 DEF CallBegun, Call
  <2> QED BY <1>9, <2>3 DEF BeatBegin, Enter
<1> QED BY <1>3, <1>4, <1>5, <1>6, <1>7, <1>8, <1>9 DEF ClientStep
LEMMA CallsStep ==
  ASSUME TypeOK, SweepInPast, [Next]_vars
  PROVE  calls' \in [Client -> Call] /\ SweepInPast'
<1>1. now \in Nat /\ now' \in Nat /\ now <= now'
  BY ClockStep
<1>2. calls \in [Client -> Call]
  BY DEF TypeOK
<1>3. CASE calls' = calls
  <2>1. ASSUME NEW c \in Client, calls'[c].op = "sweep"
        PROVE  calls'[c].time <= now'
    <3>1. calls[c] \in SweepCall /\ calls[c].time <= now
      BY <1>2, <1>3, <2>1, CallFields DEF SweepInPast
    <3>2. calls[c].time \in Nat
      BY <3>1 DEF SweepCall
    <3> QED BY <1>1, <1>3, <3>1, <3>2, Later
  <2> QED BY <1>2, <1>3, <2>1 DEF SweepInPast
<1>4. ASSUME NEW c \in Client, ClientStep(c)
      PROVE  calls' \in [Client -> Call] /\ SweepInPast'
  <2>1. PICK call : CallBegun(call) /\ calls' = [calls EXCEPT ![c] = call]
    BY <1>4, CallStep
  <2>2. calls' \in [Client -> Call]
    BY <1>2, <2>1 DEF CallBegun
  <2>3. ASSUME NEW d \in Client, calls'[d].op = "sweep"
        PROVE  calls'[d].time <= now'
    <3>1. CASE d = c
      BY <1>1, <1>2, <2>1, <2>3, <3>1 DEF CallBegun
    <3>2. CASE d # c
      <4>1. calls[d] = calls'[d]
        BY <1>2, <2>1, <3>2
      <4>2. calls[d] \in SweepCall /\ calls[d].time <= now
        BY <1>2, <2>3, <4>1, CallFields DEF SweepInPast
      <4>3. calls[d].time \in Nat
        BY <4>2 DEF SweepCall
      <4> QED BY <1>1, <4>1, <4>2, <4>3, Later
    <3> QED BY <3>1, <3>2
  <2> QED BY <2>2, <2>3 DEF SweepInPast
<1>5. ASSUME OperatorStep \/ Tick \/ UNCHANGED vars
      PROVE  calls' = calls
  BY <1>5 DEF OperatorStep, Cancel, Retry, Tick, vars
<1> QED BY <1>3, <1>4, <1>5 DEF Next

-----------------------------------------------------------------------------
(* The inductive invariant holds.                                          *)

LEMMA QueueInvInit == Init => QueueInv
<1> SUFFICES ASSUME Init PROVE QueueInv
  OBVIOUS
<1>1. NoRow \in Row
  BY DEF NoRow, Row, NoTime, Status
<1>2. [event |-> "none", leases |-> 0] \in Trail /\ StatusAfter("none") = "absent"
  BY EventStatus DEF Trail
<1>3. /\ now = 0 /\ now \in Time /\ calls \in [Client -> Call]
      /\ \A c \in Client : calls[c].op = "idle"
  BY QueueAssumption
     DEF QueueAssumption, Init, Time, Idle, Call, IdleCall
<1>4. TypeOK
  BY <1>1, <1>2, <1>3 DEF Init, TypeOK
<1>5. NoTime <= now + Lease
  BY <1>3, LeaseEnd
<1>6. ASSUME NEW j \in Job
      PROVE  RowInv(j)
  BY <1>1, <1>2, <1>5 DEF Init, RowInv, NoRow
<1>7. SweepInPast
  BY <1>3 DEF SweepInPast
<1> QED BY <1>4, <1>6, <1>7 DEF QueueInv

LEMMA QueueInvStep == QueueInv /\ [Next]_vars => QueueInv'
<1> SUFFICES ASSUME QueueInv, [Next]_vars PROVE QueueInv'
  OBVIOUS
<1>1. TypeOK /\ SweepInPast
  BY DEF QueueInv
<1>2. \A j \in Job : RowInv(j)'
  BY RowInvStep
<1>3. /\ jobs' = [j \in Job |-> jobs'[j]]
      /\ trail' = [j \in Job |-> trail'[j]]
  BY <1>1, TableShape
<1>4. jobs' \in [Job -> Row] /\ trail' \in [Job -> Trail]
  <2>1. \A j \in Job : jobs'[j] \in Row /\ trail'[j] \in Trail
    BY <1>2 DEF RowInv
  <2> QED BY <1>3, <2>1
<1>5. granted' \subseteq Token /\ now' \in Time
  BY <1>1, GrantedStep, ClockStep
<1>6. calls' \in [Client -> Call] /\ SweepInPast'
  BY <1>1, CallsStep
<1> QED BY <1>2, <1>4, <1>5, <1>6 DEF QueueInv, TypeOK

LEMMA QueueInvariant == Spec => []QueueInv
BY QueueInvInit, QueueInvStep, PTL DEF Spec
-----------------------------------------------------------------------------
(* The properties.                                                         *)

(* Whatever calls the threads of any number of processes make, and in      *)
(* whatever order they commit, the table keeps the types of its columns.   *)
THEOREM TypeCorrect == Spec => []TypeOK
<1>1. QueueInv => TypeOK
  BY DEF QueueInv
<1> QED BY <1>1, QueueInvariant, PTL

(* Exactly the running rows carry an owner and an expiry.                  *)
THEOREM LeaseFieldsAlwaysAgree == Spec => []LeaseFieldsAgree
<1>1. QueueInv => LeaseFieldsAgree
  BY DEF QueueInv, RowInv, LeaseFieldsAgree
<1> QED BY <1>1, QueueInvariant, PTL

(* No schedule of crashes, expiries and retries without a reset runs a job *)
(* more often than its budget.                                             *)
THEOREM BudgetAlwaysKept == Spec => []BudgetKept
<1>1. QueueInv => BudgetKept
  BY DEF QueueInv, RowInv, BudgetKept
<1> QED BY <1>1, QueueInvariant, PTL

(* No lease reaches further than one lease time into the future.           *)
THEOREM LeaseAlwaysBounded == Spec => []LeaseBounded
<1>1. QueueInv => LeaseBounded
  BY DEF QueueInv, RowInv, LeaseBounded
<1> QED BY <1>1, QueueInvariant, PTL

(* The events written with the rows replay to them.                        *)
THEOREM AuditTrailAlwaysReplays == Spec => []AuditTrailReplays
<1>1. QueueInv => AuditTrailReplays
  BY DEF QueueInv, RowInv, AuditTrailReplays
<1> QED BY <1>1, QueueInvariant, PTL

(* The two together: the log and the rows tell one story, within budget.   *)
THEOREM TrailWithinBudgetAlways == Spec => []TrailWithinBudget
<1>1. AuditTrailReplays /\ BudgetKept => TrailWithinBudget
  BY DEF TrailWithinBudget
<1> QED BY <1>1, AuditTrailAlwaysReplays, BudgetAlwaysKept, PTL

(* A settled job is moved by the operator only.                            *)
THEOREM SettledAlwaysStaysSettled == Spec => SettledStaysSettled
<1>1. ASSUME TypeOK, [Next]_vars, NEW j \in Job,
             jobs[j].status \in Terminal, jobs'[j] # jobs[j]
      PROVE  \/ /\ trail'[j].event \in {"retry", "retry_generation_reset"}
                /\ jobs[j].status # "succeeded"
             \/ /\ trail'[j].event = "cancelled"
                /\ jobs[j].status \in {"skipped", "failed_retryable"}
  <2>1. RowChange(j)
    BY <1>1, StepChange
  <2>2. jobs[j].status \notin {"absent", "queued", "running"}
    BY <1>1 DEF Terminal, Reported
  <2>3. RowRetried(j) \/ RowCancelled(j)
    BY <1>1, <2>1, <2>2 DEF RowChange, RowNotLeased, RowKept, RowCreated, RowRecovered,
       RowExhausted, RowLeased, RowReported, RowExtended
  <2>4. trail[j] \in Trail
    BY <1>1 DEF TypeOK
  <2>5. CASE RowRetried(j)
    <3>1. PICK reset \in BOOLEAN, t \in Nat :
            Becomes(j, Requeued(jobs[j], reset, t),
                    IF reset THEN "retry_generation_reset" ELSE "retry")
      BY <2>5 DEF RowRetried
    <3>2. "retry" \in Event /\ "retry_generation_reset" \in Event
      BY EventStatus
    <3>3. trail'[j].event = IF reset THEN "retry_generation_reset" ELSE "retry"
      BY <2>4, <3>1, <3>2, LoggedEntry DEF Becomes
    <3> QED BY <2>5, <3>3 DEF RowRetried
  <2>6. CASE RowCancelled(j)
    <3>1. "cancelled" \in Event
      BY EventStatus
    <3>2. trail'[j].event = "cancelled"
      BY <2>4, <2>6, <3>1, LoggedEntry DEF RowCancelled, Becomes
    <3> QED BY <2>2, <2>6, <3>2 DEF RowCancelled
  <2> QED BY <2>3, <2>5, <2>6
<1>2. TypeOK /\ [Next]_vars =>
        [\A j \in Job :
           (jobs[j].status \in Terminal /\ jobs'[j] # jobs[j]) =>
             \/ /\ trail'[j].event \in {"retry", "retry_generation_reset"}
                /\ jobs[j].status # "succeeded"
             \/ /\ trail'[j].event = "cancelled"
                /\ jobs[j].status \in {"skipped", "failed_retryable"}]_vars
  BY <1>1
<1> QED BY <1>2, TypeCorrect, PTL DEF Spec, SettledStaysSettled
(* What LiveLeaseKept says of one job in one step of one thread.           *)
TakenBy(c, j) ==
  /\ ReportAccepted(c) \/ BeatAccepted(c)
  /\ calls[c].token = [job |-> j, owner |-> jobs[j].owner,
                       attempt |-> jobs[j].attempts]

TakenAsOrphan(c, j) ==
  /\ ReapUpdate(c)
  /\ [job |-> j, owner |-> jobs[j].owner, updated |-> jobs[j].updated]
       \in calls[c].seen

(* An accepted report or heartbeat presents the lease the row holds.       *)
LEMMA HeldToken ==
  ASSUME NEW token \in Token, NEW t, LeaseHeld(token, t)
  PROVE  token = [job |-> token.job, owner |-> jobs[token.job].owner,
                  attempt |-> jobs[token.job].attempts]
BY DEF Token, LeaseHeld

LEMMA LiveRowTaken ==
  ASSUME QueueInv, NEW c \in Client, ClientStep(c), NEW j \in Job,
         jobs[j].status = "running", jobs[j].until >= now, jobs'[j] # jobs[j]
  PROVE  TakenBy(c, j) \/ TakenAsOrphan(c, j)
<1>0. TypeOK /\ SweepInPast
  BY DEF QueueInv
<1>1. CASE EnqueueInsert(c)
  <2>1. PICK i \in Job :
          /\ ~Present(i)
          /\ WriteOne(i, Created(calls[c].key, calls[c].budget, calls[c].time),
                      "created")
    BY <1>1 DEF EnqueueInsert
  <2> QED BY <2>1, WriteOneRow DEF Present, RowKept
<1>2. CASE SweepUpdate(c)
  <2> DEFINE ids == Matched(calls[c].ids, calls[c].time)
  <2>1. Write([i \in ids |-> Unleased(jobs[i], "queued", calls[c].time)],
              [i \in ids |-> "recovered"])
    BY <1>2 DEF SweepUpdate
  <2>2. j \in ids
    BY <2>1, WriteRow DEF RowKept
  <2>3. jobs[j].until < calls[c].time
    BY <2>2 DEF Matched, Expired
  <2>4. calls[c] \in SweepCall /\ calls[c].time <= now
    BY <1>0, <1>2, CallFields DEF TypeOK, SweepUpdate, SweepInPast
  <2>5. calls[c].time \in Nat /\ now \in Nat /\ jobs[j].until \in Int
    BY <1>0, <2>4, QueueAssumption
       DEF QueueAssumption, SweepCall, TypeOK, Time, Row
  <2> QED BY <2>3, <2>4, <2>5
<1>3. CASE ReapUpdate(c)
  <2> DEFINE ids == {i \in Job :
                       /\ jobs[i].status = "running"
                       /\ [job |-> i, owner |-> jobs[i].owner,
                           updated |-> jobs[i].updated] \in calls[c].seen}
  <2>1. Write([i \in ids |-> Unleased(jobs[i], "queued", calls[c].time)],
              [i \in ids |-> "recovered"])
    BY <1>3 DEF ReapUpdate
  <2>2. j \in ids
    BY <2>1, WriteRow DEF RowKept
  <2> QED BY <1>3, <2>2 DEF ReapUpdate, TakenAsOrphan
<1>4. CASE LeaseNothing(c)
  <2>1. j \notin Spent
    BY DEF Spent, Queued
  <2> QED BY <1>4, <2>1, WriteRow DEF LeaseNothing, RowKept
<1>5. ASSUME NEW i \in Job, LeaseJob(c, i)
      PROVE  FALSE
  <2>1. j \notin Spent \cup {i}
    BY <1>5 DEF LeaseJob, Oldest, Spent, Queued
  <2> QED BY <1>5, <2>1, WriteRow DEF LeaseJob, RowKept
<1>6. CASE ReportAccepted(c)
  <2> DEFINE token == calls[c].token
  <2>1. token \in Token
    BY <1>0, <1>6, CallFields DEF TypeOK, ReportAccepted, ReportCall
  <2>2. PICK t \in calls[c].since .. now :
          /\ LeaseHeld(token, t)
          /\ WriteOne(token.job,
                      Unleased(jobs[token.job], calls[c].status, t),
                      calls[c].status)
    BY <1>6 DEF ReportAccepted
  <2>3. j = token.job
    BY <2>2, WriteOneRow DEF RowKept
  <2>4. token = [job |-> j, owner |-> jobs[j].owner,
                 attempt |-> jobs[j].attempts]
    BY <2>1, <2>2, <2>3, HeldToken
  <2> QED BY <1>6, <2>4 DEF ReportAccepted, TakenBy
<1>7. CASE BeatAccepted(c)
  <2> DEFINE token == calls[c].token
  <2>1. token \in Token
    BY <1>0, <1>7, CallFields DEF TypeOK, BeatAccepted, BeatCall
  <2>2. PICK t \in calls[c].since .. now :
          /\ LeaseHeld(token, t)
          /\ jobs' = [jobs EXCEPT ![token.job] = Extended(@, t)]
    BY <1>7 DEF BeatAccepted
  <2>3. j = token.job
    BY <2>2
  <2>4. token = [job |-> j, owner |-> jobs[j].owner,
                 attempt |-> jobs[j].attempts]
    BY <2>1, <2>2, <2>3, HeldToken
  <2> QED BY <1>7, <2>4 DEF BeatAccepted, TakenBy
<1>8. CASE jobs' = jobs
  BY <1>8
<1> QED
  BY <1>1, <1>2, <1>3, <1>4, <1>5, <1>6, <1>7, <1>8
     DEF ClientStep, EnqueueLookup, EnqueueConflict, SweepSelect, ReapSelect,
         ReportBegin, ReportDiscarded, BeatBegin, BeatRefused, AbandonCall

LEMMA LiveLeaseStep ==
  ASSUME QueueInv, [Next]_vars, NEW j \in Job, jobs[j].status = "running",
         jobs[j].until >= now, jobs'[j] # jobs[j]
  PROVE  \E c \in Client : TakenBy(c, j) \/ TakenAsOrphan(c, j)
<1>1. ASSUME NEW c \in Client, ClientStep(c)
      PROVE  TakenBy(c, j) \/ TakenAsOrphan(c, j)
  BY <1>1, LiveRowTaken
<1>2. ASSUME OperatorStep
      PROVE  FALSE
  <2>1. PICK i \in Job : Cancel(i) \/ \E reset \in BOOLEAN : Retry(i, reset)
    BY <1>2 DEF OperatorStep
  <2>2. i # j
    BY <2>1 DEF Cancel, Retry, Terminal, Reported
  <2> QED BY <2>1, <2>2, WriteOneRow DEF Cancel, Retry, RowKept
<1>3. CASE Tick \/ UNCHANGED vars
  BY <1>3 DEF Tick, vars
<1> QED BY <1>1, <1>2, <1>3 DEF Next

(* Nobody takes a job from an owner whose lease has not expired, but the   *)
(* orphan sweep.                                                           *)
THEOREM LiveLeaseAlwaysKept == Spec => LiveLeaseKept
<1>1. QueueInv /\ [Next]_vars =>
        [\A j \in Job :
           LET row == jobs[j] IN
           (row.status = "running" /\ row.until >= now /\ jobs'[j] # row) =>
             \/ \E c \in Client :
                  /\ calls[c].op \in {"report", "beat"}
                  /\ calls[c].token = [job |-> j, owner |-> row.owner,
                                       attempt |-> row.attempts]
             \/ \E c \in Client :
                  /\ calls[c].op = "reap"
                  /\ [job |-> j, owner |-> row.owner, updated |-> row.updated]
                        \in calls[c].seen]_vars
  BY LiveLeaseStep DEF TakenBy, TakenAsOrphan, ReportAccepted, BeatAccepted,
                       ReapUpdate
<1> QED BY <1>1, QueueInvariant, PTL DEF Spec, LiveLeaseKept

(* The key of a row is set when the row is created and never again.        *)
LEMMA KeyKept ==
  ASSUME TypeOK, NEW j \in Job, RowChange(j), ~RowCreated(j)
  PROVE  jobs'[j].key = jobs[j].key /\ (Present(j)' => Present(j))
<1>1. jobs[j] \in Row
  BY DEF TypeOK
<1>2. CASE RowKept(j)
  BY <1>2 DEF RowKept, Present
<1>3. CASE ~RowKept(j)
  <2>1. Present(j)
    BY <1>3 DEF RowChange, RowNotLeased, RowRecovered, RowExhausted, RowLeased, RowReported,
                RowExtended, RowRetried, RowCancelled, Present, Terminal, Reported
  <2>2. jobs'[j].key = jobs[j].key
    BY <1>1, <1>3 DEF RowChange, RowNotLeased, RowRecovered, RowExhausted, RowLeased,
       RowReported, RowExtended, RowRetried, RowCancelled, Becomes, Unleased,
       Exhausted, Leased, Extended, Requeued, Row
  <2> QED BY <2>1, <2>2
<1> QED BY <1>2, <1>3
(* Racing enqueues of one document version leave one row, however many     *)
(* threads of however many processes race.                                 *)
THEOREM OneRowPerKeyAlways == Spec => []OneRowPerKey
<1>1. Init => OneRowPerKey
  BY DEF Init, OneRowPerKey, Present, NoRow
<1>2. TypeOK /\ OneRowPerKey /\ [Next]_vars => OneRowPerKey'
  <2> SUFFICES ASSUME TypeOK, OneRowPerKey, [Next]_vars,
                      NEW i \in Job, NEW j \in Job, Present(i)', Present(j)',
                      jobs'[i].key = jobs'[j].key
               PROVE  i = j
    BY DEF OneRowPerKey
  <2>1. \A k \in Job : RowChange(k)
    BY StepChange
  <2>2. ASSUME NEW k \in Job, NEW l \in Job, RowCreated(k), k # l,
               Present(l)', jobs'[k].key = jobs'[l].key
        PROVE  FALSE
    <3>1. PICK key \in Key, b \in Budgets, t \in Nat :
            ~HasKey(key) /\ Becomes(k, Created(key, b, t), "created")
      BY <2>2 DEF RowCreated
    <3>2. jobs'[k].key = key
      BY <3>1 DEF Becomes, Created, NoRow
    <3>3. jobs'[l] = jobs[l]
      BY <2>2 DEF RowCreated, RowKept
    <3> QED BY <2>2, <3>1, <3>2, <3>3 DEF HasKey, Present
  <2>3. CASE RowCreated(i) \/ RowCreated(j)
    BY <2>2, <2>3
  <2>4. CASE ~RowCreated(i) /\ ~RowCreated(j)
    <3>1. Present(i) /\ Present(j) /\ jobs[i].key = jobs[j].key
      BY <2>1, <2>4, KeyKept
    <3> QED BY <3>1 DEF OneRowPerKey
  <2> QED BY <2>3, <2>4
<1> QED BY <1>1, <1>2, TypeCorrect, PTL DEF Spec

-----------------------------------------------------------------------------
(* The inductive invariant.                                                *)

Holding == {"granted", "probing", "working", "writing", "reporting", "failing"}

(* A running row's lease has been granted, to a worker.                    *)
LeasesGranted ==
  \A j \in Job : jobs[j].status = "running" =>
    [job |-> j, owner |-> jobs[j].owner, attempt |-> jobs[j].attempts] \in granted
OwnersWork == \A j \in Job : jobs[j].owner \in Worker \cup {None}

(* The calls of a worker's two threads are the ones its place requires.    *)
CallsOf(w) ==
  LET k == work[w]
      main == calls[Main(w)]
  IN
  /\ k.pc = "leasing" => main.op \in {"sweep", "claim"} /\ main.owner = w
  /\ k.pc = "probing" => main.op = "beat" /\ main.token = k.token
  /\ k.pc = "reporting" => main.op = "report" /\ main.token = k.token
  /\ k.pc = "failing" =>
       main = Idle \/ (main.op = "report" /\ main.token = k.token)
  /\ k.pc \notin {"leasing", "probing", "reporting", "failing"} => main = Idle
  /\ beat[w].pc = "sending" => calls[Beat(w)].op = "beat"
  /\ beat[w].pc # "sending" => calls[Beat(w)] = Idle

(* What it holds: a token that was granted, and a heartbeat thread that has *)
(* stopped once the lease is lost, after which only the writes are left    *)
(* that the last look at the flag covers.                                  *)
HoldsOf(w) ==
  LET k == work[w]
      b == beat[w]
  IN
  /\ k.pc \in {"idle", "leasing", "done"} => k.token = NoToken
  /\ k.pc = "leased" => k.token.job \in Job /\ k.token.owner = None
  /\ k.pc \in Holding => k.token \in granted
  /\ k.pc = "probing" => b.pc = "off"
  /\ b.pc # "off" => b.token \in granted
  /\ b.lost => b.pc = "off" /\ Serving(w)
  /\ k.late > 0 => b.lost /\ k.late <= MaxStretch
  /\ k.pc = "writing" => k.late + k.left <= MaxStretch

WorkerInv(w) == CallsOf(w) /\ HoldsOf(w)

(* With PromptReread.  No statement that grants or extends a lease is older *)
(* than a lease, a worker that is to read its lease still has it, and one  *)
(* that holds a job's newest lease holds it by the job's newest claim.     *)
CallsPrompt ==
  \A c \in Client :
    calls[c].op \in {"claim", "beat"} => now <= calls[c].since + Lease
LiveRow(j, w) ==
  jobs[j].status = "running" /\ jobs[j].owner = w /\ jobs[j].until >= now
OwnToken(w) ==
  /\ work[w].pc \in Holding => work[w].token.owner = w
  /\ work[w].pc = "leased" => LiveRow(work[w].token.job, w)
NewestClaim(w) ==
  LET j == work[w].token.job IN
  work[w].pc \in Holding \cup {"leased"} /\ jobs[j].owner = w =>
    work[w].claim = claims[j]
OwnLease(w) == OwnToken(w) /\ NewestClaim(w)

DrainInv ==
  /\ DrainTypeOK
  /\ QueueInv
  /\ LeasesGranted
  /\ OwnersWork
  /\ \A w \in Worker : WorkerInv(w)
  /\ PromptReread => CallsPrompt /\ \A w \in Worker : OwnLease(w)

-----------------------------------------------------------------------------
(* The threads of the workers, the drains and the intake are different.    *)
LEMMA ThreadsApart ==
  ASSUME NEW w \in Worker
  PROVE  /\ Main(w) \in Client /\ Beat(w) \in Client
         /\ Main(w) \notin Drain \cup {Intake}
         /\ Beat(w) \notin Drain \cup {Intake}
         /\ \A v \in Worker : /\ Main(w) # Beat(v)
                              /\ v # w => Main(v) # Main(w) /\ Beat(v) # Beat(w)
         /\ w \in Owner /\ w # None
BY DrainAssumption, QueueAssumption DEF DrainAssumption, QueueAssumption, Main, Beat

LEMMA OtherThreads ==
  /\ Drain \subseteq Client /\ Intake \in Client /\ Intake \notin Drain
BY DrainAssumption DEF DrainAssumption

(* The steps of a drain that the store sees, and the thread that takes it. *)
LEMMA WorkerIsClient ==
  ASSUME NEW w \in Worker, WorkerInv(w), WorkerStep(w)
  PROVE  ClientStep(Main(w)) \/ ClientStep(Beat(w)) \/ UNCHANGED vars
<1>1. CASE LeaseStart(w)
  <2>1. SweepSelect(Main(w), w)
    BY <1>1 DEF LeaseStart
  <2>2. w \in Owner
    BY ThreadsApart
  <2> QED BY <2>1, <2>2 DEF ClientStep
<1>2. CASE LimitReached(w) \/ LeaseReturn(w) \/ CheckLease(w) \/ GiveUpJob(w)
           \/ WriteZotero(w) \/ StretchEnds(w)
  BY <1>2 DEF LimitReached, LeaseReturn, CheckLease, GiveUpJob, WriteZotero,
     StretchEnds
<1>3. CASE LeaseSwept(w)
  BY <1>3 DEF LeaseSwept, ClientStep
<1>4. CASE LeaseNone(w)
  BY <1>4 DEF LeaseNone, ClientStep
<1>5. CASE \E j \in Job : LeaseCommit(w, j)
  BY <1>5 DEF LeaseCommit, ClientStep
<1>6. CASE ProbeSend(w)
  <2>1. work[w].token \in granted /\ BeatBegin(Main(w), work[w].token)
    BY <1>6 DEF ProbeSend, WorkerInv, HoldsOf, Holding, At
  <2> QED BY <2>1 DEF ClientStep
<1>7. CASE ProbeOk(w) \/ ProbeStale(w)
  BY <1>7 DEF ProbeOk, ProbeStale, ClientStep
<1>8. ASSUME NEW outcome \in Outcome, ReportSend(w, outcome)
      PROVE  ClientStep(Main(w))
  <2>1. /\ work[w].token \in granted
        /\ ReportBegin(Main(w), work[w].token, outcome)
    BY <1>8 DEF ReportSend, WorkerInv, HoldsOf, Holding, At
  <2> QED BY <2>1 DEF ClientStep
<1>9. CASE ReportOk(w) \/ ReportStale(w)
  BY <1>9 DEF ReportOk, ReportStale, ClientStep
<1>10. CASE StoreError(w)
  BY <1>10 DEF StoreError, ClientStep
<1>11. CASE BeatSend(w)
  <2>1. beat[w].token \in granted /\ BeatBegin(Beat(w), beat[w].token)
    BY <1>11 DEF BeatSend, InBeat, WorkerInv, HoldsOf
  <2> QED BY <2>1 DEF ClientStep
<1>12. CASE BeatOk(w) \/ BeatStale(w) \/ BeatError(w)
  BY <1>12 DEF BeatOk, BeatStale, BeatError, ClientStep
<1> QED BY <1>1, <1>2, <1>3, <1>4, <1>5, <1>6, <1>7, <1>8, <1>9, <1>10, <1>11,
           <1>12 DEF WorkerStep

(* But for the death of a process, which ends the calls of all its threads *)
(* at once, every step of the drains is a step of the store.               *)
LEMMA StoreStep ==
  ASSUME DrainInv, [DrainNext]_dvars
  PROVE  [Next]_vars \/ \E d \in Drain : Crash(d)
<1>1. ASSUME NEW w \in Worker, WorkerStep(w)
      PROVE  [Next]_vars
  <2>1. WorkerInv(w) /\ Main(w) \in Client /\ Beat(w) \in Client
    BY ThreadsApart DEF DrainInv
  <2> QED BY <1>1, <2>1, WorkerIsClient DEF Next
<1>2. ASSUME NEW d \in Drain, DrainStart(d) \/ DrainSwept(d)
      PROVE  [Next]_vars
  <2>1. ClientStep(d) /\ d \in Client
    BY <1>2, OtherThreads DEF DrainStart, DrainSwept, ClientStep
  <2> QED BY <2>1 DEF Next
<1>3. CASE Enqueue
  <2>1. ClientStep(Intake) /\ Intake \in Client
    BY <1>3, OtherThreads DEF Enqueue, ClientStep
  <2> QED BY <2>1 DEF Next
<1>4. ASSUME NEW j \in Job, OperatorCancel(j)
      PROVE  [Next]_vars
  BY <1>4 DEF OperatorCancel, Next, OperatorStep
<1>5. ASSUME NEW j \in Job, NEW reset \in BOOLEAN, OperatorRetry(j, reset)
      PROVE  [Next]_vars
  BY <1>5 DEF OperatorRetry, Next, OperatorStep
<1>6. CASE DrainTick
  BY <1>6 DEF DrainTick, Next
<1>7. CASE UNCHANGED dvars
  BY <1>7 DEF dvars
<1> QED BY <1>1, <1>2, <1>3, <1>4, <1>5, <1>6, <1>7 DEF DrainNext, DrainStep

(* A crash leaves the table as it is and ends calls.                       *)
LEMMA CrashEnds ==
  ASSUME TypeOK, NEW d \in Drain, Crash(d)
  PROVE  /\ UNCHANGED <<now, jobs, trail, granted, claims, author>>
         /\ calls' \in [Client -> Call]
         /\ \A c \in Client : calls'[c] \in {calls[c], Idle}
<1>1. Idle \in Call
  BY DEF Idle, Call, IdleCall
<1> QED BY <1>1 DEF Crash, TypeOK

LEMMA QueueInvDrain ==
  ASSUME DrainInv, [DrainNext]_dvars
  PROVE  QueueInv'
<1>1. QueueInv
  BY DEF DrainInv
<1>2. CASE [Next]_vars
  BY <1>1, <1>2, QueueInvStep
<1>3. ASSUME NEW d \in Drain, Crash(d)
      PROVE  QueueInv'
  <2>1. TypeOK
    BY <1>1 DEF QueueInv
  <2>2. /\ UNCHANGED <<now, jobs, trail, granted>>
        /\ calls' \in [Client -> Call]
        /\ \A c \in Client : calls'[c] \in {calls[c], Idle}
    BY <1>3, <2>1, CrashEnds
  <2>3. TypeOK'
    BY <2>1, <2>2 DEF TypeOK
  <2>4. \A j \in Job : RowInv(j)'
    BY <1>1, <2>2 DEF QueueInv, RowInv
  <2>5. SweepInPast'
    BY <1>1, <2>2 DEF QueueInv, SweepInPast, Idle
  <2> QED BY <2>3, <2>4, <2>5 DEF QueueInv
<1> QED BY <1>2, <1>3, StoreStep

-----------------------------------------------------------------------------
(* Only LeaseCommit makes a row running, or gives it an owner.             *)

(* What a step that leases nothing does to an owner.                       *)
LEMMA NotLeasedRow ==
  ASSUME QueueInv, NEW j \in Job, RowNotLeased(j)
  PROVE  /\ jobs'[j].owner \in {None, jobs[j].owner}
         /\ jobs'[j].status = "running" =>
              /\ jobs[j].status = "running"
              /\ jobs'[j].owner = jobs[j].owner
              /\ jobs'[j].attempts = jobs[j].attempts
<1>1. jobs[j] \in Row
  BY DEF QueueInv, TypeOK
<1>2. "queued" \in Status /\ "cancelled" \in Status /\ Reported \subseteq Status
      /\ "running" \notin Reported
  BY DEF Status, Terminal, Reported
<1> USE DEF Becomes
<1>3. CASE RowKept(j)
  BY <1>3 DEF RowKept
<1>4. CASE RowCreated(j)
  BY <1>4, CreatedRow DEF RowCreated
<1>5. CASE RowRecovered(j)
  BY <1>1, <1>2, <1>5, UnleasedRow DEF RowRecovered
<1>6. CASE RowExhausted(j)
  BY <1>1, <1>6, ExhaustedRow DEF RowExhausted
<1>7. CASE RowReported(j)
  BY <1>1, <1>2, <1>7, UnleasedRow DEF RowReported
<1>8. CASE RowExtended(j)
  <2>1. PICK t \in 0..now : jobs'[j] = Extended(jobs[j], t)
    BY <1>8 DEF RowExtended
  <2>2. t \in Nat
    BY QueueAssumption DEF QueueAssumption, QueueInv, TypeOK, Time
  <2> QED BY <1>1, <1>8, <2>1, <2>2, ExtendedRow DEF RowExtended
<1>9. CASE RowRetried(j)
  BY <1>1, <1>9, RequeuedRow DEF RowRetried
<1>10. CASE RowCancelled(j)
  BY <1>1, <1>2, <1>10, UnleasedRow DEF RowCancelled
<1> QED BY <1>3, <1>4, <1>5, <1>6, <1>7, <1>8, <1>9, <1>10 DEF RowNotLeased

(* A step after which the leases that stand stood before.                  *)
NothingLeased ==
  /\ claims' = claims /\ granted' = granted
  /\ \A j \in Job : RowNotLeased(j)

(* The changes of a row that touch neither its claim nor its report.       *)
RowQuiet(j) ==
  \/ RowKept(j) \/ RowCreated(j) \/ RowRecovered(j) \/ RowExhausted(j)
  \/ RowExtended(j) \/ RowCancelled(j)

Quiet ==
  /\ UNCHANGED <<granted, claims, author>>
  /\ \A j \in Job : RowQuiet(j)

LEMMA QuietRead ==
  ASSUME UNCHANGED <<jobs, trail, granted, claims, author>>
  PROVE  Quiet
BY DEF Quiet, RowQuiet, RowKept

(* Four kinds of steps are left to look at.                                *)
LEMMA FourKinds ==
  ASSUME DrainInv, [DrainNext]_dvars
  PROVE  \/ Quiet
         \/ \E w \in Worker : ReportOk(w)
         \/ \E w \in Worker, j \in Job : LeaseCommit(w, j)
         \/ \E j \in Job, reset \in BOOLEAN : OperatorRetry(j, reset)
<1> USE DEF Quiet, RowQuiet
<1>1. TypeOK
  BY DEF DrainInv, QueueInv
<1>2. ASSUME NEW c \in Client, UNCHANGED <<granted, claims, author>>,
             SweepUpdate(c) \/ LeaseNothing(c) \/ BeatAccepted(c)
               \/ EnqueueInsert(c)
      PROVE  Quiet
  BY <1>1, <1>2, SweepChange, LeaseNothingChange, BeatChange, InsertChange
<1>3. ASSUME NEW w \in Worker, WorkerStep(w), ~ReportOk(w),
             ~\E j \in Job : LeaseCommit(w, j)
      PROVE  Quiet
  <2>1. Main(w) \in Client /\ Beat(w) \in Client
    BY ThreadsApart
  <2>2. CASE LeaseSwept(w) \/ LeaseNone(w) \/ ProbeOk(w) \/ BeatOk(w)
    BY <1>2, <2>1, <2>2 DEF LeaseSwept, LeaseNone, ProbeOk, BeatOk,
       SweepUpdate, LeaseNothing, BeatAccepted, own
  <2>3. CASE \/ LeaseStart(w) \/ LimitReached(w) \/ LeaseReturn(w)
             \/ ProbeSend(w) \/ ProbeStale(w) \/ CheckLease(w) \/ GiveUpJob(w)
             \/ WriteZotero(w) \/ StretchEnds(w)
             \/ (\E outcome \in Outcome : ReportSend(w, outcome))
             \/ ReportStale(w) \/ StoreError(w) \/ BeatSend(w) \/ BeatStale(w)
             \/ BeatError(w)
    <3>1. UNCHANGED <<jobs, trail, granted, claims, author>>
      BY <2>3 DEF LeaseStart, LimitReached, LeaseReturn, ProbeSend, ProbeStale,
         CheckLease, GiveUpJob, WriteZotero, StretchEnds, ReportSend,
         ReportStale, StoreError,
         BeatSend, BeatStale, BeatError, SweepSelect, BeatBegin, BeatRefused,
         ReportBegin, ReportDiscarded, AbandonCall, vars
    <3> QED BY <3>1, QuietRead
  <2> QED BY <1>3, <2>2, <2>3 DEF WorkerStep
<1>4. ASSUME NEW d \in Drain, DrainStart(d) \/ DrainSwept(d) \/ Crash(d)
      PROVE  Quiet
  <2>1. d \in Client
    BY OtherThreads
  <2>2. CASE DrainSwept(d)
    BY <1>2, <2>1, <2>2 DEF DrainSwept, SweepUpdate
  <2>3. CASE DrainStart(d) \/ Crash(d)
    BY <2>3, QuietRead DEF DrainStart, Crash, SweepSelect
  <2> QED BY <1>4, <2>2, <2>3
<1>5. CASE Enqueue
  <2>1. CASE EnqueueInsert(Intake) /\ UNCHANGED own
    BY <1>2, <2>1, OtherThreads DEF EnqueueInsert, own
  <2>2. CASE \E k \in Key, b \in Budgets :
               EnqueueLookup(Intake, k, b) /\ UNCHANGED own
    BY <2>2, QuietRead DEF EnqueueLookup, own
  <2> QED BY <1>5, <2>1, <2>2 DEF Enqueue
<1>6. ASSUME NEW i \in Job, OperatorCancel(i)
      PROVE  Quiet
  BY <1>1, <1>6, CancelChange DEF OperatorCancel, Cancel, own
<1>7. CASE DrainTick \/ UNCHANGED dvars
  BY <1>7, QuietRead DEF DrainTick, Tick, dvars, vars, own
<1> QED BY <1>3, <1>4, <1>5, <1>6, <1>7 DEF DrainNext, DrainStep

LEMMA LeasedOrNot ==
  ASSUME DrainInv, [DrainNext]_dvars
  PROVE  NothingLeased \/ \E w \in Worker, j \in Job : LeaseCommit(w, j)
<1> USE DEF NothingLeased, RowNotLeased
<1>1. TypeOK
  BY DEF DrainInv, QueueInv
<1>2. CASE Quiet
  BY <1>2 DEF Quiet, RowQuiet
<1>3. ASSUME NEW w \in Worker, ReportOk(w)
      PROVE  NothingLeased
  BY <1>1, <1>3, ThreadsApart, ReportChange DEF ReportOk, ReportAccepted
<1>4. ASSUME NEW i \in Job, NEW reset \in BOOLEAN, OperatorRetry(i, reset)
      PROVE  NothingLeased
  BY <1>1, <1>4, RetryChange DEF OperatorRetry, Retry
<1> QED BY <1>2, <1>3, <1>4, FourKinds

(* A lease that is committed: the row's new owner is the worker, its token *)
(* has been granted, and it ends a lease time after the worker's clock.    *)
LEMMA CommittedLease ==
  ASSUME DrainInv, NEW w \in Worker, NEW j \in Job, LeaseCommit(w, j)
  PROVE  /\ \A i \in Job \ {j} : RowNotLeased(i)
         /\ jobs'[j].status = "running" /\ jobs'[j].owner = w
         /\ [job |-> j, owner |-> w, attempt |-> jobs'[j].attempts] \in granted'
         /\ granted \subseteq granted'
         /\ \E t \in calls[Main(w)].since .. now : jobs'[j].until = t + Lease
<1>1. TypeOK /\ Main(w) \in Client /\ LeaseJob(Main(w), j)
  BY ThreadsApart DEF DrainInv, QueueInv, LeaseCommit
<1>2. calls[Main(w)].owner = w
  BY DEF DrainInv, WorkerInv, CallsOf, LeaseCommit, At
<1>3. calls[Main(w)] \in ClaimCall
  BY <1>1, CallFields DEF TypeOK, LeaseJob
<1>4. \A i \in Job \ {j} : RowNotLeased(i)
  BY <1>1, LeaseJobChange DEF RowNotLeased
<1>5. PICK t \in calls[Main(w)].since .. now :
        jobs'[j] = Leased(jobs[j], w, t)
  BY <1>1, <1>2, LeaseJobChange DEF LeasedAs, Becomes
<1>6. t \in Nat /\ w \in Owner /\ jobs[j] \in Row
  BY <1>1, <1>3, ThreadsApart, QueueAssumption
     DEF ClaimCall, TypeOK, Time, QueueAssumption
<1>7. /\ jobs'[j].status = "running" /\ jobs'[j].owner = w
      /\ jobs'[j].until = t + Lease
      /\ jobs'[j].attempts = jobs[j].attempts + 1
  BY <1>5, <1>6, LeasedRow
<1>8. granted' = granted \cup
        {[job |-> j, owner |-> w, attempt |-> jobs[j].attempts + 1]}
  BY <1>1, <1>2 DEF LeaseJob
<1> QED BY <1>4, <1>7, <1>8

LEMMA LeasesGrantedStep ==
  ASSUME DrainInv, [DrainNext]_dvars
  PROVE  LeasesGranted' /\ OwnersWork' /\ granted \subseteq granted'
<1>1. QueueInv /\ LeasesGranted /\ OwnersWork
  BY DEF DrainInv
<1>2. CASE NothingLeased
  BY <1>1, <1>2, NotLeasedRow DEF NothingLeased, LeasesGranted, OwnersWork
<1>3. ASSUME NEW w \in Worker, NEW j \in Job, LeaseCommit(w, j)
      PROVE  LeasesGranted' /\ OwnersWork' /\ granted \subseteq granted'
  <2>1. /\ \A i \in Job \ {j} : RowNotLeased(i)
        /\ jobs'[j].status = "running" /\ jobs'[j].owner = w
        /\ [job |-> j, owner |-> w, attempt |-> jobs'[j].attempts] \in granted'
        /\ granted \subseteq granted'
    BY <1>3, CommittedLease
  <2> QED BY <1>1, <2>1, NotLeasedRow DEF LeasesGranted, OwnersWork
<1> QED BY <1>2, <1>3, LeasedOrNot

-----------------------------------------------------------------------------
(* Types of the bookkeeping.                                               *)

DrainRec == [phase : Phases, slots : 0..Limit]
WorkRec == [pc : PCs, token : AnyToken, claim : Nat, writes : 0..MaxWrites,
            left : 0..MaxStretch, late : Nat]
BeatRec == [pc : {"off", "waiting", "sending"}, token : AnyToken,
            deadline : Nat, lost : BOOLEAN]
Author == [worker : Worker \cup {None}, claim : Nat]

OwnTypes ==
  /\ layout \in [Worker -> Drain]
  /\ drain \in [Drain -> DrainRec]
  /\ work \in [Worker -> WorkRec]
  /\ beat \in [Worker -> BeatRec]
  /\ claims \in [Job -> 0..MaxClaims]
  /\ author \in [Job -> Author]

LEMMA OwnTypesHold ==
  ASSUME DrainTypeOK
  PROVE  OwnTypes /\ TypeOK
BY DrainAssumption
   DEF DrainAssumption, DrainTypeOK, OwnTypes, DrainRec, WorkRec, BeatRec, Author

(* The records a worker starts from.                                       *)
LEMMA FreshRecords ==
  /\ NoToken \in AnyToken /\ Nobody \in Author /\ NoBeat \in BeatRec
  /\ Free \in WorkRec
  /\ \A pc \in PCs : [Free EXCEPT !.pc = pc] \in WorkRec
  /\ \A k \in WorkRec, pc \in PCs : [k EXCEPT !.pc = pc] \in WorkRec
  /\ Token \subseteq AnyToken
BY DrainAssumption DEF DrainAssumption, NoToken, AnyToken, Nobody, Author, NoBeat, BeatRec,
   Free, WorkRec, PCs, Token

LEMMA StoppedBeat ==
  ASSUME OwnTypes, NEW w \in Worker
  PROVE  Stopped(w) \in BeatRec
BY FreshRecords DEF OwnTypes, Stopped

LEMMA OwnTypesWorker ==
  ASSUME DrainInv, NEW w \in Worker, WorkerStep(w)
  PROVE  /\ drain' \in [Drain -> DrainRec]
         /\ work' \in [Worker -> WorkRec]
         /\ beat' \in [Worker -> BeatRec]
         /\ claims' \in [Job -> 0..MaxClaims]
         /\ author' \in [Job -> Author]
<1>1. OwnTypes /\ TypeOK
  BY OwnTypesHold DEF DrainInv
<1>2. /\ drain \in [Drain -> DrainRec] /\ work \in [Worker -> WorkRec]
      /\ beat \in [Worker -> BeatRec] /\ claims \in [Job -> 0..MaxClaims]
      /\ author \in [Job -> Author] /\ layout[w] \in Drain
  BY <1>1 DEF OwnTypes
<1>3. Stopped(w) \in BeatRec
  BY <1>1, StoppedBeat
<1>4. /\ {"idle", "leasing", "leased", "granted", "probing", "working",
          "writing", "reporting", "failing", "done"} = PCs
      /\ now \in Nat /\ Lease \in Nat
  BY <1>1, QueueAssumption DEF PCs, QueueAssumption, TypeOK, Time
<1>5. ASSUME NEW pc \in PCs, Goto(w, pc)
      PROVE  work' \in [Worker -> WorkRec]
  <2>1. [work[w] EXCEPT !.pc = pc] \in WorkRec
    BY <1>2, FreshRecords
  <2> QED BY <1>2, <1>5, <2>1 DEF Goto
<1>6. ASSUME NEW pc \in PCs, EndJob(w, pc)
      PROVE  work' \in [Worker -> WorkRec] /\ beat' \in [Worker -> BeatRec]
  <2>1. [Free EXCEPT !.pc = pc] \in WorkRec
    BY FreshRecords
  <2> QED BY <1>2, <1>3, <1>6, <2>1 DEF EndJob
<1>7. CASE LeaseStart(w)
  <2>1. drain' \in [Drain -> DrainRec]
    BY <1>2, <1>7, DrainAssumption DEF DrainAssumption, LeaseStart, DrainRec
  <2> QED BY <1>2, <1>4, <1>5, <1>7, <2>1 DEF LeaseStart
<1>8. CASE LimitReached(w) \/ LeaseNone(w) \/ ProbeSend(w)
  BY <1>2, <1>4, <1>5, <1>8 DEF LimitReached, LeaseNone, ProbeSend
<1>9. CASE LeaseSwept(w)
  BY <1>2, <1>9 DEF LeaseSwept, own
<1>10. ASSUME NEW j \in Job, LeaseCommit(w, j)
       PROVE  /\ drain' \in [Drain -> DrainRec]
              /\ work' \in [Worker -> WorkRec]
              /\ beat' \in [Worker -> BeatRec]
              /\ claims' \in [Job -> 0..MaxClaims]
              /\ author' \in [Job -> Author]
  <2>1. claims' \in [Job -> 0..MaxClaims] /\ claims'[j] \in Nat
    BY <1>2, <1>10, DrainAssumption DEF DrainAssumption, LeaseCommit
  <2>2. author' \in [Job -> Author]
    BY <1>2, <1>10, FreshRecords DEF LeaseCommit
  <2>3. [NoToken EXCEPT !.job = j] \in AnyToken
    BY DEF NoToken, AnyToken
  <2>4. [work[w] EXCEPT !.pc = "leased", !.claim = claims'[j],
                        !.token = [NoToken EXCEPT !.job = j]] \in WorkRec
    BY <1>2, <1>4, <2>1, <2>3 DEF WorkRec
  <2> QED BY <1>2, <1>10, <2>1, <2>2, <2>4 DEF LeaseCommit
<1>11. CASE LeaseReturn(w)
  <2>1. CASE jobs[work[w].token.job].owner = None
    BY <1>2, <1>11, <2>1, FreshRecords DEF LeaseReturn
  <2>2. CASE jobs[work[w].token.job].owner # None
    <3> DEFINE row == jobs[work[w].token.job]
               token == [job |-> work[w].token.job, owner |-> row.owner,
                         attempt |-> row.attempts]
    <3>1. work[w].token.job \in Job
      BY <1>11 DEF LeaseReturn, At, DrainInv, WorkerInv, HoldsOf
    <3>2. row.owner \in Owner /\ row.attempts \in Nat
      BY <1>1, <2>2, <3>1 DEF TypeOK, Row
    <3>3. token \in AnyToken
      BY <1>2, <3>2 DEF WorkRec, AnyToken
    <3>4. work' = [work EXCEPT ![w] =
                     [work[w] EXCEPT !.pc = "granted", !.token = token]]
      BY <1>2, <1>11, <2>2 DEF LeaseReturn, WorkRec
    <3> HIDE DEF token
    <3>5. [work[w] EXCEPT !.pc = "granted", !.token = token] \in WorkRec
      BY <1>2, <1>4, <3>3 DEF WorkRec
    <3> QED BY <1>2, <1>11, <3>4, <3>5 DEF LeaseReturn
  <2> QED BY <2>1, <2>2
<1>12. CASE ProbeOk(w)
  <2>1. [pc |-> "waiting", token |-> work[w].token, deadline |-> now + Lease,
         lost |-> FALSE] \in BeatRec
    BY <1>2, <1>4 DEF BeatRec, WorkRec
  <2> QED BY <1>2, <1>4, <1>5, <1>12, <2>1 DEF ProbeOk
<1>13. CASE ProbeStale(w) \/ GiveUpJob(w) \/ ReportStale(w)
  BY <1>2, <1>4, <1>6, <1>13 DEF ProbeStale, GiveUpJob, ReportStale
<1>14. CASE CheckLease(w) \/ WriteZotero(w) \/ StretchEnds(w)
  <2>1. MaxWrites \in Nat /\ MaxStretch \in Nat /\ work[w] \in WorkRec
    BY <1>2, DrainAssumption DEF DrainAssumption
  <2>2. \A pc \in PCs, l \in 0..MaxStretch :
          [work[w] EXCEPT !.pc = pc, !.left = l] \in WorkRec
    BY <2>1 DEF WorkRec
  <2>3. work' \in [Worker -> WorkRec]
    <3>1. CASE CheckLease(w)
      <4>1. [work[w] EXCEPT !.pc = "writing", !.left = MaxStretch] \in WorkRec
        <5>1. "writing" \in PCs /\ MaxStretch \in 0..MaxStretch
          BY <1>4, <2>1
        <5> QED BY <2>2, <5>1
      <4>2. work' = [work EXCEPT ![w] =
                       [work[w] EXCEPT !.pc = "writing", !.left = MaxStretch]]
        BY <1>2, <3>1 DEF CheckLease, WorkRec
      <4> QED BY <1>2, <4>1, <4>2
    <3>2. CASE WriteZotero(w)
      <4> DEFINE late == IF beat[w].lost THEN work[w].late + 1 ELSE work[w].late
      <4>1. /\ work[w].writes + 1 \in 0..MaxWrites
            /\ work[w].left - 1 \in 0..MaxStretch
            /\ late \in Nat
        BY <2>1, <3>2 DEF WriteZotero, WorkRec
      <4>2. work' = [work EXCEPT ![w] =
                       [work[w] EXCEPT !.writes = work[w].writes + 1,
                                       !.left = work[w].left - 1,
                                       !.late = late]]
        BY <1>2, <3>2 DEF WriteZotero, WorkRec
      <4> HIDE DEF late
      <4>3. [work[w] EXCEPT !.writes = work[w].writes + 1,
                            !.left = work[w].left - 1, !.late = late] \in WorkRec
        BY <2>1, <4>1 DEF WorkRec
      <4> QED BY <1>2, <4>2, <4>3
    <3>3. CASE StretchEnds(w)
      <4>1. [work[w] EXCEPT !.pc = "working", !.left = 0] \in WorkRec
        <5>1. "working" \in PCs /\ 0 \in 0..MaxStretch
          BY <1>4, <2>1
        <5> QED BY <2>2, <5>1
      <4>2. work' = [work EXCEPT ![w] =
                       [work[w] EXCEPT !.pc = "working", !.left = 0]]
        BY <1>2, <3>3 DEF StretchEnds, WorkRec
      <4> QED BY <1>2, <4>1, <4>2
    <3> QED BY <1>14, <3>1, <3>2, <3>3
  <2> QED BY <1>2, <1>14, <2>3 DEF CheckLease, WriteZotero, StretchEnds
<1>15. ASSUME NEW outcome \in Outcome, ReportSend(w, outcome)
       PROVE  /\ drain' \in [Drain -> DrainRec]
              /\ work' \in [Worker -> WorkRec]
              /\ beat' \in [Worker -> BeatRec]
              /\ claims' \in [Job -> 0..MaxClaims]
              /\ author' \in [Job -> Author]
  BY <1>2, <1>4, <1>5, <1>15 DEF ReportSend
<1>16. CASE ReportOk(w)
  <2>1. [worker |-> w, claim |-> work[w].claim] \in Author
    BY <1>2 DEF WorkRec, Author
  <2> QED BY <1>2, <1>4, <1>6, <1>16, <2>1 DEF ReportOk
<1>17. CASE StoreError(w)
  BY <1>2, <1>4, <1>5, <1>6, <1>17 DEF StoreError
<1>18. ASSUME NEW alive \in BOOLEAN, AfterBeat(w, alive)
       PROVE  beat' \in [Worker -> BeatRec]
  <2>1. [beat[w] EXCEPT !.pc = "waiting", !.deadline = now + Lease] \in BeatRec
    <3>1. now + Lease \in Nat
      BY <1>4
    <3> QED BY <1>2, <3>1 DEF BeatRec
  <2>2. [beat[w] EXCEPT !.pc = "off", !.lost = TRUE] \in BeatRec
    BY <1>2 DEF BeatRec
  <2> QED BY <1>2, <1>18, <2>1, <2>2, FreshRecords DEF AfterBeat
<1>19. CASE BeatSend(w)
  <2>1. [beat[w] EXCEPT !.pc = "sending"] \in BeatRec
    BY <1>2 DEF BeatRec
  <2> QED BY <1>2, <1>19, <2>1 DEF BeatSend
<1>20. CASE BeatOk(w) \/ BeatStale(w)
  BY <1>2, <1>18, <1>20 DEF BeatOk, BeatStale
<1>21. CASE BeatError(w)
  <2>1. [beat[w] EXCEPT !.pc = "waiting"] \in BeatRec
    BY <1>2 DEF BeatRec
  <2> QED BY <1>2, <1>18, <1>21, <2>1 DEF BeatError
<1> QED BY <1>7, <1>8, <1>9, <1>10, <1>11, <1>12, <1>13, <1>14, <1>15, <1>16,
           <1>17, <1>19, <1>20, <1>21 DEF WorkerStep

LEMMA DrainTypeStep ==
  ASSUME DrainInv, [DrainNext]_dvars
  PROVE  DrainTypeOK'
<1>1. OwnTypes /\ TypeOK /\ DrainTypeOK
  BY OwnTypesHold DEF DrainInv
<1>2. TypeOK' /\ layout' = layout
  BY QueueInvDrain DEF QueueInv, DrainNext, dvars
<1>3. ASSUME NEW d \in Drain, DrainStart(d) \/ DrainSwept(d) \/ Crash(d)
      PROVE  /\ drain' \in [Drain -> DrainRec] /\ work' \in [Worker -> WorkRec]
             /\ beat' \in [Worker -> BeatRec] /\ claims' = claims
             /\ author' = author
  <2>1. \A phase \in Phases : [drain[d] EXCEPT !.phase = phase] \in DrainRec
    BY <1>1 DEF OwnTypes, DrainRec
  <2>2. /\ {"new", "sweeping", "running", "dead"} = Phases
        /\ \E phase \in Phases : drain' = [drain EXCEPT ![d].phase = phase]
    BY <1>3 DEF DrainStart, DrainSwept, Crash, Phases
  <2>3. drain' \in [Drain -> DrainRec]
    BY <1>1, <2>1, <2>2 DEF OwnTypes
  <2> QED BY <1>1, <1>3, <2>3, FreshRecords
          DEF DrainStart, DrainSwept, Crash, OwnTypes
<1>4. CASE UNCHANGED own
  BY <1>1, <1>2, <1>4 DEF DrainTypeOK, own
<1>5. ASSUME NEW j \in Job, NEW reset \in BOOLEAN, OperatorRetry(j, reset)
      PROVE  /\ author' \in [Job -> Author]
             /\ UNCHANGED <<drain, work, beat, claims>>
  BY <1>1, <1>5, FreshRecords DEF OperatorRetry, OwnTypes
<1>6. CASE Enqueue \/ DrainTick \/ UNCHANGED dvars
           \/ \E j \in Job : OperatorCancel(j)
  BY <1>4, <1>6 DEF Enqueue, DrainTick, OperatorCancel, dvars
<1>7. ASSUME OwnTypes' PROVE DrainTypeOK'
  BY <1>1, <1>2, <1>7 DEF DrainTypeOK, OwnTypes, DrainRec, WorkRec, BeatRec, Author
<1>8. ASSUME NEW w \in Worker, WorkerStep(w)
      PROVE  OwnTypes'
  BY <1>1, <1>2, <1>8, OwnTypesWorker DEF OwnTypes
<1> QED BY <1>1, <1>2, <1>3, <1>5, <1>6, <1>7, <1>8
        DEF DrainNext, DrainStep, OwnTypes

-----------------------------------------------------------------------------
(* The calls and tokens of the workers.                                    *)

(* A thread's step of the store is no step of another thread.              *)
LEMMA OtherCalls ==
  ASSUME TypeOK, NEW c \in Client, ClientStep(c), NEW d \in Client, d # c
  PROVE  calls'[d] = calls[d]
BY CallStep DEF TypeOK

LEMMA WorkerKept ==
  ASSUME NEW v \in Worker, WorkerInv(v), granted \subseteq granted',
         work'[v] = work[v], beat'[v] = beat[v],
         calls'[Main(v)] = calls[Main(v)], calls'[Beat(v)] = calls[Beat(v)]
  PROVE  WorkerInv(v)'
BY DEF WorkerInv, CallsOf, HoldsOf, Serving

(* A worker's step leaves the records of the others alone.                 *)
LEMMA OtherRecords ==
  ASSUME OwnTypes, NEW w \in Worker, WorkerStep(w), NEW v \in Worker, v # w
  PROVE  work'[v] = work[v] /\ beat'[v] = beat[v]
<1>1. work = [u \in Worker |-> work[u]] /\ beat = [u \in Worker |-> beat[u]]
  BY DEF OwnTypes
<1>2. CASE \/ LeaseStart(w) \/ LimitReached(w) \/ LeaseNone(w) \/ ProbeSend(w)
           \/ CheckLease(w) \/ (\E j \in Job : LeaseCommit(w, j))
           \/ LeaseReturn(w) \/ WriteZotero(w) \/ StretchEnds(w)
           \/ (\E outcome \in Outcome : ReportSend(w, outcome)) \/ ProbeOk(w)
  BY <1>1, <1>2 DEF LeaseStart, LimitReached, LeaseNone, ProbeSend, CheckLease,
     LeaseCommit, LeaseReturn, WriteZotero, StretchEnds, ReportSend, ProbeOk, Goto
<1>3. CASE LeaseSwept(w)
  BY <1>3 DEF LeaseSwept, own
<1>4. CASE \/ ProbeStale(w) \/ GiveUpJob(w) \/ ReportOk(w) \/ ReportStale(w)
           \/ StoreError(w)
  BY <1>1, <1>4 DEF ProbeStale, GiveUpJob, ReportOk, ReportStale, StoreError, EndJob, Goto
<1>5. CASE BeatSend(w) \/ BeatOk(w) \/ BeatStale(w) \/ BeatError(w)
  BY <1>1, <1>5 DEF BeatSend, BeatOk, BeatStale, BeatError, AfterBeat
<1> QED BY <1>2, <1>3, <1>4, <1>5 DEF WorkerStep

(* The fields of a worker's record after it moved on, and after its job.   *)
LEMMA GotoFields ==
  ASSUME OwnTypes, NEW w \in Worker, NEW pc, Goto(w, pc)
  PROVE  /\ work'[w].pc = pc /\ work'[w].token = work[w].token
         /\ work'[w].claim = work[w].claim /\ work'[w].writes = work[w].writes
         /\ work'[w].late = work[w].late
BY DEF OwnTypes, WorkRec, Goto

LEMMA EndJobFields ==
  ASSUME OwnTypes, NEW w \in Worker, NEW pc, EndJob(w, pc)
  PROVE  /\ work'[w].pc = pc /\ work'[w].token = NoToken
         /\ work'[w].claim = 0 /\ work'[w].writes = 0 /\ work'[w].late = 0
         /\ beat'[w] = Stopped(w)
BY DEF OwnTypes, EndJob, Free

LEMMA EndJobKeeps ==
  ASSUME OwnTypes, NEW w \in Worker, WorkerInv(w), granted \subseteq granted',
         NEW pc \in {"idle", "done"}, EndJob(w, pc), calls'[Main(w)] = Idle,
         calls'[Beat(w)] = calls[Beat(w)]
  PROVE  WorkerInv(w)'
<1>1. /\ work'[w].pc = pc /\ work'[w].token = NoToken /\ work'[w].late = 0
      /\ beat'[w] = Stopped(w)
  BY EndJobFields
<1>2. CallsOf(w)'
  <2>1. beat'[w].pc = "sending" <=> beat[w].pc = "sending"
    BY <1>1 DEF Stopped, NoBeat
  <2> QED BY <1>1, <2>1 DEF WorkerInv, CallsOf
<1>3. HoldsOf(w)'
  <2>1. ~beat'[w].lost
    BY <1>1 DEF WorkerInv, HoldsOf, Stopped, NoBeat
  <2>2. beat'[w].pc # "off" => beat'[w].token \in granted
    BY <1>1 DEF WorkerInv, HoldsOf, Stopped, NoBeat
  <2> QED BY <1>1, <2>1, <2>2 DEF HoldsOf, Holding
<1> QED BY <1>2, <1>3 DEF WorkerInv

(* A step of the worker's main thread that keeps its heartbeat thread, its *)
(* token and its counts.                                                   *)
LEMMA GotoKeeps ==
  ASSUME OwnTypes, NEW w \in Worker, WorkerInv(w), granted \subseteq granted',
         NEW pc, Goto(w, pc), beat' = beat, calls'[Beat(w)] = calls[Beat(w)],
         pc \in {"idle", "leasing", "done"} => work[w].token = NoToken,
         pc # "leased", pc # "writing",
         pc \in Holding => work[w].token \in granted,
         pc = "probing" => beat[w].pc = "off",
         Serving(w) => pc \in {"working", "writing", "reporting", "failing"}
  PROVE  HoldsOf(w)'
<1>1. /\ work'[w].pc = pc /\ work'[w].token = work[w].token
      /\ work'[w].late = work[w].late
  BY GotoFields
<1> QED BY <1>1 DEF WorkerInv, HoldsOf, Serving

(* A worker's own step keeps what its place requires.                      *)
LEMMA WorkerOwnStep ==
  ASSUME DrainInv, NEW w \in Worker, WorkerStep(w), UNCHANGED layout
  PROVE  WorkerInv(w)'
<1>1. OwnTypes /\ TypeOK /\ WorkerInv(w)
  BY OwnTypesHold DEF DrainInv
<1>2. /\ calls = [c \in Client |-> calls[c]]
      /\ Main(w) \in Client /\ Beat(w) \in Client /\ Main(w) # Beat(w)
      /\ w # None /\ w \in Owner
  BY <1>1, ThreadsApart DEF TypeOK
<1>3. granted \subseteq granted' /\ granted \subseteq Token
  BY <1>1, LeasesGrantedStep DEF DrainNext, DrainStep, TypeOK, dvars
<1> USE DEF At
<1>4. CASE LeaseStart(w)
  <2>1. /\ calls'[Main(w)].op = "sweep" /\ calls'[Main(w)].owner = w
        /\ calls'[Beat(w)] = calls[Beat(w)]
    BY <1>2, <1>4 DEF LeaseStart, SweepSelect, Enter
  <2>2. /\ work[w].pc = "idle" /\ Goto(w, "leasing") /\ beat' = beat
    BY <1>4 DEF LeaseStart
  <2>3. CallsOf(w)'
    BY <1>1, <2>1, <2>2, GotoFields DEF WorkerInv, CallsOf
  <2>4. HoldsOf(w)'
    BY <1>1, <1>3, <2>1, <2>2, GotoKeeps DEF WorkerInv, HoldsOf, Serving, Holding
  <2> QED BY <2>3, <2>4 DEF WorkerInv
<1>5. CASE LimitReached(w)
  <2>1. calls' = calls /\ work[w].pc = "idle" /\ Goto(w, "done") /\ beat' = beat
    BY <1>5 DEF LimitReached, vars
  <2>2. CallsOf(w)'
    BY <1>1, <2>1, GotoFields DEF WorkerInv, CallsOf
  <2>3. HoldsOf(w)'
    BY <1>1, <1>3, <2>1, GotoKeeps DEF WorkerInv, HoldsOf, Serving, Holding
  <2> QED BY <2>2, <2>3 DEF WorkerInv
<1>6. CASE LeaseSwept(w)
  <2>1. /\ calls'[Beat(w)] = calls[Beat(w)] /\ work' = work /\ beat' = beat
        /\ work[w].pc = "leasing"
        /\ calls'[Main(w)] = IF calls[Main(w)].owner = None THEN Idle
                             ELSE [op |-> "claim", owner |-> calls[Main(w)].owner,
                                   since |-> now]
    BY <1>2, <1>6 DEF LeaseSwept, SweepUpdate, own
  <2>2. calls'[Main(w)].op = "claim" /\ calls'[Main(w)].owner = w
    BY <1>1, <1>2, <2>1 DEF WorkerInv, CallsOf
  <2>3. CallsOf(w)'
    BY <1>1, <2>1, <2>2 DEF WorkerInv, CallsOf
  <2>4. HoldsOf(w)'
    BY <1>1, <1>3, <2>1 DEF WorkerInv, HoldsOf, Serving
  <2> QED BY <2>3, <2>4 DEF WorkerInv
<1>7. CASE LeaseNone(w)
  <2>1. /\ calls'[Main(w)] = Idle /\ calls'[Beat(w)] = calls[Beat(w)]
        /\ work[w].pc = "leasing" /\ Goto(w, "done") /\ beat' = beat
    BY <1>2, <1>7 DEF LeaseNone, LeaseNothing, Leave
  <2>2. CallsOf(w)'
    BY <1>1, <2>1, GotoFields DEF WorkerInv, CallsOf
  <2>3. HoldsOf(w)'
    BY <1>1, <1>3, <2>1, GotoKeeps DEF WorkerInv, HoldsOf, Serving, Holding
  <2> QED BY <2>2, <2>3 DEF WorkerInv
<1>8. ASSUME NEW j \in Job, LeaseCommit(w, j)
      PROVE  WorkerInv(w)'
  <2>1. /\ calls'[Main(w)] = Idle /\ calls'[Beat(w)] = calls[Beat(w)]
        /\ work[w].pc = "leasing" /\ beat' = beat
    BY <1>2, <1>8 DEF LeaseCommit, LeaseJob, Leave
  <2>2. /\ work'[w].pc = "leased" /\ work'[w].late = work[w].late
        /\ work'[w].token = [NoToken EXCEPT !.job = j]
    BY <1>1, <1>8 DEF LeaseCommit, OwnTypes, WorkRec
  <2>3. work'[w].token.job = j /\ work'[w].token.owner = None
    BY <2>2 DEF NoToken
  <2>4. ~beat[w].lost
    BY <1>1, <2>1 DEF WorkerInv, HoldsOf, Serving
  <2>5. CallsOf(w)'
    BY <1>1, <2>1, <2>2 DEF WorkerInv, CallsOf
  <2>6. HoldsOf(w)'
    BY <1>1, <1>3, <2>1, <2>2, <2>3, <2>4 DEF WorkerInv, HoldsOf, Holding
  <2> QED BY <2>5, <2>6 DEF WorkerInv
<1>9. CASE LeaseReturn(w)
  <2> DEFINE j   == work[w].token.job
             row == jobs[j]
  <2>1. calls' = calls /\ work[w].pc = "leased" /\ beat' = beat /\ jobs' = jobs
    BY <1>9 DEF LeaseReturn, vars
  <2>2. j \in Job /\ ~beat[w].lost /\ ~(work[w].late > 0)
    BY <1>1, <2>1 DEF WorkerInv, HoldsOf, Serving
  <2>3. CASE row.owner = None
    <3>1. work'[w] = Free
      BY <1>1, <1>9, <2>3 DEF LeaseReturn, OwnTypes
    <3>2. work'[w].pc = "idle" /\ work'[w].token = NoToken /\ work'[w].late = 0
      BY <3>1 DEF Free
    <3>3. CallsOf(w)'
      BY <1>1, <2>1, <3>2 DEF WorkerInv, CallsOf
    <3>4. HoldsOf(w)'
      BY <1>1, <1>3, <2>1, <2>2, <3>2 DEF WorkerInv, HoldsOf, Holding
    <3> QED BY <3>3, <3>4 DEF WorkerInv
  <2>4. CASE row.owner # None
    <3> DEFINE token == [job |-> j, owner |-> row.owner, attempt |-> row.attempts]
    <3>1. token \in granted
      <4>1. RowInv(j)
        BY <2>2 DEF DrainInv, QueueInv
      <4>2. row.status = "running"
        BY <2>4, <4>1 DEF RowInv
      <4> QED BY <2>2, <4>2 DEF DrainInv, LeasesGranted
    <3> HIDE DEF token
    <3>2. work'[w] = [work[w] EXCEPT !.pc = "granted", !.token = token]
      BY <1>1, <1>9, <2>4 DEF LeaseReturn, OwnTypes, token
    <3>3. /\ work'[w].pc = "granted" /\ work'[w].token = token
          /\ work'[w].late = work[w].late
      BY <1>1, <3>2 DEF OwnTypes, WorkRec
    <3>4. CallsOf(w)'
      BY <1>1, <2>1, <3>3 DEF WorkerInv, CallsOf
    <3>5. HoldsOf(w)'
      BY <1>1, <1>3, <2>1, <2>2, <3>1, <3>3 DEF WorkerInv, HoldsOf, Holding
    <3> QED BY <3>4, <3>5 DEF WorkerInv
  <2> QED BY <2>3, <2>4
<1>10. CASE ProbeSend(w)
  <2>1. /\ calls'[Main(w)].op = "beat" /\ calls'[Main(w)].token = work[w].token
        /\ calls'[Beat(w)] = calls[Beat(w)] /\ beat' = beat
        /\ work[w].pc = "granted" /\ beat[w].pc = "off" /\ Goto(w, "probing")
    BY <1>2, <1>10 DEF ProbeSend, BeatBegin, Enter
  <2>2. CallsOf(w)'
    BY <1>1, <2>1, GotoFields DEF WorkerInv, CallsOf
  <2>3. HoldsOf(w)'
    BY <1>1, <1>3, <2>1, GotoKeeps DEF WorkerInv, HoldsOf, Serving, Holding
  <2> QED BY <2>2, <2>3 DEF WorkerInv
<1>11. CASE ProbeOk(w)
  <2>1. /\ calls'[Main(w)] = Idle /\ calls'[Beat(w)] = calls[Beat(w)]
        /\ work[w].pc = "probing" /\ Goto(w, "working")
    BY <1>2, <1>11 DEF ProbeOk, BeatAccepted, Leave
  <2>2. /\ beat'[w].pc = "waiting" /\ beat'[w].token = work[w].token
        /\ beat'[w].lost = FALSE
    BY <1>1, <1>11 DEF ProbeOk, OwnTypes
  <2>3. /\ work'[w].pc = "working" /\ work'[w].token = work[w].token
        /\ work'[w].late = work[w].late
    BY <1>1, <2>1, GotoFields
  <2>4. work[w].token \in granted /\ ~(work[w].late > 0)
    BY <1>1, <2>1 DEF WorkerInv, HoldsOf, Holding, Serving
  <2>5. calls[Beat(w)] = Idle
    BY <1>1, <2>1 DEF WorkerInv, CallsOf, HoldsOf
  <2>6. CallsOf(w)'
    BY <2>1, <2>2, <2>3, <2>5 DEF CallsOf
  <2>7. HoldsOf(w)'
    BY <1>3, <2>2, <2>3, <2>4 DEF HoldsOf, Holding
  <2> QED BY <2>6, <2>7 DEF WorkerInv
<1>12. CASE ProbeStale(w) \/ ReportOk(w) \/ ReportStale(w)
  <2>1. /\ calls'[Main(w)] = Idle /\ calls'[Beat(w)] = calls[Beat(w)]
        /\ EndJob(w, "idle")
    BY <1>2, <1>12 DEF ProbeStale, BeatRefused, ReportOk, ReportAccepted,
       ReportStale, ReportDiscarded, Leave
  <2> QED BY <1>1, <1>3, <2>1, EndJobKeeps
<1>13. CASE CheckLease(w) \/ StretchEnds(w)
  <2>1. calls' = calls /\ beat' = beat /\ work[w].pc \in {"working", "writing"}
    BY <1>13 DEF CheckLease, StretchEnds, vars
  <2>2. /\ work'[w].pc \in {"working", "writing"}
        /\ work'[w].token = work[w].token /\ work'[w].late = work[w].late
    BY <1>1, <1>13 DEF CheckLease, StretchEnds, OwnTypes, WorkRec
  <2>3. work'[w].pc = "writing" => work'[w].late + work'[w].left <= MaxStretch
    <3>1. CASE CheckLease(w)
      <4>1. work'[w].left = MaxStretch /\ ~beat[w].lost
        BY <1>1, <3>1 DEF CheckLease, LeaseLost, OwnTypes, WorkRec
      <4>2. work[w].late \in Nat /\ MaxStretch \in Nat
        BY <1>1, DrainAssumption DEF OwnTypes, WorkRec, DrainAssumption
      <4>3. work[w].late = 0
        BY <1>1, <4>1, <4>2 DEF WorkerInv, HoldsOf
      <4> QED BY <2>2, <4>1, <4>2, <4>3
    <3>2. CASE StretchEnds(w)
      BY <1>1, <3>2 DEF StretchEnds, OwnTypes, WorkRec
    <3> QED BY <1>13, <3>1, <3>2
  <2>4. CallsOf(w)'
    BY <1>1, <2>1, <2>2 DEF WorkerInv, CallsOf
  <2>5. HoldsOf(w)'
    BY <1>1, <1>3, <2>1, <2>2, <2>3 DEF WorkerInv, HoldsOf, Serving, Holding
  <2> QED BY <2>4, <2>5 DEF WorkerInv
<1>14. CASE GiveUpJob(w)
  <2>1. calls' = calls /\ work[w].pc = "working" /\ EndJob(w, "idle")
    BY <1>14 DEF GiveUpJob, vars
  <2>2. calls'[Main(w)] = Idle
    BY <1>1, <2>1 DEF WorkerInv, CallsOf
  <2> QED BY <1>1, <1>3, <2>1, <2>2, EndJobKeeps
<1>15. CASE WriteZotero(w)
  <2>1. calls' = calls /\ beat' = beat /\ work[w].pc = "writing"
    BY <1>15 DEF WriteZotero, vars
  <2>2. /\ work'[w].pc = "writing" /\ work'[w].token = work[w].token
        /\ work'[w].late = IF beat[w].lost THEN work[w].late + 1 ELSE work[w].late
        /\ work'[w].left = work[w].left - 1 /\ work[w].left > 0
    BY <1>1, <1>15 DEF WriteZotero, OwnTypes, WorkRec
  <2>3. /\ work'[w].late > 0 => beat[w].lost /\ work'[w].late <= MaxStretch
        /\ work'[w].late + work'[w].left <= MaxStretch
    <3>1. /\ work[w].late \in Nat /\ work[w].left \in Nat /\ MaxStretch \in Nat
      BY <1>1, DrainAssumption DEF OwnTypes, WorkRec, DrainAssumption
    <3>2. /\ work[w].late + work[w].left <= MaxStretch
          /\ work[w].late > 0 => beat[w].lost
      BY <1>1, <2>1 DEF WorkerInv, HoldsOf
    <3> QED BY <2>2, <3>1, <3>2
  <2>4. CallsOf(w)'
    BY <1>1, <2>1, <2>2 DEF WorkerInv, CallsOf
  <2>5. HoldsOf(w)'
    BY <1>1, <1>3, <2>1, <2>2, <2>3 DEF WorkerInv, HoldsOf, Serving, Holding
  <2> QED BY <2>4, <2>5 DEF WorkerInv
<1>16. ASSUME NEW outcome \in Outcome, ReportSend(w, outcome)
       PROVE  WorkerInv(w)'
  <2> DEFINE pc == IF work[w].pc = "working" THEN "reporting" ELSE "failing"
  <2>1. /\ calls'[Main(w)].op = "report" /\ calls'[Main(w)].token = work[w].token
        /\ calls'[Beat(w)] = calls[Beat(w)] /\ beat' = beat
        /\ work[w].pc \in {"working", "failing"} /\ Goto(w, pc)
    BY <1>2, <1>16 DEF ReportSend, ReportBegin, Enter
  <2>2. CallsOf(w)'
    BY <1>1, <2>1, GotoFields DEF WorkerInv, CallsOf
  <2>3. HoldsOf(w)'
    BY <1>1, <1>3, <2>1, GotoKeeps DEF WorkerInv, HoldsOf, Serving, Holding
  <2> QED BY <2>2, <2>3 DEF WorkerInv
<1>17. CASE StoreError(w)
  <2>1. calls'[Main(w)] = Idle /\ calls'[Beat(w)] = calls[Beat(w)]
    BY <1>2, <1>17 DEF StoreError, AbandonCall, Leave
  <2>2. CASE work[w].pc = "reporting"
    <3>1. Goto(w, "failing") /\ beat' = beat
      BY <1>17, <2>2 DEF StoreError
    <3>2. CallsOf(w)'
      BY <1>1, <2>1, <2>2, <3>1, GotoFields DEF WorkerInv, CallsOf
    <3>3. HoldsOf(w)'
      BY <1>1, <1>3, <2>1, <2>2, <3>1, GotoKeeps
         DEF WorkerInv, HoldsOf, Serving, Holding
    <3> QED BY <3>2, <3>3 DEF WorkerInv
  <2>3. CASE work[w].pc # "reporting"
    <3>1. EndJob(w, "done")
      BY <1>17, <2>3 DEF StoreError
    <3> QED BY <1>1, <1>3, <2>1, <3>1, EndJobKeeps
  <2> QED BY <2>2, <2>3
<1>18. CASE BeatSend(w)
  <2>1. /\ calls'[Main(w)] = calls[Main(w)] /\ calls'[Beat(w)].op = "beat"
        /\ work' = work /\ beat[w].pc = "waiting"
    BY <1>2, <1>18 DEF BeatSend, InBeat, BeatBegin, Enter
  <2>2. /\ beat'[w].pc = "sending" /\ beat'[w].token = beat[w].token
        /\ beat'[w].lost = beat[w].lost
    BY <1>1, <1>18 DEF BeatSend, OwnTypes, BeatRec
  <2>3. CallsOf(w)'
    BY <1>1, <2>1, <2>2 DEF WorkerInv, CallsOf
  <2>4. HoldsOf(w)'
    BY <1>1, <1>3, <2>1, <2>2 DEF WorkerInv, HoldsOf, Serving
  <2> QED BY <2>3, <2>4 DEF WorkerInv
<1>19. ASSUME NEW alive \in BOOLEAN, AfterBeat(w, alive), InBeat(w, "sending"),
              calls'[Main(w)] = calls[Main(w)], calls'[Beat(w)] = Idle,
              work' = work
       PROVE  WorkerInv(w)'
  <2>1. /\ beat[w].token \in granted /\ ~beat[w].lost /\ beat[w].pc = "sending"
        /\ work[w].pc # "probing" /\ ~(work[w].late > 0)
    BY <1>1, <1>19 DEF WorkerInv, HoldsOf, InBeat
  <2>2. CASE ~Serving(w)
    <3>1. beat'[w] = NoBeat
      BY <1>1, <1>19, <2>2 DEF AfterBeat, OwnTypes
    <3>2. beat'[w].pc = "off" /\ beat'[w].lost = FALSE
      BY <3>1 DEF NoBeat
    <3> QED BY <1>1, <1>3, <1>19, <2>1, <3>2 DEF WorkerInv, CallsOf, HoldsOf
  <2>3. CASE Serving(w) /\ alive
    <3>1. /\ beat'[w].pc = "waiting" /\ beat'[w].token = beat[w].token
          /\ beat'[w].lost = beat[w].lost
      BY <1>1, <1>19, <2>3 DEF AfterBeat, OwnTypes, BeatRec
    <3> QED BY <1>1, <1>3, <1>19, <2>1, <3>1 DEF WorkerInv, CallsOf, HoldsOf
  <2>4. CASE Serving(w) /\ ~alive
    <3>1. beat'[w].pc = "off" /\ beat'[w].lost = TRUE
      BY <1>1, <1>19, <2>4 DEF AfterBeat, OwnTypes, BeatRec
    <3> QED BY <1>1, <1>3, <1>19, <2>1, <2>4, <3>1
            DEF WorkerInv, CallsOf, HoldsOf, Serving
  <2> QED BY <2>2, <2>3, <2>4
<1>20. CASE BeatOk(w) \/ BeatStale(w)
  <2>1. /\ calls'[Main(w)] = calls[Main(w)] /\ calls'[Beat(w)] = Idle
        /\ work' = work /\ InBeat(w, "sending")
        /\ \E alive \in BOOLEAN : AfterBeat(w, alive)
    BY <1>2, <1>20 DEF BeatOk, BeatAccepted, BeatStale, BeatRefused, Leave
  <2> QED BY <1>19, <2>1
<1>21. CASE BeatError(w)
  <2>1. /\ calls'[Main(w)] = calls[Main(w)] /\ calls'[Beat(w)] = Idle
        /\ work' = work /\ InBeat(w, "sending")
    BY <1>2, <1>21 DEF BeatError, AbandonCall, Leave
  <2>2. CASE Serving(w) /\ now < beat[w].deadline
    <3>1. /\ beat'[w].pc = "waiting" /\ beat'[w].token = beat[w].token
          /\ beat'[w].lost = beat[w].lost
      BY <1>1, <1>21, <2>2 DEF BeatError, OwnTypes, BeatRec
    <3> QED BY <1>1, <1>3, <2>1, <2>2, <3>1
            DEF WorkerInv, CallsOf, HoldsOf, Serving, InBeat
  <2>3. CASE ~(Serving(w) /\ now < beat[w].deadline)
    <3>1. AfterBeat(w, FALSE)
      BY <1>21, <2>3 DEF BeatError
    <3> QED BY <1>19, <2>1, <3>1
  <2> QED BY <2>2, <2>3
<1> QED BY <1>4, <1>5, <1>6, <1>7, <1>8, <1>9, <1>10, <1>11, <1>12, <1>13, <1>14,
           <1>15, <1>16, <1>17, <1>18, <1>20, <1>21 DEF WorkerStep

LEMMA WorkerInvStep ==
  ASSUME DrainInv, [DrainNext]_dvars, NEW v \in Worker
  PROVE  WorkerInv(v)'
<1>1. OwnTypes /\ TypeOK /\ WorkerInv(v) /\ granted \subseteq granted'
  BY OwnTypesHold, LeasesGrantedStep DEF DrainInv
<1>2. /\ Main(v) \in Client /\ Beat(v) \in Client
      /\ calls = [c \in Client |-> calls[c]]
  BY <1>1, ThreadsApart DEF TypeOK
<1>3. ASSUME work' = work, beat' = beat, calls'[Main(v)] = calls[Main(v)],
             calls'[Beat(v)] = calls[Beat(v)]
      PROVE  WorkerInv(v)'
  BY <1>1, <1>3, WorkerKept
<1>4. ASSUME NEW w \in Worker, WorkerStep(w), UNCHANGED layout
      PROVE  WorkerInv(v)'
  <2>1. CASE w = v
    BY <1>4, <2>1, WorkerOwnStep
  <2>2. CASE w # v
    <3>1. work'[v] = work[v] /\ beat'[v] = beat[v]
      BY <1>1, <1>4, <2>2, OtherRecords
    <3>2. /\ Main(w) \in Client /\ Beat(w) \in Client
          /\ Main(v) \notin {Main(w), Beat(w)} /\ Beat(v) \notin {Main(w), Beat(w)}
      BY <2>2, ThreadsApart
    <3>3. ClientStep(Main(w)) \/ ClientStep(Beat(w)) \/ UNCHANGED vars
      BY <1>4, WorkerIsClient DEF DrainInv
    <3>4. calls'[Main(v)] = calls[Main(v)] /\ calls'[Beat(v)] = calls[Beat(v)]
      BY <1>1, <1>2, <3>2, <3>3, OtherCalls DEF vars
    <3> QED BY <1>1, <3>1, <3>4, WorkerKept
  <2> QED BY <2>1, <2>2
<1>5. ASSUME NEW d \in Drain, DrainStart(d) \/ DrainSwept(d)
      PROVE  WorkerInv(v)'
  <2>1. d \in Client /\ Main(v) # d /\ Beat(v) # d /\ ClientStep(d)
    BY <1>5, OtherThreads, ThreadsApart DEF DrainStart, DrainSwept, ClientStep
  <2>2. calls'[Main(v)] = calls[Main(v)] /\ calls'[Beat(v)] = calls[Beat(v)]
    BY <1>1, <1>2, <2>1, OtherCalls
  <2> QED BY <1>3, <1>5, <2>2 DEF DrainStart, DrainSwept
<1>6. ASSUME NEW d \in Drain, Crash(d)
      PROVE  WorkerInv(v)'
  <2>1. CASE layout[v] = d
    <3>1. Main(v) \in Threads(d) /\ Beat(v) \in Threads(d)
      BY <2>1 DEF Threads
    <3>2. calls'[Main(v)] = Idle /\ calls'[Beat(v)] = Idle
      BY <1>2, <1>6, <3>1 DEF Crash
    <3>3. work'[v] = Free /\ beat'[v] = NoBeat
      BY <1>6, <2>1 DEF Crash
    <3>4. /\ work'[v].pc = "idle" /\ work'[v].token = NoToken
          /\ work'[v].late = 0 /\ beat'[v].pc = "off" /\ beat'[v].lost = FALSE
      BY <3>3 DEF Free, NoBeat
    <3>5. CallsOf(v)'
      BY <3>2, <3>4 DEF CallsOf
    <3>6. HoldsOf(v)'
      BY <3>4 DEF HoldsOf, Holding
    <3> QED BY <3>5, <3>6 DEF WorkerInv
  <2>2. CASE layout[v] # d
    <3>1. Main(v) \notin Threads(d) /\ Beat(v) \notin Threads(d)
      BY <1>6, <2>2, ThreadsApart DEF Threads
    <3>2. calls'[Main(v)] = calls[Main(v)] /\ calls'[Beat(v)] = calls[Beat(v)]
      BY <1>2, <1>6, <3>1 DEF Crash
    <3>3. work'[v] = work[v] /\ beat'[v] = beat[v]
      BY <1>6, <2>2 DEF Crash
    <3> QED BY <1>1, <3>2, <3>3, WorkerKept
  <2> QED BY <2>1, <2>2
<1>7. CASE Enqueue
  <2>1. Intake \in Client /\ ClientStep(Intake)
    BY <1>7, OtherThreads DEF Enqueue, ClientStep
  <2>2. Main(v) # Intake /\ Beat(v) # Intake
    BY ThreadsApart
  <2>3. calls'[Main(v)] = calls[Main(v)] /\ calls'[Beat(v)] = calls[Beat(v)]
    BY <1>1, <1>2, <2>1, <2>2, OtherCalls
  <2> QED BY <1>3, <1>7, <2>3 DEF Enqueue, own
<1>8. CASE \/ \E j \in Job : OperatorCancel(j)
           \/ \E j \in Job, reset \in BOOLEAN : OperatorRetry(j, reset)
           \/ DrainTick \/ UNCHANGED dvars
  BY <1>3, <1>8 DEF OperatorCancel, OperatorRetry, Cancel, Retry, DrainTick, Tick,
     dvars, vars, own
<1> QED BY <1>4, <1>5, <1>6, <1>7, <1>8 DEF DrainNext, DrainStep

-----------------------------------------------------------------------------
(* Leases in time, if PromptReread.                                        *)

LEMMA CallsPromptStep ==
  ASSUME DrainInv, PromptReread, [DrainNext]_dvars
  PROVE  CallsPrompt'
<1>1. TypeOK /\ CallsPrompt /\ now \in Nat /\ Lease \in Nat
  BY QueueAssumption DEF QueueAssumption, DrainInv, QueueInv, TypeOK, Time
<1>2. ASSUME NEW c \in Client, ClientStep(c), now' = now
      PROVE  CallsPrompt'
  <2>1. PICK call : CallBegun(call) /\ calls' = [calls EXCEPT ![c] = call]
    BY <1>1, <1>2, CallStep
  <2>2. now <= now + Lease
    BY <1>1
  <2> QED BY <1>1, <1>2, <2>1, <2>2 DEF CallsPrompt, CallBegun, TypeOK
<1>3. CASE DrainTick
  BY <1>3 DEF DrainTick, Tick, PromptAt, CallsPrompt
<1>4. ASSUME NEW d \in Drain, Crash(d)
      PROVE  CallsPrompt'
  BY <1>1, <1>4, CrashEnds DEF CallsPrompt, Idle
<1>5. CASE UNCHANGED <<calls, now>>
  BY <1>1, <1>5 DEF CallsPrompt
<1>6. ASSUME NEW w \in Worker, WorkerStep(w)
      PROVE  CallsPrompt'
  <2>1. now' = now
    BY <1>6 DEF WorkerStep, LeaseStart, LimitReached, LeaseSwept, LeaseNone,
       LeaseCommit, LeaseReturn, ProbeSend, ProbeOk, ProbeStale, CheckLease,
       GiveUpJob, WriteZotero, StretchEnds, ReportSend, ReportOk, ReportStale, StoreError,
       BeatSend, BeatOk, BeatStale, BeatError, SweepSelect, SweepUpdate,
       LeaseNothing, LeaseJob, BeatBegin, BeatAccepted, BeatRefused,
       ReportBegin, ReportAccepted, ReportDiscarded, AbandonCall, vars
  <2>2. ClientStep(Main(w)) \/ ClientStep(Beat(w)) \/ UNCHANGED vars
    BY <1>6, WorkerIsClient DEF DrainInv
  <2> QED BY <1>2, <1>5, <2>1, <2>2, ThreadsApart DEF vars
<1>7. ASSUME NEW d \in Drain, DrainStart(d) \/ DrainSwept(d)
      PROVE  CallsPrompt'
  <2>1. ClientStep(d) /\ d \in Client /\ now' = now
    BY <1>7, OtherThreads
       DEF DrainStart, DrainSwept, SweepSelect, SweepUpdate, ClientStep
  <2> QED BY <1>2, <2>1
<1>8. CASE Enqueue
  <2>1. ClientStep(Intake) /\ Intake \in Client /\ now' = now
    BY <1>8, OtherThreads DEF Enqueue, EnqueueLookup, EnqueueInsert, ClientStep
  <2> QED BY <1>2, <2>1
<1>9. CASE \/ \E j \in Job : OperatorCancel(j)
           \/ \E j \in Job, reset \in BOOLEAN : OperatorRetry(j, reset)
           \/ UNCHANGED dvars
  BY <1>5, <1>9 DEF OperatorCancel, OperatorRetry, Cancel, Retry, dvars, vars
<1> QED BY <1>3, <1>4, <1>6, <1>7, <1>8, <1>9 DEF DrainNext, DrainStep

(* How a worker's record changes: what it holds stays, is let go, is read  *)
(* back from the row, or is a lease just committed.                        *)
Same(v) ==
  /\ work'[v].token = work[v].token /\ work'[v].claim = work[v].claim
  /\ \/ work'[v].pc = work[v].pc
     \/ work[v].pc \in Holding /\ work'[v].pc \in Holding
Empty(v) == work'[v].pc \in {"idle", "leasing", "done"}
Read(v) ==
  /\ work[v].pc = "leased" /\ work'[v].pc = "granted"
  /\ work'[v].token.job = work[v].token.job
  /\ work'[v].token.owner = jobs[work[v].token.job].owner
  /\ work'[v].claim = work[v].claim
Took(v, j) ==
  /\ LeaseCommit(v, j)
  /\ work'[v].pc = "leased"
  /\ work'[v].token.job = j /\ work'[v].claim = claims'[j]

LEMMA OwnMove ==
  ASSUME DrainInv, NEW v \in Worker, WorkerStep(v)
  PROVE  Same(v) \/ Empty(v) \/ Read(v) \/ \E j \in Job : Took(v, j)
<1>1. OwnTypes
  BY OwnTypesHold DEF DrainInv
<1>2. CASE LeaseStart(v) \/ LimitReached(v) \/ LeaseNone(v)
  BY <1>1, <1>2, GotoFields DEF LeaseStart, LimitReached, LeaseNone, Empty
<1>3. CASE \/ LeaseSwept(v) \/ BeatSend(v) \/ BeatOk(v) \/ BeatStale(v)
           \/ BeatError(v)
  BY <1>3 DEF LeaseSwept, BeatSend, BeatOk, BeatStale, BeatError, own, Same
<1>4. ASSUME NEW j \in Job, LeaseCommit(v, j)
      PROVE  Took(v, j)
  <2>1. work'[v] = [work[v] EXCEPT !.pc = "leased", !.claim = claims'[j],
                                   !.token = [NoToken EXCEPT !.job = j]]
    BY <1>1, <1>4 DEF LeaseCommit, OwnTypes
  <2>2. /\ work'[v].pc = "leased" /\ work'[v].claim = claims'[j]
        /\ work'[v].token = [NoToken EXCEPT !.job = j]
    BY <1>1, <2>1 DEF OwnTypes, WorkRec
  <2> QED BY <1>4, <2>2 DEF Took, NoToken
<1>5. CASE LeaseReturn(v)
  <2> DEFINE row == jobs[work[v].token.job]
  <2>1. CASE row.owner = None
    <3>1. work'[v] = Free
      BY <1>1, <1>5, <2>1 DEF LeaseReturn, OwnTypes
    <3> QED BY <3>1 DEF Free, Empty
  <2>2. CASE row.owner # None
    <3> DEFINE token == [job |-> work[v].token.job, owner |-> row.owner,
                         attempt |-> row.attempts]
    <3>1. token.job = work[v].token.job /\ token.owner = row.owner
      OBVIOUS
    <3>2. work'[v] = [work[v] EXCEPT !.pc = "granted", !.token = token]
      BY <1>1, <1>5, <2>2 DEF LeaseReturn, OwnTypes
    <3> HIDE DEF token
    <3>3. /\ work'[v].pc = "granted" /\ work'[v].token = token
          /\ work'[v].claim = work[v].claim
      BY <1>1, <3>2 DEF OwnTypes, WorkRec
    <3> QED BY <1>5, <3>1, <3>3 DEF LeaseReturn, At, Read
  <2> QED BY <2>1, <2>2
<1>6. CASE \/ ProbeSend(v) \/ ProbeOk(v)
           \/ (\E outcome \in Outcome : ReportSend(v, outcome))
  BY <1>1, <1>6, GotoFields
     DEF ProbeSend, ProbeOk, ReportSend, At, Same, Holding
<1>7. CASE CheckLease(v) \/ WriteZotero(v) \/ StretchEnds(v)
  <2>1. /\ work'[v].pc \in {"working", "writing"}
        /\ work'[v].token = work[v].token /\ work'[v].claim = work[v].claim
    BY <1>1, <1>7 DEF CheckLease, WriteZotero, StretchEnds, At, OwnTypes, WorkRec
  <2> QED BY <1>7, <2>1
          DEF CheckLease, WriteZotero, StretchEnds, At, Same, Holding
<1>8. CASE \/ ProbeStale(v) \/ GiveUpJob(v) \/ ReportOk(v) \/ ReportStale(v)
  BY <1>1, <1>8, EndJobFields
     DEF ProbeStale, GiveUpJob, ReportOk, ReportStale, Empty
<1>9. CASE StoreError(v)
  <2>1. CASE work[v].pc = "reporting"
    BY <1>1, <1>9, <2>1, GotoFields DEF StoreError, Same, Holding
  <2>2. CASE work[v].pc # "reporting"
    BY <1>1, <1>9, <2>2, EndJobFields DEF StoreError, Empty
  <2> QED BY <2>1, <2>2
<1> QED BY <1>2, <1>3, <1>4, <1>5, <1>6, <1>7, <1>8, <1>9 DEF WorkerStep

(* The same for any step of the drains.                                    *)
LEMMA WorkMove ==
  ASSUME DrainInv, [DrainNext]_dvars, NEW v \in Worker
  PROVE  Same(v) \/ Empty(v) \/ Read(v) \/ \E j \in Job : Took(v, j)
<1>1. OwnTypes
  BY OwnTypesHold DEF DrainInv
<1>2. ASSUME NEW w \in Worker, WorkerStep(w)
      PROVE  Same(v) \/ Empty(v) \/ Read(v) \/ \E j \in Job : Took(v, j)
  <2>1. CASE w = v
    BY <1>2, <2>1, OwnMove
  <2>2. CASE w # v
    BY <1>1, <1>2, <2>2, OtherRecords DEF Same
  <2> QED BY <2>1, <2>2
<1>3. ASSUME NEW d \in Drain, Crash(d)
      PROVE  Same(v) \/ Empty(v)
  BY <1>3 DEF Crash, Same, Empty, Free
<1>4. CASE work' = work
  BY <1>4 DEF Same
<1> QED BY <1>2, <1>3, <1>4 DEF DrainNext, DrainStep, DrainStart, DrainSwept,
           Enqueue, OperatorCancel, OperatorRetry, DrainTick, dvars, own

(* A call that is neither a report, a heartbeat nor an orphan sweep leaves *)
(* a row with a live lease as it is.                                       *)
LEMMA LiveRowStands ==
  ASSUME QueueInv, NEW c \in Client, ClientStep(c),
         calls[c].op \notin {"report", "beat", "reap"}, NEW j \in Job,
         jobs[j].status = "running", jobs[j].until >= now
  PROVE  jobs'[j] = jobs[j]
BY LiveRowTaken DEF TakenBy, TakenAsOrphan, ReportAccepted, BeatAccepted, ReapUpdate

(* A heartbeat in time leaves a live lease live.                           *)
LEMMA LiveRowExtended ==
  ASSUME TypeOK, CallsPrompt, NEW c \in Client, BeatAccepted(c), NEW v \in Worker,
         NEW j \in Job, LiveRow(j, v)
  PROVE  LiveRow(j, v)'
<1>1. calls[c] \in BeatCall /\ now <= calls[c].since + Lease /\ now' = now
  BY CallFields DEF TypeOK, BeatAccepted, CallsPrompt
<1>2. PICK t \in calls[c].since .. now :
        jobs' = [jobs EXCEPT ![calls[c].token.job] = Extended(@, t)]
  BY DEF BeatAccepted
<1>3. /\ calls[c].since \in Nat /\ calls[c].token.job \in Job /\ t \in Nat
      /\ now \in Nat /\ Lease \in Nat /\ t + Lease \in Nat /\ jobs[j] \in Row
  BY <1>1, QueueAssumption
     DEF QueueAssumption, BeatCall, Token, TypeOK, Time
<1>4. CASE j = calls[c].token.job
  <2>1. jobs'[j] = Extended(jobs[j], t)
    BY <1>2, <1>4 DEF TypeOK
  <2>2. /\ jobs'[j].status = jobs[j].status /\ jobs'[j].owner = jobs[j].owner
        /\ jobs'[j].until = t + Lease
    BY <1>3, <2>1 DEF Extended, Row
  <2>3. t + Lease >= now
    BY <1>1, <1>3
  <2> QED BY <1>1, <2>2, <2>3 DEF LiveRow
<1>5. CASE j # calls[c].token.job
  <2>1. jobs'[j] = jobs[j]
    BY <1>2, <1>5 DEF TypeOK
  <2> QED BY <1>1, <2>1 DEF LiveRow
<1> QED BY <1>4, <1>5

(* A worker that is to read its lease back still has it.                   *)
LEMMA LeasedStands ==
  ASSUME DrainInv, PromptReread, [DrainNext]_dvars, NEW v \in Worker,
         NEW j \in Job, work[v].pc = "leased", j = work[v].token.job
  PROVE  LiveRow(j, v)'
<1>1. /\ OwnTypes /\ TypeOK /\ QueueInv /\ CallsPrompt /\ WorkerInv(v)
      /\ LiveRow(j, v) /\ v # None
  BY OwnTypesHold, ThreadsApart DEF DrainInv, OwnLease, OwnToken
<1>2. jobs[j].status = "running" /\ jobs[j].owner = v /\ jobs[j].until >= now
  BY <1>1 DEF LiveRow
<1>3. ASSUME NEW c \in Client, ClientStep(c), now' = now,
             calls[c].op \notin {"report", "beat", "reap"}
      PROVE  LiveRow(j, v)'
  <2>1. jobs'[j] = jobs[j]
    BY <1>1, <1>2, <1>3, LiveRowStands
  <2> QED BY <1>2, <1>3, <2>1 DEF LiveRow
<1>4. CASE UNCHANGED <<jobs, now>>
  BY <1>1, <1>4 DEF LiveRow
<1>5. ASSUME NEW w \in Worker, WorkerStep(w)
      PROVE  LiveRow(j, v)'
  <2>1. Main(w) \in Client /\ Beat(w) \in Client /\ WorkerInv(w)
    BY ThreadsApart DEF DrainInv
  <2>2. CASE LeaseSwept(w) \/ LeaseNone(w) \/ \E i \in Job : LeaseCommit(w, i)
    <3>1. /\ now' = now /\ ClientStep(Main(w))
          /\ calls[Main(w)].op \in {"sweep", "claim"}
      BY <2>2 DEF LeaseSwept, LeaseNone, LeaseCommit, SweepUpdate, LeaseNothing,
         LeaseJob, ClientStep
    <3> QED BY <1>3, <2>1, <3>1
  <2>3. CASE ProbeOk(w)
    <3>1. BeatAccepted(Main(w))
      BY <2>3 DEF ProbeOk
    <3> QED BY <1>1, <2>1, <3>1, LiveRowExtended
  <2>4. CASE BeatOk(w)
    <3>1. BeatAccepted(Beat(w))
      BY <2>4 DEF BeatOk
    <3> QED BY <1>1, <2>1, <3>1, LiveRowExtended
  <2>5. CASE ReportOk(w)
    <3>1. /\ ReportAccepted(Main(w)) /\ work[w].pc \in {"reporting", "failing"}
          /\ calls[Main(w)].op = "report" /\ now' = now
      BY <2>5 DEF ReportOk, At, ReportAccepted
    <3>2. calls[Main(w)].token = work[w].token
      BY <2>1, <3>1 DEF WorkerInv, CallsOf, Idle
    <3>3. work[w].token.owner = w /\ w # v
      BY <3>1 DEF DrainInv, OwnLease, OwnToken, Holding
    <3>4. RowKept(j)
      BY <1>1, <1>2, <2>1, <3>1, <3>2, <3>3, ReportChange
    <3> QED BY <1>2, <3>1, <3>4 DEF RowKept, LiveRow
  <2>6. CASE \/ LeaseStart(w) \/ LimitReached(w) \/ LeaseReturn(w)
             \/ ProbeSend(w) \/ ProbeStale(w) \/ CheckLease(w) \/ GiveUpJob(w)
             \/ WriteZotero(w) \/ StretchEnds(w)
             \/ (\E outcome \in Outcome : ReportSend(w, outcome))
             \/ ReportStale(w) \/ StoreError(w) \/ BeatSend(w) \/ BeatStale(w)
             \/ BeatError(w)
    <3>1. UNCHANGED <<jobs, now>>
      BY <2>6 DEF LeaseStart, LimitReached, LeaseReturn, ProbeSend, ProbeStale,
         CheckLease, GiveUpJob, WriteZotero, StretchEnds, ReportSend,
         ReportStale, StoreError,
         BeatSend, BeatStale, BeatError, SweepSelect, BeatBegin, BeatRefused,
         ReportBegin, ReportDiscarded, AbandonCall, vars
    <3> QED BY <1>4, <3>1
  <2> QED BY <1>5, <2>2, <2>3, <2>4, <2>5, <2>6 DEF WorkerStep
<1>6. ASSUME NEW d \in Drain, DrainStart(d) \/ DrainSwept(d) \/ Crash(d)
      PROVE  LiveRow(j, v)'
  <2>1. CASE DrainSwept(d)
    <3>1. ClientStep(d) /\ d \in Client /\ now' = now /\ calls[d].op = "sweep"
      BY <2>1, OtherThreads DEF DrainSwept, SweepUpdate, ClientStep
    <3> QED BY <1>3, <3>1
  <2>2. CASE DrainStart(d) \/ Crash(d)
    BY <1>4, <2>2 DEF DrainStart, Crash, SweepSelect
  <2> QED BY <1>6, <2>1, <2>2
<1>7. CASE Enqueue
  <2>1. CASE EnqueueInsert(Intake)
    <3>1. /\ ClientStep(Intake) /\ Intake \in Client /\ now' = now
          /\ calls[Intake].op = "insert"
      BY <2>1, OtherThreads DEF EnqueueInsert, ClientStep
    <3> QED BY <1>3, <3>1
  <2>2. CASE \E k \in Key, b \in Budgets : EnqueueLookup(Intake, k, b)
    BY <1>4, <2>2 DEF EnqueueLookup
  <2> QED BY <1>7, <2>1, <2>2 DEF Enqueue
<1>8. ASSUME NEW i \in Job, OperatorCancel(i)
      PROVE  LiveRow(j, v)'
  <2>1. i # j /\ now' = now
    BY <1>2, <1>8 DEF OperatorCancel, Cancel
  <2>2. RowKept(j)
    BY <1>1, <1>8, <2>1, CancelChange DEF OperatorCancel
  <2> QED BY <1>2, <2>1, <2>2 DEF RowKept, LiveRow
<1>9. ASSUME NEW i \in Job, NEW reset \in BOOLEAN, OperatorRetry(i, reset)
      PROVE  LiveRow(j, v)'
  <2>1. i # j /\ now' = now
    BY <1>2, <1>9 DEF OperatorRetry, Retry, Terminal, Reported
  <2>2. RowKept(j)
    BY <1>1, <1>9, <2>1, RetryChange DEF OperatorRetry
  <2> QED BY <1>2, <2>1, <2>2 DEF RowKept, LiveRow
<1>10. CASE DrainTick
  <2>1. now + 1 <= jobs[j].until /\ now' = now + 1 /\ jobs' = jobs
    BY <1>10 DEF DrainTick, Tick, PromptAt
  <2>2. now \in Nat /\ jobs[j].until \in Int
    BY <1>1, QueueAssumption DEF QueueAssumption, TypeOK, Time, Row
  <2> QED BY <1>2, <2>1, <2>2 DEF LiveRow
<1>11. CASE UNCHANGED dvars
  BY <1>4, <1>11 DEF dvars, vars
<1> QED BY <1>5, <1>6, <1>7, <1>8, <1>9, <1>10, <1>11
        DEF DrainNext, DrainStep

LEMMA CommittedLive ==
  ASSUME DrainInv, PromptReread, NEW v \in Worker, NEW j \in Job,
         LeaseCommit(v, j)
  PROVE  LiveRow(j, v)'
<1>1. /\ jobs'[j].status = "running" /\ jobs'[j].owner = v
      /\ \E t \in calls[Main(v)].since .. now : jobs'[j].until = t + Lease
  BY CommittedLease
<1>2. /\ calls[Main(v)].op = "claim" /\ now' = now /\ Main(v) \in Client
  BY ThreadsApart DEF LeaseCommit, LeaseJob
<1>3. calls[Main(v)] \in ClaimCall /\ now <= calls[Main(v)].since + Lease
  BY <1>2, CallFields DEF DrainInv, QueueInv, TypeOK, CallsPrompt
<1>4. calls[Main(v)].since \in Nat /\ Lease \in Nat /\ now \in Nat
  BY <1>3, QueueAssumption
     DEF QueueAssumption, ClaimCall, DrainInv, QueueInv, TypeOK, Time
<1>5. \A t \in calls[Main(v)].since .. now : t + Lease >= now
  BY <1>3, <1>4
<1> QED BY <1>1, <1>2, <1>5 DEF LiveRow

LEMMA OwnTokenStep ==
  ASSUME DrainInv, PromptReread, [DrainNext]_dvars, NEW v \in Worker
  PROVE  OwnToken(v)'
<1>1. OwnToken(v)
  BY DEF DrainInv, OwnLease
<1>2. CASE Same(v)
  <2>1. work'[v].pc \in Holding => work'[v].token.owner = v
    BY <1>1, <1>2 DEF OwnToken, Same
  <2>2. ASSUME work'[v].pc = "leased"
        PROVE  LiveRow(work[v].token.job, v)'
    <3>1. work[v].pc = "leased" /\ work'[v].token.job = work[v].token.job
      BY <1>2, <2>2 DEF Same, Holding
    <3>2. PICK j \in Job : j = work[v].token.job
      BY <3>1 DEF DrainInv, WorkerInv, HoldsOf
    <3>3. LiveRow(j, v)'
      BY <3>1, <3>2, LeasedStands
    <3> QED BY <3>1, <3>2, <3>3 DEF LiveRow
  <2> QED BY <2>1, <2>2 DEF OwnToken
<1>3. CASE Empty(v)
  BY <1>3 DEF Empty, OwnToken, Holding
<1>4. CASE Read(v)
  BY <1>1, <1>4 DEF Read, OwnToken, LiveRow, Holding
<1>5. ASSUME NEW j \in Job, Took(v, j)
      PROVE  OwnToken(v)'
  <2>1. LiveRow(j, v)'
    BY <1>5, CommittedLive DEF Took
  <2> QED BY <1>5, <2>1 DEF Took, OwnToken, LiveRow, Holding
<1> QED BY <1>2, <1>3, <1>4, <1>5, WorkMove

(* The rows that get an owner by a step are those of a LeaseCommit of that *)
(* owner, which also counts the claim.                                     *)
LEMMA NewestClaimStep ==
  ASSUME DrainInv, PromptReread, [DrainNext]_dvars, NEW v \in Worker
  PROVE  NewestClaim(v)'
<1>1. /\ NewestClaim(v) /\ WorkerInv(v) /\ TypeOK /\ OwnTypes /\ QueueInv
      /\ v # None
  BY OwnTypesHold, ThreadsApart DEF DrainInv, OwnLease
<1>2. CASE Same(v) \/ Read(v)
  <2> DEFINE j == work[v].token.job
  <2>1. work'[v].token.job = j /\ work'[v].claim = work[v].claim
    BY <1>2 DEF Same, Read
  <2> SUFFICES ASSUME work'[v].pc \in Holding \cup {"leased"},
                      jobs'[j].owner = v
               PROVE  work[v].claim = claims'[j]
    BY <2>1 DEF NewestClaim
  <2>2. work[v].pc \in Holding \cup {"leased"}
    BY <1>2 DEF Same, Read
  <2>3. j \in Job
    BY <1>1, <2>2 DEF WorkerInv, HoldsOf, TypeOK, Token
  <2>4. jobs[j].owner = v => work[v].claim = claims[j]
    BY <1>1, <2>2 DEF NewestClaim
  <2>5. CASE NothingLeased
    BY <1>1, <2>3, <2>4, <2>5, NotLeasedRow DEF NothingLeased
  <2>6. ASSUME NEW w \in Worker, NEW i \in Job, LeaseCommit(w, i)
        PROVE  work[v].claim = claims'[j]
    <3>1. CASE j = i
      <4>1. w = v
        BY <2>6, <3>1, CommittedLease
      <4>2. work[v].pc = "leasing"
        BY <2>6, <4>1 DEF LeaseCommit, At
      <4> QED BY <2>2, <4>2 DEF Holding
    <3>2. CASE j # i
      <4>1. jobs[j].owner = v
        BY ZenonT(30), <1>1, <2>3, <2>6, <3>2, CommittedLease, NotLeasedRow
      <4>2. claims'[j] = claims[j]
        BY <1>1, <2>3, <2>6, <3>2 DEF LeaseCommit, OwnTypes
      <4> QED BY <2>4, <4>1, <4>2
    <3> QED BY <3>1, <3>2
  <2> QED BY <2>5, <2>6, LeasedOrNot
<1>3. CASE Empty(v)
  BY <1>3 DEF Empty, NewestClaim, Holding
<1>4. ASSUME NEW j \in Job, Took(v, j)
      PROVE  NewestClaim(v)'
  BY <1>4 DEF Took, NewestClaim
<1> QED BY <1>2, <1>3, <1>4, WorkMove

-----------------------------------------------------------------------------
(* The inductive invariant holds.                                          *)

LEMMA DrainInvInit == DrainInit => DrainInv
<1> SUFFICES ASSUME DrainInit PROVE DrainInv
  OBVIOUS
<1>1. QueueInv
  BY QueueInvInit DEF DrainInit
<1>2. /\ work = [w \in Worker |-> Free] /\ beat = [w \in Worker |-> NoBeat]
      /\ claims = [j \in Job |-> 0] /\ author = [j \in Job |-> Nobody]
      /\ jobs = [j \in Job |-> NoRow] /\ calls = [c \in Client |-> Idle]
      /\ layout \in Layouts /\ now = 0 /\ Limit \in Nat /\ MaxClaims \in Nat
  BY DrainAssumption DEF DrainAssumption, DrainInit, Init
<1>3. drain \in [Drain -> DrainRec]
  BY <1>2 DEF DrainInit, DrainRec, Phases
<1>4. OwnTypes
  BY <1>2, <1>3, FreshRecords, DrainAssumption DEF DrainAssumption, OwnTypes
<1>5. DrainTypeOK
  BY <1>1, <1>2, <1>4
     DEF DrainTypeOK, OwnTypes, DrainRec, WorkRec, BeatRec, Author, QueueInv
<1>6. LeasesGranted /\ OwnersWork
  BY <1>2 DEF LeasesGranted, OwnersWork, NoRow
<1>7. ASSUME NEW w \in Worker
      PROVE  WorkerInv(w) /\ OwnLease(w)
  <2>1. calls[Main(w)] = Idle /\ calls[Beat(w)] = Idle
    BY <1>2, ThreadsApart
  <2>2. /\ work[w].pc = "idle" /\ work[w].token = NoToken /\ work[w].late = 0
        /\ beat[w].pc = "off" /\ beat[w].lost = FALSE
    BY <1>2 DEF Free, NoBeat
  <2> QED BY <2>1, <2>2 DEF WorkerInv, CallsOf, HoldsOf, OwnLease, OwnToken,
          NewestClaim, Holding
<1>8. CallsPrompt
  BY <1>2 DEF CallsPrompt, Idle
<1> QED BY <1>1, <1>5, <1>6, <1>7, <1>8 DEF DrainInv

LEMMA DrainInvStep == DrainInv /\ [DrainNext]_dvars => DrainInv'
<1> SUFFICES ASSUME DrainInv, [DrainNext]_dvars PROVE DrainInv'
  OBVIOUS
<1>1. DrainTypeOK' /\ QueueInv' /\ LeasesGranted' /\ OwnersWork'
  BY DrainTypeStep, QueueInvDrain, LeasesGrantedStep
<1>2. \A w \in Worker : WorkerInv(w)'
  BY WorkerInvStep
<1>3. PromptReread => CallsPrompt' /\ \A w \in Worker : OwnLease(w)'
  BY CallsPromptStep, OwnTokenStep, NewestClaimStep DEF OwnLease
<1> QED BY <1>1, <1>2, <1>3 DEF DrainInv

LEMMA DrainInvariant == DrainSpec => []DrainInv
BY DrainInvInit, DrainInvStep, PTL DEF DrainSpec

-----------------------------------------------------------------------------
(* DrainTypeOK: the queue, the drains, their workers and the heartbeat     *)
(* threads keep their types, a drain's slots their limit and a handler its *)
(* number of writes.                                                       *)
THEOREM DrainTypeCorrect == DrainSpec => []DrainTypeOK
<1>1. DrainInv => DrainTypeOK
  BY DEF DrainInv
<1> QED BY <1>1, DrainInvariant, PTL

(* OneLateStretch: a handler whose heartbeat thread has found the lease     *)
(* lost makes at most the writes of one stretch, the one it looked at the  *)
(* flag for before, however the two threads interleave.                    *)
THEOREM OneLateStretchAlways == DrainSpec => []OneLateStretch
<1>1. ASSUME DrainInv, NEW w \in Worker
      PROVE  work[w].late <= MaxStretch
  <2>1. work[w].late > 0 => work[w].late <= MaxStretch
    BY <1>1 DEF DrainInv, WorkerInv, HoldsOf
  <2>2. work[w].late \in Nat /\ MaxStretch \in Nat
    BY <1>1, OwnTypesHold, DrainAssumption
       DEF DrainInv, OwnTypes, WorkRec, DrainAssumption
  <2> QED BY <2>1, <2>2
<1>2. DrainInv => OneLateStretch
  BY <1>1 DEF OneLateStretch
<1> QED BY <1>2, DrainInvariant, PTL

(* OneWorkerPerLease: where lease_next returns within the lease, no two    *)
(* workers hold the same lease token.                                      *)
THEOREM OneWorkerPerLeaseAlways ==
  ASSUME PromptReread
  PROVE  DrainSpec => []OneWorkerPerLease
<1>1. ASSUME DrainInv, NEW w \in Worker
      PROVE  work[w].token.owner \in {None, w}
  <2>1. /\ work[w].pc \in PCs /\ OwnToken(w) /\ HoldsOf(w)
    BY <1>1, OwnTypesHold DEF DrainInv, OwnTypes, WorkRec, OwnLease, WorkerInv
  <2> QED BY <2>1 DEF PCs, Holding, OwnToken, HoldsOf, NoToken
<1>2. DrainInv => OneWorkerPerLease
  BY <1>1 DEF OneWorkerPerLease
<1> QED BY <1>2, DrainInvariant, PTL

-----------------------------------------------------------------------------
(* The drains implement LeaseQueue: each way in which a row changes is one *)
(* of its steps, or none that it sees.                                     *)

AbstractStep(j) == Abstract!JobStep(j) \/ Abstract!Unchanged(j)

LEMMA ProgressOf ==
  /\ \A row \in Row :
       Progress(row) \in {"absent", "available", "claimed", "settled"}
  /\ \A row : row.status = "absent" => Progress(row) = "absent"
  /\ \A row : row.status = "queued" => Progress(row) = "available"
  /\ \A row : row.status = "running" => Progress(row) = "claimed"
  /\ \A row : row.status \in Terminal => Progress(row) = "settled"
BY DEF Progress, Row, Status, Terminal, Reported

(* A row that is not running has no owner.                                 *)
LEMMA OwnedWhileRunning ==
  ASSUME DrainInv, NEW j \in Job
  PROVE  /\ jobs[j].status # "running" => jobs[j].owner = None
         /\ jobs[j] \in Row
BY DEF DrainInv, QueueInv, RowInv

LEMMA OwnedWhileRunningAfter ==
  ASSUME DrainInv', NEW j \in Job
  PROVE  /\ jobs'[j].status # "running" => jobs'[j].owner = None
         /\ jobs'[j] \in Row
BY DEF DrainInv, QueueInv, RowInv

LEMMA QuietImplements ==
  ASSUME DrainInv, DrainInv', NEW j \in Job, RowQuiet(j),
         claims'[j] = claims[j], author'[j] = author[j]
  PROVE  AbstractStep(j)
<1> USE DEF Becomes
<1>1. /\ jobs[j] \in Row /\ now \in Nat
      /\ jobs'[j].status # "running" => jobs'[j].owner = None
      /\ {"queued", "cancelled"} \subseteq Status
      /\ {"failed_final", "cancelled", "failed_retryable", "skipped"} \subseteq Terminal
      /\ "running" \notin Terminal
  BY OwnedWhileRunning, OwnedWhileRunningAfter, QueueAssumption
     DEF QueueAssumption, DrainInv, QueueInv, TypeOK, Time, Status, Terminal, Reported
<1>2. CASE RowKept(j)
  BY <1>2 DEF RowKept, AbstractStep, Abstract!Unchanged
<1>3. CASE RowCreated(j)
  <2>1. jobs[j].status = "absent" /\ jobs'[j].status = "queued"
    BY <1>3, CreatedRow DEF RowCreated
  <2>2. Progress(jobs[j]) = "absent" /\ Progress(jobs'[j]) = "available"
    BY <2>1, ProgressOf
  <2> QED BY <1>1, <2>1, <2>2 DEF AbstractStep, Abstract!JobStep, Abstract!Add,
          Abstract!Move, Abstract!Unclaimed, Abstract!SameClaim
<1>4. CASE RowRecovered(j)
  <2>1. jobs[j].status = "running" /\ jobs'[j].status = "queued"
    BY <1>1, <1>4, UnleasedRow DEF RowRecovered
  <2>2. Progress(jobs[j]) = "claimed" /\ Progress(jobs'[j]) = "available"
    BY <2>1, ProgressOf
  <2> QED BY <1>1, <2>1, <2>2 DEF AbstractStep, Abstract!JobStep, Abstract!Revoke,
          Abstract!Move, Abstract!Unclaimed, Abstract!SameClaim
<1>5. CASE RowExhausted(j) \/ RowCancelled(j)
  <2>1. /\ jobs[j].status \in {"queued"} \cup Terminal
        /\ jobs'[j].status \in Terminal
    <3>1. CASE RowExhausted(j)
      BY <1>1, <3>1, ExhaustedRow DEF RowExhausted
    <3>2. CASE RowCancelled(j)
      BY <1>1, <3>2, UnleasedRow DEF RowCancelled
    <3> QED BY <1>5, <3>1, <3>2
  <2>2. /\ Progress(jobs[j]) \in {"available", "settled"}
        /\ Progress(jobs'[j]) = "settled"
    BY <2>1, ProgressOf
  <2> QED BY <1>1, <2>1, <2>2 DEF AbstractStep, Abstract!JobStep, Abstract!GiveUp,
          Abstract!Move, Abstract!Unclaimed, Abstract!SameClaim
<1>6. CASE RowExtended(j)
  <2>1. PICK t \in 0..now : jobs'[j] = Extended(jobs[j], t)
    BY <1>6 DEF RowExtended
  <2>2. t \in Nat
    BY <1>1
  <2>3. jobs'[j].status = jobs[j].status /\ jobs'[j].owner = jobs[j].owner
    BY <1>1, <2>1, <2>2 DEF Extended, Row
  <2> QED BY <2>3 DEF Progress, AbstractStep, Abstract!Unchanged
<1> QED BY <1>2, <1>3, <1>4, <1>5, <1>6 DEF RowQuiet

(* The row's report is that of its owner, whose claim is the newest.       *)
LEMMA ReportImplements ==
  ASSUME DrainInv, DrainInv', PromptReread, NEW w \in Worker, ReportOk(w),
         NEW j \in Job
  PROVE  AbstractStep(j)
<1>1. /\ ReportAccepted(Main(w)) /\ work[w].pc \in {"reporting", "failing"}
      /\ calls[Main(w)].op = "report" /\ claims' = claims
  BY DEF ReportOk, At, ReportAccepted
<1>2. calls[Main(w)].token = work[w].token /\ TypeOK /\ OwnTypes
  BY <1>1, OwnTypesHold DEF DrainInv, WorkerInv, CallsOf, Idle
<1>3. CASE j # work[w].token.job
  <2>1. RowKept(j)
    BY <1>1, <1>2, <1>3, ReportChange, ThreadsApart
  <2>2. author'[j] = author[j]
    BY <1>2, <1>3 DEF ReportOk, OwnTypes
  <2> QED BY <1>1, <2>1, <2>2, QuietImplements DEF RowQuiet
<1>4. CASE j = work[w].token.job
  <2>1. RowReported(j) /\ jobs[j].owner = work[w].token.owner
    BY <1>1, <1>2, <1>4, ReportChange, ThreadsApart
  <2>2. work[w].token.owner = w /\ NewestClaim(w)
    BY <1>1 DEF DrainInv, OwnLease, OwnToken, Holding
  <2>3. work[w].claim = claims[j]
    BY <1>1, <1>4, <2>1, <2>2 DEF NewestClaim, Holding
  <2>4. author'[j] = [worker |-> jobs[j].owner, claim |-> claims[j]]
    BY <1>2, <1>4, <2>1, <2>2, <2>3 DEF ReportOk, OwnTypes
  <2>5. jobs[j].status = "running" /\ jobs'[j].status \in Reported
    <3>1. jobs[j] \in Row /\ Reported \subseteq Status
      BY OwnedWhileRunning DEF Status, Terminal
    <3> QED BY <2>1, <3>1, UnleasedRow DEF RowReported, Becomes
  <2>6. jobs'[j].owner = None
    BY <2>5, OwnedWhileRunningAfter DEF Reported
  <2>7. Progress(jobs[j]) = "claimed" /\ Progress(jobs'[j]) = "settled"
    BY <2>5, ProgressOf DEF Terminal
  <2> QED BY <1>1, <2>4, <2>6, <2>7 DEF AbstractStep, Abstract!JobStep,
          Abstract!Settle, Abstract!Move, Abstract!Unclaimed, Abstract!SameClaim
<1> QED BY <1>3, <1>4

LEMMA LeaseImplements ==
  ASSUME DrainInv, DrainInv', NEW w \in Worker, NEW i \in Job, LeaseCommit(w, i),
         NEW j \in Job
  PROVE  AbstractStep(j)
<1>1. TypeOK /\ OwnTypes /\ Main(w) \in Client /\ LeaseJob(Main(w), i)
  BY OwnTypesHold, ThreadsApart DEF DrainInv, LeaseCommit
<1>2. CASE j # i
  <2>1. RowKept(j) \/ RowExhausted(j)
    BY <1>1, <1>2, LeaseJobChange
  <2>2. claims'[j] = claims[j] /\ author'[j] = author[j]
    BY <1>1, <1>2 DEF LeaseCommit, OwnTypes
  <2> QED BY <2>1, <2>2, QuietImplements DEF RowQuiet
<1>3. CASE j = i
  <2>1. jobs[j].status = "queued"
    BY <1>1, <1>3, LeaseJobChange DEF RowLeased
  <2>2. jobs'[j].status = "running" /\ jobs'[j].owner = w
    BY <1>3, CommittedLease
  <2>3. claims'[j] = claims[j] + 1 /\ author'[j] = Nobody
    BY <1>1, <1>3 DEF LeaseCommit, OwnTypes
  <2>4. Progress(jobs[j]) = "available" /\ Progress(jobs'[j]) = "claimed"
    BY <2>1, <2>2, ProgressOf
  <2> QED BY <2>2, <2>3, <2>4 DEF AbstractStep, Abstract!JobStep, Abstract!Claim,
          Abstract!Move, Abstract!Nobody, Nobody
<1> QED BY <1>2, <1>3

LEMMA RetryImplements ==
  ASSUME DrainInv, DrainInv', NEW i \in Job, NEW reset \in BOOLEAN,
         OperatorRetry(i, reset), NEW j \in Job
  PROVE  AbstractStep(j)
<1>1. TypeOK /\ OwnTypes /\ Retry(i, reset) /\ claims' = claims
  BY OwnTypesHold DEF DrainInv, OperatorRetry
<1>2. CASE j # i
  <2>1. RowKept(j)
    BY <1>1, <1>2, RetryChange
  <2>2. author'[j] = author[j]
    BY <1>1, <1>2 DEF OperatorRetry, OwnTypes
  <2> QED BY <1>1, <2>1, <2>2, QuietImplements DEF RowQuiet
<1>3. CASE j = i
  <2>1. RowRetried(j)
    BY <1>1, <1>3, RetryChange
  <2>2. jobs[j].status \in Terminal /\ jobs'[j].status = "queued"
    BY <2>1, OwnedWhileRunning, RequeuedRow DEF RowRetried, Becomes
  <2>3. jobs'[j].owner = None
    BY <2>2, OwnedWhileRunningAfter
  <2>4. Progress(jobs[j]) = "settled" /\ Progress(jobs'[j]) = "available"
    BY <2>2, ProgressOf
  <2>5. author'[j] = Nobody
    BY <1>1, <1>3 DEF OperatorRetry, OwnTypes
  <2> QED BY <1>1, <2>3, <2>4, <2>5 DEF AbstractStep, Abstract!JobStep,
          Abstract!Reopen, Abstract!Move, Abstract!Unclaimed, Abstract!SameClaim,
          Abstract!Nobody, Nobody
<1> QED BY <1>2, <1>3

LEMMA StepImplements ==
  ASSUME DrainInv, DrainInv', PromptReread, [DrainNext]_dvars, NEW j \in Job
  PROVE  AbstractStep(j)
<1>1. CASE Quiet
  BY <1>1, QuietImplements DEF Quiet
<1>2. ASSUME NEW w \in Worker, ReportOk(w)
      PROVE  AbstractStep(j)
  BY <1>2, ReportImplements
<1>3. ASSUME NEW w \in Worker, NEW i \in Job, LeaseCommit(w, i)
      PROVE  AbstractStep(j)
  BY <1>3, LeaseImplements
<1>4. ASSUME NEW i \in Job, NEW reset \in BOOLEAN, OperatorRetry(i, reset)
      PROVE  AbstractStep(j)
  BY <1>4, RetryImplements
<1> QED BY <1>1, <1>2, <1>3, <1>4, FourKinds

(* ReportsComeFromHolder: where lease_next returns within the lease, the   *)
(* outcome a settled job shows is the report of the worker that held its   *)
(* latest claim, and every job takes only the steps of LeaseQueue.         *)
THEOREM DrainImplementsLeaseQueue ==
  ASSUME PromptReread
  PROVE  DrainSpec => ReportsComeFromHolder
<1>1. DrainInit => Abstract!Init
  <2> SUFFICES ASSUME DrainInit PROVE Abstract!Init
    OBVIOUS
  <2>1. /\ claims = [j \in Job |-> 0] /\ author = [j \in Job |-> Nobody]
        /\ jobs = [j \in Job |-> NoRow]
    BY DEF DrainInit, Init
  <2>2. Progress(NoRow) = "absent" /\ NoRow.owner = None
    BY ProgressOf DEF NoRow
  <2> QED BY <2>1, <2>2 DEF Abstract!Init, Abstract!Nobody, Nobody
<1>2. DrainInv /\ DrainInv' /\ [DrainNext]_dvars => [Abstract!Next]_(Abstract!vars)
  <2> SUFFICES ASSUME DrainInv, DrainInv', [DrainNext]_dvars
               PROVE  Abstract!Next
    OBVIOUS
  <2>1. /\ \A j \in Job : jobs'[j] \in Row /\ jobs'[j].owner \in Worker \cup {None}
        /\ DOMAIN claims' = Job /\ DOMAIN author' = Job
    BY OwnedWhileRunningAfter DEF DrainInv, OwnersWork, DrainTypeOK
  <2>2. \A j \in Job : Abstract!JobStep(j) \/ Abstract!Unchanged(j)
    BY StepImplements DEF AbstractStep
  <2> QED BY <2>1, <2>2, ProgressOf DEF Abstract!Next
<1> QED BY <1>1, <1>2, DrainInvariant, PTL
        DEF DrainSpec, ReportsComeFromHolder, Abstract!Spec
=============================================================================

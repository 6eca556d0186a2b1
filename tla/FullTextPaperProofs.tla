------------------------ MODULE FullTextPaperProofs -------------------------
(***************************************************************************)
(* Proofs about one paper on its way to its full text, about the script    *)
(* that drains papers batch by batch, and at the end about a page that is  *)
(* saved with its resources and the search for pages and PDFs.             *)
(*                                                                         *)
(* The first inductive invariant says of every source HTML a worker has in *)
(* its list of what to trash that a better one stands: one that is in the  *)
(* library, in the database and on the disk, and that ranks higher by the  *)
(* size of its document.  Sizes are read while files come and go, so the   *)
(* ranking of _source_html_rank is related to one by the documents alone,  *)
(* which does not change.  Where Zotero brings rows before files           *)
(* (EarlyRows) this is not true, and those parts are then left out.        *)
(*                                                                         *)
(* The second is the balance of the script's coordinator: what is reserved *)
(* is held by the batches under way or was used by the others.             *)
(*                                                                         *)
(* For a saved page it is that the sheets still open are the files counted *)
(* and not yet written; for a search, that the number in a file's name     *)
(* tells it from every earlier one of the same URL.                        *)
(***************************************************************************)
EXTENDS FullTextPaper, CompactDrain, SnapshotAssets, SourceSearch, FiniteSums, TLAPS

(* One document ranks higher than another, whatever is on the disk.        *)
Beats(i, k) ==
  \/ Size[att[i].doc] > Size[att[k].doc]
  \/ Size[att[i].doc] = Size[att[k].doc] /\ i > k

(* A source HTML a reader can open ranks higher than k, or k is one.       *)
Beaten(k) == EarlyRows \/ \E i \in Key : Valid(i) /\ Beats(i, k)
Stands(k) == EarlyRows \/ \E i \in Key : Valid(i) /\ (i = k \/ Beats(i, k))

(* An attachment the item began with whose file is not there; no worker    *)
(* ever writes it.                                                         *)
Foreign(k) == att[k].dedupe[1] = "elsewhere"
NeverHere(k) == EarlyRows \/ (Foreign(k) /\ ~att[k].file)

JobStatus == {"absent", "queued", "running", "succeeded", "skipped",
              "failed_retryable", "failed_final"}
JobRow == [status : JobStatus, attempts : 0..MaxAttempts,
           holder : Worker \cup {None}, made : SUBSET Key]
ThreadAt == {"idle", "discover", "trash", "pdf", "send", "copy", "fallback",
             "insert", "report", "preflight", "download"}
Thread == [pc : ThreadAt, job : Job \cup {None}, attempt : Nat,
           hasPdf : BOOLEAN, present : SUBSET Key, missing : SUBSET Key,
           html : Html \cup {None}, todo : SUBSET Key, errors : BOOLEAN,
           key : Nat, result : {"none", "ok", "failed"}, made : SUBSET Key]

(* What a job reports as attached.                                         *)
MadeOK(made) ==
  \A k \in made : k \in Attached /\ ~Foreign(k) /\ (att[k].live => att[k].file)

PresentOK(present) ==
  \A k \in present :
    /\ k \in Attached /\ IsHtml(k) /\ Stands(k)
    /\ att[k].live => att[k].row /\ att[k].file

MissingOK(missing) ==
  \A k \in missing : k \in Attached /\ IsHtml(k) /\ NeverHere(k)

TodoOK(todo) ==
  \A k \in todo : k \in Attached /\ IsHtml(k) /\ (Beaten(k) \/ NeverHere(k))

HasJob(r) == r.pc \notin {"idle", "trash", "insert"} => r.job \in Job

ThreadOK(r) ==
  /\ PresentOK(r.present) /\ MissingOK(r.missing) /\ TodoOK(r.todo)
  /\ MadeOK(r.made)
  /\ r.pc = "copy" => r.key \in Attached /\ ~Foreign(r.key)
  /\ HasJob(r)

RowOK(row) ==
  /\ row.status = "running" <=> row.holder \in Worker
  /\ row.status \in {"queued", "failed_retryable"} => row.attempts < MaxAttempts
  /\ MadeOK(row.made)

Distinct == \A i, j \in DOMAIN Elsewhere : Elsewhere[i] = Elsewhere[j] => i = j

AttachmentOK(k) ==
  /\ att[k].dedupe = <<att[k].dedupe[1], att[k].doc>>
  /\ ~att[k].live => IsHtml(k)
  /\ att[k].row /\ ~att[k].file => NeverHere(k)
  /\ IsHtml(k) /\ att[k].row /\ att[k].file => Stands(k)
  /\ IsHtml(k) /\ ~att[k].live /\ ~Foreign(k) => Stands(k)

LibraryOK ==
  /\ att \in [Key -> {None} \cup Attachment]
  /\ \A k \in Attached : AttachmentOK(k)
  /\ Distinct => OneCopyPerSource

QueueOK == jobs \in [Job -> JobRow] /\ \A j \in Job : RowOK(jobs[j])
ThreadsOK == at \in [Worker -> Thread] /\ \A w \in Worker : ThreadOK(at[w])
CountsOK == mishaps \in 0..MaxMishaps /\ claims \in 0..MaxClaims

PaperInv == LibraryOK /\ QueueOK /\ ThreadsOK /\ CountsOK

-----------------------------------------------------------------------------
(* The ranking.                                                            *)

LEMMA KeyIsNumber == Key \subseteq Nat
  BY PaperAssumption DEF Key

LEMMA NoneIsApart == None \notin Attachment /\ None \notin Worker /\ None \notin Html
  BY PaperAssumption

LEMMA AttachedIsRecord ==
  ASSUME att \in [Key -> {None} \cup Attachment], NEW k \in Key
  PROVE  /\ k \in Attached <=> att[k] \in Attachment
         /\ k \in Attached => /\ att[k].doc \in Html \cup {Pdf}
                              /\ att[k].live \in BOOLEAN
                              /\ att[k].row \in BOOLEAN
                              /\ att[k].file \in BOOLEAN
                              /\ att[k].dedupe \in Ways \X (Html \cup {Pdf})
<1>1. att[k] \in {None} \cup Attachment
  OBVIOUS
<1>2. k \in Attached <=> att[k] \in Attachment
  BY <1>1, NoneIsApart DEF Attached
<1> QED BY <1>2 DEF Attachment

LEMMA ValidIsAttached ==
  ASSUME NEW k, Valid(k)
  PROVE  /\ k \in Key /\ k \in Attached /\ IsHtml(k)
         /\ att[k].live /\ att[k].row /\ att[k].file
  BY DEF Valid, Present, HtmlRows, Attached

LEMMA WhatIsValid ==
  ASSUME NEW k \in Attached, IsHtml(k), att[k].live, att[k].row, att[k].file
  PROVE  Valid(k)
  BY DEF Valid, Present, HtmlRows

LEMMA SizeIsNumber ==
  ASSUME NEW k, IsHtml(k)
  PROVE  Size[att[k].doc] \in Nat
  BY PaperAssumption DEF IsHtml

LEMMA BeatsIsAnOrder ==
  ASSUME NEW i \in Key, NEW j \in Key, NEW k \in Key,
         IsHtml(i), IsHtml(j), IsHtml(k)
  PROVE  /\ ~Beats(i, i)
         /\ Beats(i, j) /\ Beats(j, k) => Beats(i, k)
<1>1. /\ Size[att[i].doc] \in Nat /\ Size[att[j].doc] \in Nat
      /\ Size[att[k].doc] \in Nat
  BY SizeIsNumber
<1> QED BY <1>1, KeyIsNumber DEF Beats

(* What stands for an attachment that is trashed is another.               *)
LEMMA TrashedIsBeaten ==
  ASSUME NEW k, Stands(k), ~att[k].live
  PROVE  Beaten(k)
  BY ValidIsAttached DEF Stands, Beaten

LEMMA BeatenStands ==
  ASSUME NEW k, Beaten(k)
  PROVE  Stands(k)
  BY DEF Stands, Beaten

LEMMA ValidStands ==
  ASSUME NEW k, Valid(k)
  PROVE  Stands(k)
  BY ValidIsAttached DEF Stands

(* Whoever ranks higher by the files there are now ranks higher by the     *)
(* documents, if the file of the other is there.                           *)
LEMMA OutranksByDocument ==
  ASSUME NEW m \in Attached, NEW k \in Attached, IsHtml(m), IsHtml(k),
         att[k].file, Outranks(m, k)
  PROVE  Beats(m, k)
<1>1. Size[att[m].doc] \in Nat /\ Size[att[k].doc] \in Nat
  BY SizeIsNumber
<1>2. att[k] # None
  BY DEF Attached
<1>3. m \in Nat /\ k \in Nat
  BY KeyIsNumber DEF Attached
<1> QED BY <1>1, <1>2, <1>3 DEF Outranks, Beats

(* Of an inventory, whatever its age, only what is beaten or was never     *)
(* here goes on the list of what to trash.                                 *)
LEMMA TrashListIsBeaten ==
  ASSUME att \in [Key -> {None} \cup Attachment],
         NEW present \in SUBSET Key, NEW missing \in SUBSET Key,
         PresentOK(present), MissingOK(missing)
  PROVE  /\ TrashList(present, missing) \in SUBSET Key
         /\ TodoOK(TrashList(present, missing))
<1>1. TrashList(present, missing) \in SUBSET Key
  BY DEF TrashList
<1>2. ASSUME NEW k \in TrashList(present, missing)
      PROVE  k \in Attached /\ IsHtml(k) /\ (Beaten(k) \/ NeverHere(k))
  <2>1. CASE k \in missing
    BY <2>1 DEF MissingOK
  <2>2. CASE k \notin missing
    <3>1. k \in present /\ k \notin KeepKey(present) /\ KeepKey(present) # {}
      BY <2>2 DEF TrashList
    <3>2. PICK m \in present : m \in KeepKey(present)
      BY <3>1 DEF KeepKey
    <3>3. m # k /\ Outranks(m, k)
      BY <3>1, <3>2 DEF KeepKey
    <3>4. /\ k \in Attached /\ IsHtml(k) /\ Stands(k)
          /\ att[k].live => att[k].row /\ att[k].file
          /\ m \in Attached /\ IsHtml(m) /\ Stands(m)
      BY <3>1, <3>2 DEF PresentOK
    <3>5. CASE ~att[k].live
      BY <3>4, <3>5, TrashedIsBeaten
    <3>6. CASE att[k].live /\ ~EarlyRows
      <4>1. Beats(m, k)
        BY <3>3, <3>4, <3>6, OutranksByDocument
      <4>2. PICK i \in Key : Valid(i) /\ (i = m \/ Beats(i, m))
        BY <3>4, <3>6 DEF Stands
      <4>3. IsHtml(i) /\ m \in Key /\ k \in Key
        BY <4>2, <3>4, ValidIsAttached DEF Attached
      <4>4. Beats(i, k)
        BY <4>1, <4>2, <4>3, <3>4, BeatsIsAnOrder
      <4> QED BY <4>2, <4>4, <3>4 DEF Beaten
    <3>7. CASE EarlyRows
      BY <3>4, <3>7 DEF Beaten
    <3> QED BY <3>5, <3>6, <3>7
  <2> QED BY <2>1, <2>2
<1> QED BY <1>1, <1>2 DEF TodoOK

-----------------------------------------------------------------------------
(* What every step does to the attachments: none goes, none changes its    *)
(* document, none comes back from the trash, a live one keeps its file,    *)
(* and for what had a better source HTML there still is one.               *)
AttachmentGoesOn(k) ==
  /\ k \in Attached'
  /\ att'[k].dedupe = att[k].dedupe /\ att'[k].doc = att[k].doc
  /\ att'[k].live => /\ att[k].live
                     /\ att[k].row => att'[k].row
                     /\ att[k].file => att'[k].file
  /\ NeverHere(k) => NeverHere(k)'

RankingGoesOn(k) ==
  /\ Stands(k) => Stands(k)'
  /\ Beaten(k) => Beaten(k)'

AttachmentsGoOn ==
  /\ att' \in [Key -> {None} \cup Attachment]
  /\ \A k \in Attached : AttachmentGoesOn(k)
  /\ \A k \in Attached : IsHtml(k) => RankingGoesOn(k)

LEMMA DocumentsStay ==
  ASSUME NEW i, NEW k,
         att'[i].doc = att[i].doc, att'[k].doc = att[k].doc
  PROVE  /\ Beats(i, k)' <=> Beats(i, k)
         /\ IsHtml(k)' <=> IsHtml(k)
  BY DEF Beats, IsHtml

LEMMA NothingChanges ==
  ASSUME LibraryOK, UNCHANGED att
  PROVE  AttachmentsGoOn /\ LibraryOK'
<1>1. att' = att
  OBVIOUS
<1>2. /\ Attached' = Attached
      /\ \A k : /\ Valid(k)' <=> Valid(k)
                /\ IsHtml(k)' <=> IsHtml(k)
                /\ NeverHere(k)' <=> NeverHere(k)
  BY <1>1 DEF Attached, Valid, Present, HtmlRows, IsHtml, NeverHere, Foreign
<1>3. \A i, k : Beats(i, k)' <=> Beats(i, k)
  BY <1>1 DEF Beats
<1>4. \A k : (Stands(k)' <=> Stands(k)) /\ (Beaten(k)' <=> Beaten(k))
  BY <1>2, <1>3 DEF Stands, Beaten
<1>5. AttachmentsGoOn
  BY <1>1, <1>2, <1>4 DEF AttachmentsGoOn, AttachmentGoesOn, RankingGoesOn, LibraryOK
<1>6. \A k \in Attached : AttachmentOK(k)'
  BY <1>1, <1>2, <1>4 DEF LibraryOK, AttachmentOK, Foreign
<1>7. OneCopyPerSource' <=> OneCopyPerSource
  BY <1>1, <1>2 DEF OneCopyPerSource
<1>8. (\A k \in Attached : AttachmentOK(k))'
  BY <1>2, <1>6
<1> QED BY <1>1, <1>5, <1>8, <1>7 DEF LibraryOK

(* A step that leaves every valid source HTML valid, or takes away one     *)
(* that is beaten, leaves the ranking of the others as it was.             *)
LEMMA RankingSurvives ==
  ASSUME att \in [Key -> {None} \cup Attachment],
         \A k \in Attached : att'[k].doc = att[k].doc,
         \A i \in Key : Valid(i) =>
           \/ Valid(i)'
           \/ Beaten(i) /\ \A j \in Key \ {i} : Valid(j) => Valid(j)',
         NEW k \in Attached, IsHtml(k)
  PROVE  RankingGoesOn(k)
<1>1. SUFFICES ASSUME ~EarlyRows
               PROVE  RankingGoesOn(k)
  BY DEF RankingGoesOn, Stands, Beaten
<1>2. ASSUME NEW i \in Key, Valid(i), i = k \/ Beats(i, k)
      PROVE  \E j \in Key : Valid(j)' /\ (j = i \/ Beats(j, k)')
  <2>1. CASE Valid(i)'
    BY <2>1
  <2>2. CASE ~Valid(i)'
    <3>1. Beaten(i) /\ \A j \in Key \ {i} : Valid(j) => Valid(j)'
      BY <1>2, <2>2
    <3>2. PICK j \in Key : Valid(j) /\ Beats(j, i)
      BY <1>1, <3>1 DEF Beaten
    <3>3. IsHtml(j) /\ IsHtml(i) /\ k \in Key /\ j \in Attached
      BY <1>2, <3>2, ValidIsAttached DEF Attached
    <3>4. j # i /\ Beats(j, k)
      BY <1>2, <3>2, <3>3, BeatsIsAnOrder
    <3>5. Valid(j)'
      BY <3>1, <3>2, <3>4
    <3>6. Beats(j, k)'
      BY <3>3, <3>4, DocumentsStay
    <3> QED BY <3>5, <3>6
  <2> QED BY <2>1, <2>2
<1>3. \A i \in Attached : Beats(i, k) => Beats(i, k)'
  BY DocumentsStay
<1>4. Stands(k) => Stands(k)'
  BY <1>1, <1>2, <1>3, ValidIsAttached DEF Stands
<1>5. Beaten(k) => Beaten(k)'
  BY <1>1, <1>2, <1>3, ValidIsAttached DEF Beaten
<1> QED BY <1>4, <1>5 DEF RankingGoesOn

-----------------------------------------------------------------------------
(* What the lists of a thread and of a row say goes on being true.         *)

LEMMA MadeStays ==
  ASSUME AttachmentsGoOn, NEW made, MadeOK(made)
  PROVE  MadeOK(made)'
  BY DEF AttachmentsGoOn, AttachmentGoesOn, MadeOK, Foreign

LEMMA ThreadStays ==
  ASSUME AttachmentsGoOn, NEW r, ThreadOK(r)
  PROVE  ThreadOK(r)'
<1>1. MadeOK(r.made)'
  BY MadeStays DEF ThreadOK
<1>2. \A k \in Attached : /\ IsHtml(k)' <=> IsHtml(k)
                          /\ Foreign(k)' <=> Foreign(k)
  BY DEF AttachmentsGoOn, AttachmentGoesOn, IsHtml, Foreign
<1>3. PresentOK(r.present)'
  BY <1>2 DEF ThreadOK, PresentOK, AttachmentsGoOn, AttachmentGoesOn, RankingGoesOn
<1>4. MissingOK(r.missing)'
  BY <1>2 DEF ThreadOK, MissingOK, AttachmentsGoOn, AttachmentGoesOn
<1>5. TodoOK(r.todo)'
  BY <1>2 DEF ThreadOK, TodoOK, AttachmentsGoOn, AttachmentGoesOn, RankingGoesOn
<1>6. r.pc = "copy" => r.key \in Attached' /\ ~Foreign(r.key)'
  BY <1>2 DEF ThreadOK, AttachmentsGoOn, AttachmentGoesOn
<1> QED BY <1>1, <1>3, <1>4, <1>5, <1>6 DEF ThreadOK, HasJob

LEMMA RowStays ==
  ASSUME AttachmentsGoOn, NEW row, RowOK(row)
  PROVE  RowOK(row)'
  BY MadeStays DEF RowOK

(* The steps of a thread, and of the queue.                                *)
LEMMA ThreadSteps ==
  ASSUME AttachmentsGoOn, ThreadsOK, NEW w \in Worker, NEW r \in Thread,
         Step(w, r), ThreadOK(r)'
  PROVE  ThreadsOK'
<1>1. at' = [at EXCEPT ![w] = r] /\ at \in [Worker -> Thread]
  BY DEF Step, ThreadsOK
<1>2. at' \in [Worker -> Thread] /\ at'[w] = r
  BY <1>1
<1>3. ASSUME NEW v \in Worker
      PROVE  ThreadOK(at[v])'
  <2>1. CASE v = w
    BY <1>2, <2>1 DEF ThreadOK
  <2>2. CASE v # w
    <3>1. PICK q \in Thread : q = at[v] /\ ThreadOK(q)
      BY <1>1 DEF ThreadsOK
    <3>2. at'[v] = q
      BY <1>1, <2>2, <3>1
    <3>3. ThreadOK(q)'
      BY <3>1, ThreadStays
    <3> QED BY <3>2, <3>3 DEF ThreadOK
  <2> QED BY <2>1, <2>2
<1> QED BY <1>2, <1>3 DEF ThreadsOK

LEMMA ThreadsRest ==
  ASSUME AttachmentsGoOn, ThreadsOK, UNCHANGED at
  PROVE  ThreadsOK'
<1>1. ASSUME NEW v \in Worker
      PROVE  ThreadOK(at[v])'
  <2>1. PICK q \in Thread : q = at[v] /\ ThreadOK(q)
    BY DEF ThreadsOK
  <2>2. ThreadOK(q)'
    BY <2>1, ThreadStays
  <2> QED BY <2>1, <2>2 DEF ThreadOK
<1> QED BY <1>1 DEF ThreadsOK

LEMMA QueueSteps ==
  ASSUME AttachmentsGoOn, QueueOK, NEW j \in Job, NEW row \in JobRow,
         jobs' = [jobs EXCEPT ![j] = row], RowOK(row)'
  PROVE  QueueOK'
<1>1. jobs' \in [Job -> JobRow] /\ jobs'[j] = row
  BY DEF QueueOK
<1>2. ASSUME NEW i \in Job
      PROVE  RowOK(jobs[i])'
  <2>1. CASE i = j
    BY <1>1, <2>1 DEF RowOK
  <2>2. CASE i # j
    <3>1. PICK q \in JobRow : q = jobs[i] /\ RowOK(q)
      BY DEF QueueOK
    <3>2. jobs'[i] = q
      BY <2>2, <3>1 DEF QueueOK
    <3>3. RowOK(q)'
      BY <3>1, RowStays
    <3> QED BY <3>2, <3>3 DEF RowOK
  <2> QED BY <2>1, <2>2
<1> QED BY <1>1, <1>2 DEF QueueOK

LEMMA QueueRests ==
  ASSUME AttachmentsGoOn, QueueOK, UNCHANGED jobs
  PROVE  QueueOK'
<1>1. ASSUME NEW i \in Job
      PROVE  RowOK(jobs[i])'
  <2>1. PICK q \in JobRow : q = jobs[i] /\ RowOK(q)
    BY DEF QueueOK
  <2>2. RowOK(q)'
    BY <2>1, RowStays
  <2> QED BY <2>1, <2>2 DEF RowOK
<1> QED BY <1>1 DEF QueueOK

LEMMA ThreadGoesOn ==
  ASSUME AttachmentsGoOn, ThreadsOK, NEW w \in Worker, NEW r \in Thread,
         Step(w, r), ThreadOK(r)
  PROVE  ThreadsOK'
  BY ThreadStays, ThreadSteps

LEMMA ThreadOfWorker ==
  ASSUME ThreadsOK, NEW w \in Worker
  PROVE  at[w] \in Thread /\ ThreadOK(at[w])
  BY DEF ThreadsOK

(* A thread that goes on with the same lists.                              *)
LEMMA SameLists ==
  ASSUME ThreadsOK, NEW w \in Worker, NEW r \in Thread,
         r.present = at[w].present, r.missing = at[w].missing,
         r.todo = at[w].todo, r.made = at[w].made,
         r.pc # "copy", at[w].job \in Job, r.job = at[w].job
  PROVE  ThreadOK(r)
  BY ThreadOfWorker DEF ThreadOK, HasJob

(* A thread that has dealt with its lists.                                 *)
LEMMA NoLists ==
  ASSUME NEW r \in Thread, r.present = {}, r.missing = {}, r.todo = {},
         MadeOK(r.made), r.pc # "copy", HasJob(r)
  PROVE  ThreadOK(r)
  BY DEF ThreadOK, PresentOK, MissingOK, TodoOK

LEMMA IdleIsOK == Idle \in Thread /\ ThreadOK(Idle)
<1>1. Idle \in Thread
  BY DEF Idle, Thread, ThreadAt
<1> QED BY <1>1, NoLists DEF Idle, MadeOK, HasJob

LEMMA GoesIdle ==
  ASSUME AttachmentsGoOn, ThreadsOK, NEW w \in Worker, Step(w, Idle)
  PROVE  ThreadsOK'
  BY IdleIsOK, ThreadGoesOn

(* The reports.                                                            *)
LEMMA ReportKeeps ==
  ASSUME AttachmentsGoOn, QueueOK, ThreadsOK, NEW w \in Worker, at[w].job \in Job,
         NEW status \in {"succeeded", "skipped", "failed_retryable", "failed_final"},
         status = "failed_retryable" => ~Exhausted(w),
         NEW made \in SUBSET Key, MadeOK(made)',
         Report(w, status, made)
  PROVE  QueueOK' /\ ThreadsOK'
<1>1. ThreadsOK'
  BY GoesIdle DEF Report
<1>2. CASE ~Holds(w)
  BY <1>1, <1>2, QueueRests DEF Report
<1>3. CASE Holds(w)
  <2>1. PICK j \in Job : j = at[w].job
    OBVIOUS
  <2>2. jobs[j] \in JobRow /\ jobs[j].attempts = at[w].attempt
    BY <1>3, <2>1 DEF Holds, QueueOK
  <2>3. PICK n \in 0..MaxAttempts : n = jobs[j].attempts
    BY <2>2 DEF JobRow
  <2>4. PICK row \in JobRow :
          row = [jobs[j] EXCEPT !.status = status, !.holder = None, !.made = made]
    BY <2>2 DEF JobRow, JobStatus
  <2>5. RowOK(row)'
    <3>1. /\ row.status = status /\ row.holder = None /\ row.made = made
          /\ row.attempts = n
      BY <2>2, <2>3, <2>4 DEF JobRow
    <3>2. status = "failed_retryable" => n < MaxAttempts
      BY <2>2, <2>3, PaperAssumption DEF Exhausted
    <3> QED BY <3>1, <3>2, NoneIsApart DEF RowOK
  <2>6. jobs' = [jobs EXCEPT ![j] = row]
    BY <1>3, <2>1, <2>4 DEF Report
  <2>7. QueueOK'
    BY <2>4, <2>5, <2>6, QueueSteps
  <2> QED BY <1>1, <2>7
<1> QED BY <1>2, <1>3

LEMMA NothingMade == MadeOK({})'
  BY DEF MadeOK

LEMMA RetryableFailureKeeps ==
  ASSUME AttachmentsGoOn, QueueOK, ThreadsOK, NEW w \in Worker, at[w].job \in Job,
         RetryableFailure(w)
  PROVE  QueueOK' /\ ThreadsOK'
<1>1. CASE Exhausted(w)
  BY <1>1, NothingMade, ReportKeeps DEF RetryableFailure
<1>2. CASE ~Exhausted(w)
  BY <1>2, NothingMade, ReportKeeps DEF RetryableFailure
<1> QED BY <1>1, <1>2

LEMMA FallbackFailsKeeps ==
  ASSUME AttachmentsGoOn, QueueOK, ThreadsOK, NEW w \in Worker, at[w].job \in Job,
         NEW again, FallbackFails(w, again)
  PROVE  QueueOK' /\ ThreadsOK'
<1>1. CASE RetryableFailure(w)
  BY <1>1, RetryableFailureKeeps
<1>2. CASE Report(w, "failed_final", {}) \/ Report(w, "skipped", {})
  BY <1>2, NothingMade, ReportKeeps
<1>3. CASE UNCHANGED jobs /\ Step(w, [at[w] EXCEPT !.pc = "preflight", !.key = 0])
  <2>1. at[w] \in Thread
    BY ThreadOfWorker
  <2>2. PICK r \in Thread : r = [at[w] EXCEPT !.pc = "preflight", !.key = 0]
    BY <2>1 DEF Thread, ThreadAt
  <2>3. ThreadOK(r)
    BY <2>1, <2>2, SameLists DEF Thread
  <2> QED BY <1>3, <2>2, <2>3, ThreadGoesOn, QueueRests
<1> QED BY <1>1, <1>2, <1>3
        DEF FallbackFails, ResearchgateFails, ScihubFails

(* The end of an attachment, made or not.                                  *)
LEMMA AttachEndsKeeps ==
  ASSUME AttachmentsGoOn, QueueOK, ThreadsOK, NEW w \in Worker, at[w].job \in Job,
         NEW ok \in BOOLEAN, NEW k, k = at[w].key,
         ok => k \in Key /\ MadeOK({k})',
         AttachEnds(w, ok)
  PROVE  QueueOK' /\ ThreadsOK'
<1>1. at[w] \in Thread /\ MadeOK(at[w].made)
  BY ThreadOfWorker DEF ThreadOK
<1>2. PICK old \in SUBSET Key : old = at[w].made /\ MadeOK(old)'
  <2>1. PICK old \in SUBSET Key : old = at[w].made
    BY <1>1 DEF Thread
  <2>2. MadeOK(old)'
    BY <1>1, <2>1, MadeStays
  <2> QED BY <2>1, <2>2
<1>3. PICK made \in SUBSET Key :
        made = (IF ok THEN at[w].made \cup {at[w].key} ELSE at[w].made) /\ MadeOK(made)'
  <2>1. CASE ok
    BY <1>2, <2>1 DEF MadeOK
  <2>2. CASE ~ok
    BY <1>2, <2>2
  <2> QED BY <2>1, <2>2
<1> DEFINE r == [at[w] EXCEPT !.made = IF ok THEN at[w].made \cup {at[w].key}
                                       ELSE at[w].made]
<1>4. r = [at[w] EXCEPT !.made = made]
  BY <1>3
<1>5. CASE at[w].job \notin FullText
  <2>1. CASE ok
    <3>1. Succeed(w, made)
      BY <1>1, <1>3, <1>5, <2>1 DEF AttachEnds, Thread
    <3> QED BY <3>1, <1>3, ReportKeeps DEF Succeed
  <2>2. CASE ~ok
    <3>1. RetryableFailure(w) \/ FallbackFails(w, TRUE)
      BY <1>5, <2>2 DEF AttachEnds
    <3> QED BY <3>1, RetryableFailureKeeps, FallbackFailsKeeps
  <2> QED BY <2>1, <2>2
<1>6. CASE at[w].job \in FullText
  <2>1. /\ UNCHANGED jobs
        /\ Step(w, IF at[w].html # None THEN AfterHtml(r, Result(ok))
                   ELSE AfterPdf(r, Result(ok)))
    BY <1>6 DEF AttachEnds
  <2>2. Result(ok) \in {"ok", "failed"}
    BY DEF Result
  <2>3. CASE at[w].html # None
    <3>1. PICK q \in Thread : q = AfterHtml([at[w] EXCEPT !.made = made], Result(ok))
      BY ZenonT(30), <1>1, <1>3, <2>2, IdleIsOK DEF AfterHtml, Thread, ThreadAt
    <3>2. /\ q.present = {} /\ q.missing = {} /\ q.todo = {} /\ q.made = made
          /\ q.pc = "pdf" /\ q.job = at[w].job
      BY <3>1, <1>1, IdleIsOK DEF AfterHtml, Thread, Idle
    <3>3. ThreadOK(q)'
      BY <3>2, <1>3 DEF ThreadOK, PresentOK, MissingOK, TodoOK, HasJob
    <3>4. Step(w, q)
      BY <2>1, <2>3, <3>1, <1>4 DEF Step
    <3> QED BY <2>1, <3>3, <3>4, ThreadSteps, QueueRests
  <2>4. CASE at[w].html = None
    <3>1. Result(AttachOk(at[w].result, Result(ok))) \in {"ok", "failed"}
      BY DEF Result
    <3>2. PICK q \in Thread : q = AfterPdf([at[w] EXCEPT !.made = made], Result(ok))
      BY <1>1, <1>3, <3>1 DEF AfterPdf, Thread, ThreadAt, Result
    <3>3. /\ q.present = at[w].present /\ q.missing = at[w].missing
          /\ q.todo = at[w].todo /\ q.made = made
          /\ q.pc = "fallback" /\ q.job = at[w].job
      BY <3>2, <1>1 DEF AfterPdf, Thread
    <3>4. PICK p \in Thread : p = [q EXCEPT !.made = at[w].made]
      BY <1>1 DEF Thread
    <3>5. ThreadOK(p)
      BY <1>1, <3>3, <3>4, SameLists DEF Thread
    <3>6. ThreadOK(p)'
      BY <3>5, ThreadStays
    <3>7. ThreadOK(q)'
      BY <3>6, <3>4, <3>3, <1>3 DEF ThreadOK, HasJob, Thread
    <3>8. Step(w, q)
      BY <2>1, <2>4, <3>2, <1>4 DEF Step
    <3> QED BY <2>1, <3>7, <3>8, ThreadSteps, QueueRests
  <2> QED BY <2>3, <2>4
<1> QED BY <1>5, <1>6

-----------------------------------------------------------------------------
(* The steps that change what is attached.                                 *)

LEMMA OthersStay ==
  ASSUME NEW i \in Attached, AttachmentOK(i), att'[i] = att[i],
         IsHtml(i) => RankingGoesOn(i)
  PROVE  AttachmentOK(i)'
<1>1. /\ IsHtml(i)' <=> IsHtml(i)
      /\ Foreign(i)' <=> Foreign(i)
      /\ NeverHere(i)' <=> NeverHere(i)
  BY DEF IsHtml, Foreign, NeverHere
<1> QED BY <1>1 DEF AttachmentOK, RankingGoesOn

(* Of one attachment the flags change: it is written, entered, trashed or  *)
(* dropped.                                                                *)
LEMMA UpdateKeeps ==
  ASSUME LibraryOK, NEW k \in Attached, NEW rec \in Attachment,
         att' = [att EXCEPT ![k] = rec],
         rec.dedupe = att[k].dedupe, rec.doc = att[k].doc,
         rec.live => /\ att[k].live
                     /\ att[k].row => rec.row
                     /\ att[k].file => rec.file,
         NeverHere(k) => EarlyRows \/ ~rec.file,
         ~rec.live => IsHtml(k),
         rec.row /\ ~rec.file => NeverHere(k),
         Valid(k) /\ ~rec.live => Beaten(k),
         IsHtml(k) /\ rec.row /\ rec.file => rec.live \/ Stands(k),
         IsHtml(k) /\ ~rec.live /\ ~Foreign(k) => Stands(k)
  PROVE  AttachmentsGoOn /\ LibraryOK'
<1>1. /\ k \in Key /\ att \in [Key -> {None} \cup Attachment]
      /\ att' \in [Key -> {None} \cup Attachment]
      /\ att'[k] = rec /\ \A i \in Key \ {k} : att'[i] = att[i]
      /\ rec # None
  BY NoneIsApart DEF LibraryOK, Attached
<1>2. Attached' = Attached
  BY <1>1 DEF Attached
<1>3. \A i \in Key : att'[i].dedupe = att[i].dedupe /\ att'[i].doc = att[i].doc
  BY <1>1
<1>4. \A i \in Key : /\ IsHtml(i)' <=> IsHtml(i)
                     /\ Foreign(i)' <=> Foreign(i)
  BY <1>3 DEF IsHtml, Foreign
<1>5. \A i \in Key \ {k} : Valid(i) => Valid(i)'
  <2> SUFFICES ASSUME NEW i \in Key \ {k}, Valid(i)
               PROVE  Valid(i)'
    OBVIOUS
  <2>1. /\ i \in Attached' /\ IsHtml(i)'
        /\ att'[i].live /\ att'[i].row /\ att'[i].file
    BY <1>1, <1>2, <1>4, ValidIsAttached
  <2> QED BY <2>1 DEF Valid, Present, HtmlRows
<1>6. Valid(k) => Valid(k)' \/ Beaten(k)
  <2> SUFFICES ASSUME Valid(k), rec.live
               PROVE  Valid(k)'
    OBVIOUS
  <2>1. /\ k \in Attached' /\ IsHtml(k)'
        /\ att'[k].live /\ att'[k].row /\ att'[k].file
    BY <1>1, <1>2, <1>4, ValidIsAttached
  <2> QED BY <2>1 DEF Valid, Present, HtmlRows
<1>7. \A i \in Attached : IsHtml(i) => RankingGoesOn(i)
  <2>1. \A i \in Attached : att'[i].doc = att[i].doc
    BY <1>3 DEF Attached
  <2>2. \A i \in Key : Valid(i) =>
          \/ Valid(i)'
          \/ Beaten(i) /\ \A j \in Key \ {i} : Valid(j) => Valid(j)'
    BY <1>5, <1>6
  <2> QED BY <1>1, <2>1, <2>2, RankingSurvives
<1>8. NeverHere(k) => NeverHere(k)'
  BY <1>1, <1>4 DEF NeverHere
<1>9. AttachmentsGoOn
  <2>1. \A i \in Attached : AttachmentGoesOn(i)
    <3>1. AttachmentGoesOn(k)
      BY <1>1, <1>2, <1>8 DEF AttachmentGoesOn
    <3>2. ASSUME NEW i \in Attached, i # k
          PROVE  AttachmentGoesOn(i)
      <4>1. att'[i] = att[i]
        BY <1>1, <3>2 DEF Attached
      <4>2. NeverHere(i) => NeverHere(i)'
        BY <4>1 DEF NeverHere, Foreign
      <4> QED BY <4>1, <4>2, <1>2 DEF AttachmentGoesOn
    <3> QED BY <3>1, <3>2
  <2> QED BY <1>1, <1>7, <2>1 DEF AttachmentsGoOn
<1>10. AttachmentOK(k)'
  <2>1. AttachmentOK(k)
    BY DEF LibraryOK
  <2>2. att'[k].dedupe = <<att'[k].dedupe[1], att'[k].doc>>
    BY <1>1, <2>1 DEF AttachmentOK
  <2>3. ~att'[k].live => IsHtml(k)'
    BY <1>1, <1>4
  <2>4. att'[k].row /\ ~att'[k].file => NeverHere(k)'
    BY <1>1, <1>8
  <2>5. rec.live /\ rec.row /\ rec.file /\ IsHtml(k) => Stands(k)'
    <3> SUFFICES ASSUME rec.live, rec.row, rec.file, IsHtml(k)
                 PROVE  Stands(k)'
      OBVIOUS
    <3>1. /\ k \in Attached' /\ IsHtml(k)'
          /\ att'[k].live /\ att'[k].row /\ att'[k].file
      BY <1>1, <1>2, <1>4
    <3>2. Valid(k)'
      BY <3>1 DEF Valid, Present, HtmlRows
    <3> QED BY <1>1, <3>2 DEF Stands
  <2>6. IsHtml(k) => (Stands(k) => Stands(k)')
    BY <1>7 DEF RankingGoesOn
  <2>7. IsHtml(k)' /\ att'[k].row /\ att'[k].file => Stands(k)'
    BY <1>1, <1>4, <2>5, <2>6
  <2>8. IsHtml(k)' /\ ~att'[k].live /\ ~Foreign(k)' => Stands(k)'
    BY <1>1, <1>4, <2>6
  <2> QED BY <2>2, <2>3, <2>4, <2>7, <2>8 DEF AttachmentOK
<1>11. \A i \in Attached : AttachmentOK(i)'
  <2>1. ASSUME NEW i \in Attached, i # k
        PROVE  AttachmentOK(i)'
    <3>1. att'[i] = att[i] /\ AttachmentOK(i)
      BY <1>1, <2>1 DEF Attached, LibraryOK
    <3> QED BY <3>1, <1>7, OthersStay
  <2> QED BY <1>10, <2>1
<1>12. OneCopyPerSource => OneCopyPerSource'
  <2>1. \A i \in Attached : att'[i].live => att[i].live
    BY <1>1 DEF Attached
  <2> QED BY <2>1, <1>2, <1>3 DEF OneCopyPerSource, Attached
<1> QED BY <1>1, <1>2, <1>9, <1>11, <1>12 DEF LibraryOK

(* The relay creates an attachment only if none of that key is live.       *)
LEMMA CreationKeeps ==
  ASSUME LibraryOK, NEW w \in Worker, at[w] \in Thread, NEW k \in Key,
         RelayCreates(w, k)
  PROVE  /\ AttachmentsGoOn /\ LibraryOK'
         /\ k \in Attached' /\ ~Foreign(k)'
<1> DEFINE same == { i \in Attached :
                       att[i].live /\ att[i].dedupe = DeduplicationKey(w) }
<1>1. /\ Via(w) \in Ways \ {"elsewhere"} /\ Doc(w) \in Html \cup {Pdf}
      /\ DeduplicationKey(w) = <<Via(w), Doc(w)>>
  BY DEF Via, Doc, DeduplicationKey, Thread, Ways
<1>a. DeduplicationKey(w) \in Ways \X (Html \cup {Pdf})
  <2>1. \A v \in Ways, d \in Html \cup {Pdf} : <<v, d>> \in Ways \X (Html \cup {Pdf})
    OBVIOUS
  <2> QED BY <1>1, <2>1
<1>2. CASE same # {}
  <2>1. k \in same /\ UNCHANGED att
    BY <1>2 DEF RelayCreates
  <2>2. k \in Attached /\ ~Foreign(k)
    BY <2>1, <1>1 DEF Foreign
  <2>3. k \in Attached' /\ ~Foreign(k)'
    BY <2>1, <2>2 DEF Attached, Foreign
  <2> QED BY <2>1, <2>3, NothingChanges
<1>3. CASE same = {}
  <2>1. PICK rec \in Attachment :
          rec = [dedupe |-> DeduplicationKey(w), doc |-> Doc(w), live |-> TRUE,
                 row |-> FALSE, file |-> FALSE]
    <3>1. \A d \in Ways \X (Html \cup {Pdf}), c \in Html \cup {Pdf} :
            [dedupe |-> d, doc |-> c, live |-> TRUE, row |-> FALSE,
             file |-> FALSE] \in Attachment
      BY DEF Attachment
    <3> QED BY <1>1, <1>a, <3>1
  <2>2. k \notin Attached /\ att' = [att EXCEPT ![k] = rec]
    BY <1>3, <2>1 DEF RelayCreates
  <2>3. /\ att \in [Key -> {None} \cup Attachment]
        /\ att' \in [Key -> {None} \cup Attachment]
        /\ att'[k] = rec /\ rec # None
        /\ \A i \in Attached : att'[i] = att[i]
    BY <2>2, NoneIsApart DEF LibraryOK, Attached
  <2>4. Attached' = Attached \cup {k}
    BY <2>2, <2>3 DEF Attached
  <2>5. \A i \in Attached : Valid(i) => Valid(i)'
    BY <2>3, <2>4, ValidIsAttached DEF Valid, Present, HtmlRows, IsHtml
  <2>6. \A i \in Attached : IsHtml(i) => RankingGoesOn(i)
    <3>1. \A i \in Attached : att'[i].doc = att[i].doc
      BY <2>3
    <3>2. \A i \in Key : Valid(i) => Valid(i)'
      BY <2>5, ValidIsAttached
    <3> QED BY <2>3, <3>1, <3>2, RankingSurvives
  <2>7. AttachmentsGoOn
    <3>1. \A i \in Attached : AttachmentGoesOn(i)
      BY <2>3, <2>4 DEF AttachmentGoesOn, NeverHere, Foreign
    <3> QED BY <2>3, <2>6, <3>1 DEF AttachmentsGoOn
  <2>8. /\ rec.dedupe = <<Via(w), Doc(w)>> /\ rec.doc = Doc(w) /\ rec.live
        /\ ~rec.row /\ ~rec.file
    BY <1>1, <2>1
  <2>9. AttachmentOK(k)'
    <3>1. att'[k].dedupe = <<att'[k].dedupe[1], att'[k].doc>>
      BY <2>3, <2>8
    <3> QED BY <3>1, <2>3, <2>8 DEF AttachmentOK
  <2>10. \A i \in Attached : AttachmentOK(i)'
    BY <2>3, <2>6, OthersStay DEF LibraryOK
  <2>11. OneCopyPerSource => OneCopyPerSource'
    <3>1. SUFFICES ASSUME OneCopyPerSource, NEW i \in Attached, att[i].live
                   PROVE  ~(att[i].doc = rec.doc /\ att[i].dedupe[1] = rec.dedupe[1])
      BY <2>3, <2>4 DEF OneCopyPerSource
    <3>2. att[i].dedupe = <<att[i].dedupe[1], att[i].doc>>
      BY DEF LibraryOK, AttachmentOK
    <3>3. att[i].dedupe # <<Via(w), Doc(w)>>
      BY <1>1, <1>3, <3>1
    <3> QED BY <2>8, <3>2, <3>3
  <2>12. ~Foreign(k)'
    BY <1>1, <2>3, <2>8 DEF Foreign
  <2> QED BY <2>3, <2>4, <2>7, <2>9, <2>10, <2>11, <2>12 DEF LibraryOK
<1> QED BY <1>2, <1>3

(* A copy is written into the storage, and perhaps entered.                *)
LEMMA CopyKeeps ==
  ASSUME LibraryOK, NEW k \in Attached, ~Foreign(k), NEW row \in BOOLEAN,
         att' = RowWritten(k, row)
  PROVE  AttachmentsGoOn /\ LibraryOK' /\ MadeOK({k})'
<1>1. att[k] \in Attachment /\ AttachmentOK(k) /\ att \in [Key -> {None} \cup Attachment]
  BY AttachedIsRecord DEF LibraryOK, Attached
<1>2. \A b \in BOOLEAN : [att[k] EXCEPT !.file = TRUE, !.row = b] \in Attachment
  BY <1>1 DEF Attachment
<1>3. (att[k].row \/ row) \in BOOLEAN
  OBVIOUS
<1>4. PICK rec \in Attachment :
        rec = [att[k] EXCEPT !.file = TRUE, !.row = att[k].row \/ row]
  BY <1>2, <1>3, Zenon
<1>5. /\ rec.dedupe = att[k].dedupe /\ rec.doc = att[k].doc
      /\ rec.live = att[k].live /\ (att[k].row => rec.row) /\ rec.file
  BY <1>1, <1>4 DEF Attachment
<1>6. att' = [att EXCEPT ![k] = rec]
  BY <1>4 DEF RowWritten
<1>7. NeverHere(k) => EarlyRows
  BY DEF NeverHere
<1>8. Valid(k) => rec.live
  BY <1>5, ValidIsAttached
<1>9. AttachmentsGoOn /\ LibraryOK'
  BY <1>1, <1>5, <1>6, <1>7, <1>8, UpdateKeeps DEF AttachmentOK
<1>10. k \in Attached' /\ ~Foreign(k)' /\ att'[k].file
  <2>1. att'[k] = rec /\ k \in Attached'
    BY <1>1, <1>6, <1>9 DEF Attached, AttachmentsGoOn, AttachmentGoesOn
  <2> QED BY <2>1, <1>5 DEF Foreign
<1> QED BY <1>9, <1>10 DEF MadeOK

(* One is trashed of which the clean-up knows that it is beaten.           *)
LEMMA TrashKeeps ==
  ASSUME LibraryOK, NEW k \in Attached, IsHtml(k), Beaten(k) \/ NeverHere(k),
         att' = [att EXCEPT ![k] = [att[k] EXCEPT !.live = FALSE]]
  PROVE  AttachmentsGoOn /\ LibraryOK'
<1>1. att[k] \in Attachment /\ AttachmentOK(k) /\ att[k].file \in BOOLEAN
  BY AttachedIsRecord DEF LibraryOK, Attached
<1>2. PICK rec \in Attachment : rec = [att[k] EXCEPT !.live = FALSE]
  BY <1>1 DEF Attachment
<1>3. /\ rec.dedupe = att[k].dedupe /\ rec.doc = att[k].doc
      /\ ~rec.live /\ rec.row = att[k].row /\ rec.file = att[k].file
  BY <1>1, <1>2 DEF Attachment
<1>4. NeverHere(k) => EarlyRows \/ ~rec.file
  BY <1>3 DEF NeverHere
<1>5. EarlyRows => Beaten(k)
  BY DEF Beaten
<1>6. Valid(k) => Beaten(k)
  BY <1>3, <1>4, <1>5, ValidIsAttached
<1>7. ~Foreign(k) => Stands(k)
  BY <1>5, BeatenStands DEF NeverHere
<1> QED BY <1>1, <1>2, <1>3, <1>4, <1>6, <1>7, UpdateKeeps DEF AttachmentOK

LEMMA SyncKeeps ==
  ASSUME LibraryOK, NEW k \in Key, ZoteroSyncs(k)
  PROVE  AttachmentsGoOn /\ LibraryOK'
<1>1. k \in Attached /\ att[k].live /\ (att[k].file \/ EarlyRows)
  BY DEF ZoteroSyncs
<1>2. att[k] \in Attachment /\ AttachmentOK(k) /\ att[k].file \in BOOLEAN
  BY <1>1, AttachedIsRecord DEF LibraryOK, Attached
<1>3. PICK file \in BOOLEAN :
        /\ att[k].file => file
        /\ file \/ EarlyRows
        /\ att' = [att EXCEPT ![k] = [att[k] EXCEPT !.row = TRUE, !.file = file]]
  BY <1>1, <1>2 DEF ZoteroSyncs
<1>4. PICK rec \in Attachment : rec = [att[k] EXCEPT !.row = TRUE, !.file = file]
  BY <1>2 DEF Attachment
<1>5. /\ rec.dedupe = att[k].dedupe /\ rec.doc = att[k].doc
      /\ rec.live /\ rec.row /\ rec.file = file
  BY <1>1, <1>2, <1>4 DEF Attachment
<1>6. NeverHere(k) => EarlyRows
  BY <1>1 DEF NeverHere
<1>7. EarlyRows => NeverHere(k)
  BY DEF NeverHere
<1> QED BY <1>1, <1>3, <1>4, <1>5, <1>6, <1>7, UpdateKeeps

LEMMA DropKeeps ==
  ASSUME LibraryOK, NEW k \in Key, ZoteroDropsTrashed(k)
  PROVE  AttachmentsGoOn /\ LibraryOK'
<1>1. /\ k \in Attached /\ ~att[k].live
      /\ att' = [att EXCEPT ![k] = [att[k] EXCEPT !.row = FALSE, !.file = FALSE]]
  BY DEF ZoteroDropsTrashed
<1>2. att[k] \in Attachment /\ AttachmentOK(k)
  BY <1>1, AttachedIsRecord DEF LibraryOK, Attached
<1>3. PICK rec \in Attachment : rec = [att[k] EXCEPT !.row = FALSE, !.file = FALSE]
  BY <1>2 DEF Attachment
<1>4. /\ rec.dedupe = att[k].dedupe /\ rec.doc = att[k].doc
      /\ ~rec.live /\ ~rec.row /\ ~rec.file
  BY <1>1, <1>2, <1>3 DEF Attachment
<1>5. ~Valid(k)
  BY <1>1, ValidIsAttached
<1> QED BY <1>1, <1>2, <1>3, <1>4, <1>5, UpdateKeeps DEF AttachmentOK

-----------------------------------------------------------------------------
(* The actions, one by one.                                                *)

StateOK == LibraryOK /\ QueueOK /\ ThreadsOK

LEMMA LooksAreBoolean ==
  /\ HasPdf \in BOOLEAN
  /\ (Present # {}) \in BOOLEAN
  BY DEF HasPdf

LEMMA InventoryIsOK ==
  ASSUME LibraryOK
  PROVE  /\ Present \in SUBSET Key /\ PresentOK(Present)
         /\ Missing \in SUBSET Key /\ MissingOK(Missing)
  BY DEF LibraryOK, AttachmentOK, Present, Missing, HtmlRows, Attached,
         PresentOK, MissingOK

(* A new row, where there was none or one that had been skipped.           *)
LEMMA QueuedKeeps ==
  ASSUME AttachmentsGoOn, QueueOK, NEW j \in Job, jobs' = Queued(j)
  PROVE  QueueOK'
<1>1. PICK row \in JobRow : row = [AbsentJob EXCEPT !.status = "queued"]
  <2>1. 0 \in 0..MaxAttempts /\ {} \in SUBSET Key /\ "queued" \in JobStatus
    BY PaperAssumption DEF JobStatus
  <2>2. [AbsentJob EXCEPT !.status = "queued"]
          = [status |-> "queued", attempts |-> 0, holder |-> None, made |-> {}]
    BY DEF AbsentJob
  <2> QED BY <2>1, <2>2 DEF JobRow
<1>2. /\ row.status = "queued" /\ row.holder = None /\ row.attempts = 0
      /\ row.made = {}
  BY <1>1 DEF AbsentJob
<1>3. RowOK(row)'
  BY <1>2, NoneIsApart, NothingMade, PaperAssumption DEF RowOK
<1>4. jobs' = [jobs EXCEPT ![j] = row]
  BY <1>1 DEF Queued
<1> QED BY <1>3, <1>4, QueueSteps

LEMMA ClaimStep ==
  ASSUME StateOK, NEW w \in Worker, NEW j \in Job, Claim(w, j)
  PROVE  StateOK'
<1>1. AttachmentsGoOn /\ LibraryOK'
  BY NothingChanges DEF StateOK, Claim
<1>2. jobs[j] \in JobRow /\ RowOK(jobs[j]) /\ jobs[j].attempts \in Nat
  BY PaperAssumption DEF StateOK, QueueOK, JobRow
<1>3. QueueOK'
  <2>1. jobs[j].attempts < MaxAttempts
    BY <1>2 DEF Claim, RowOK
  <2>2. jobs[j].attempts + 1 \in 0..MaxAttempts
    BY <1>2, <2>1, PaperAssumption
  <2>3. PICK row \in JobRow :
          row = [jobs[j] EXCEPT !.status = "running", !.holder = w,
                                !.attempts = jobs[j].attempts + 1]
    BY <1>2, <2>2 DEF JobRow, JobStatus
  <2>4. row.status = "running" /\ row.holder = w /\ row.made = jobs[j].made
    BY <1>2, <2>3 DEF JobRow
  <2>5. RowOK(row)
    BY <1>2, <2>4 DEF RowOK
  <2>6. jobs' = [jobs EXCEPT ![j] = row]
    BY <2>3 DEF Claim
  <2> QED BY <1>1, <2>5, <2>6, QueueSteps, RowStays DEF StateOK
<1>4. ThreadsOK'
  <2>1. PICK r \in Thread : r = [Idle EXCEPT !.job = j, !.attempt = jobs[j].attempts + 1]
    <3>1. jobs[j].attempts + 1 \in Nat
      BY <1>2
    <3>2. \A n \in Nat : [Idle EXCEPT !.job = j, !.attempt = n] \in Thread
      BY IdleIsOK DEF Thread
    <3> QED BY <3>1, <3>2
  <2>2. /\ r.present = {} /\ r.missing = {} /\ r.todo = {} /\ r.made = {}
        /\ r.job = j /\ r.pc = "idle"
    BY <2>1 DEF Idle
  <2>3. CASE j \in FullText
    <3>1. PICK pdf \in BOOLEAN : pdf = HasPdf
      BY LooksAreBoolean
    <3>2. PICK q \in Thread : q = Inventory([r EXCEPT !.pc = "discover"])
      BY <3>1, InventoryIsOK DEF Inventory, Thread, ThreadAt, StateOK
    <3>3. /\ q.present = Present /\ q.missing = Missing /\ q.todo = {}
          /\ q.made = {} /\ q.pc = "discover" /\ q.job = j
      BY <2>2, <3>2 DEF Inventory, Thread
    <3>4. ThreadOK(q)
      BY <3>3, InventoryIsOK DEF ThreadOK, TodoOK, MadeOK, HasJob, StateOK
    <3>5. Step(w, q)
      BY <2>1, <2>3, <3>2 DEF Claim
    <3> QED BY <1>1, <3>4, <3>5, ThreadGoesOn DEF StateOK
  <2>4. CASE j \notin FullText
    <3>1. PICK q \in Thread : q = [r EXCEPT !.pc = "preflight"]
      BY DEF Thread, ThreadAt
    <3>2. /\ q.present = {} /\ q.missing = {} /\ q.todo = {} /\ q.made = {}
          /\ q.pc = "preflight" /\ q.job = j
      BY <2>2, <3>1 DEF Thread
    <3>3. ThreadOK(q)
      BY <3>2, NoLists DEF MadeOK, HasJob
    <3>4. Step(w, q)
      BY <2>1, <2>4, <3>1 DEF Claim
    <3> QED BY <1>1, <3>3, <3>4, ThreadGoesOn DEF StateOK
  <2> QED BY <2>3, <2>4
<1> QED BY <1>1, <1>3, <1>4 DEF StateOK

LEMMA LostStep ==
  ASSUME StateOK, NEW w \in Worker, LeaseFoundLost(w)
  PROVE  StateOK'
<1>1. AttachmentsGoOn /\ LibraryOK'
  BY NothingChanges DEF StateOK, LeaseFoundLost
<1> QED BY <1>1, GoesIdle, QueueRests DEF LeaseFoundLost, StateOK

LEMMA ExpireStep ==
  ASSUME StateOK, NEW j \in Job, Expire(j)
  PROVE  StateOK'
<1>1. AttachmentsGoOn /\ LibraryOK'
  BY NothingChanges DEF StateOK, Expire
<1>2. jobs[j] \in JobRow /\ RowOK(jobs[j])
  BY DEF StateOK, QueueOK
<1>3. PICK status \in {"queued", "failed_final"} :
        /\ status = IF jobs[j].attempts < MaxAttempts THEN "queued" ELSE "failed_final"
        /\ status = "queued" => jobs[j].attempts < MaxAttempts
  OBVIOUS
<1>4. PICK row \in JobRow : row = [jobs[j] EXCEPT !.holder = None, !.status = status]
  BY <1>2 DEF JobRow, JobStatus
<1>5. /\ row.holder = None /\ row.status = status /\ row.made = jobs[j].made
      /\ row.attempts = jobs[j].attempts
  BY <1>2, <1>4 DEF JobRow
<1>6. RowOK(row)
  BY <1>2, <1>3, <1>5, NoneIsApart DEF RowOK
<1>7. jobs' = [jobs EXCEPT ![j] = row]
  BY <1>3, <1>4 DEF Expire
<1>8. QueueOK'
  BY <1>1, <1>6, <1>7, QueueSteps, RowStays DEF StateOK
<1> QED BY <1>1, <1>8, ThreadsRest DEF Expire, StateOK

LEMMA BacklogStep ==
  ASSUME StateOK, FullTextBacklogScan
  PROVE  StateOK'
<1>1. AttachmentsGoOn /\ LibraryOK'
  BY NothingChanges DEF StateOK, FullTextBacklogScan
<1>2. PICK pdf \in BOOLEAN, html \in BOOLEAN : pdf = HasPdf /\ html = (Present # {})
  BY LooksAreBoolean
<1>3. PICK j \in Job : j = <<"full_text", pdf, html>>
  <2>1. <<"full_text", pdf, html>> \in Job
    BY DEF FullText, Job
  <2> QED BY <2>1, Zenon
<1>4. jobs' = Queued(j)
  BY <1>2, <1>3 DEF FullTextBacklogScan
<1> QED BY <1>1, <1>4, QueuedKeeps, ThreadsRest DEF FullTextBacklogScan, StateOK

LEMMA ScihubScanStep ==
  ASSUME StateOK, NEW w \in Worker, ScihubBacklogScan(w)
  PROVE  StateOK'
<1>1. AttachmentsGoOn /\ LibraryOK'
  BY NothingChanges DEF StateOK, ScihubBacklogScan
<1>2. PICK r \in Thread : r = [Idle EXCEPT !.pc = "insert"]
  BY IdleIsOK DEF Thread, ThreadAt
<1>3. /\ r.present = {} /\ r.missing = {} /\ r.todo = {} /\ r.made = {}
      /\ r.pc = "insert"
  BY <1>2 DEF Idle
<1>4. ThreadOK(r)
  BY <1>3, NoLists DEF MadeOK, HasJob
<1>5. Step(w, r)
  BY <1>2 DEF ScihubBacklogScan
<1> QED BY <1>1, <1>4, <1>5, ThreadGoesOn, QueueRests DEF ScihubBacklogScan, StateOK

LEMMA ZoteroStep ==
  ASSUME StateOK, NEW k \in Key, ZoteroSyncs(k) \/ ZoteroDropsTrashed(k)
  PROVE  StateOK'
<1>1. AttachmentsGoOn /\ LibraryOK'
  BY SyncKeeps, DropKeeps DEF StateOK
<1>2. UNCHANGED <<jobs, at>>
  BY DEF ZoteroSyncs, ZoteroDropsTrashed
<1> QED BY <1>1, <1>2, QueueRests, ThreadsRest DEF StateOK

(* Sending a request: the attachment there is now is none of those the     *)
(* item began with, and a failure makes nothing.                           *)
LEMMA SendStep ==
  ASSUME StateOK, NEW w \in Worker, Send(w)
  PROVE  StateOK'
<1>1. at[w] \in Thread /\ ThreadOK(at[w]) /\ at[w].pc = "send"
  BY ThreadOfWorker DEF StateOK, Send
<1>2. at[w].job \in Job
  BY <1>1 DEF ThreadOK, HasJob
<1>3. ASSUME NEW k \in Key, RelayCreates(w, k), UNCHANGED jobs,
             Step(w, [at[w] EXCEPT !.pc = "copy", !.key = k])
      PROVE  StateOK'
  <2>1. AttachmentsGoOn /\ LibraryOK' /\ k \in Attached' /\ ~Foreign(k)'
    BY <1>1, <1>3, CreationKeeps DEF StateOK
  <2>2. k \in Nat
    BY KeyIsNumber
  <2>3. PICK r \in Thread : r = [at[w] EXCEPT !.pc = "copy", !.key = k]
    BY <1>1, <2>2 DEF Thread, ThreadAt
  <2>4. PICK p \in Thread : p = [at[w] EXCEPT !.pc = "report"]
    BY <1>1 DEF Thread, ThreadAt
  <2>5. ThreadOK(p)
    BY <1>1, <1>2, <2>4, SameLists DEF Thread, StateOK
  <2>6. ThreadOK(p)'
    BY <2>1, <2>5, ThreadStays
  <2>7. /\ r.present = p.present /\ r.missing = p.missing /\ r.todo = p.todo
        /\ r.made = p.made /\ r.pc = "copy" /\ r.key = k /\ r.job = at[w].job
    BY <1>1, <2>3, <2>4 DEF Thread
  <2>8. ThreadOK(r)'
    BY <1>2, <2>1, <2>6, <2>7 DEF ThreadOK, HasJob
  <2>9. Step(w, r)
    BY <1>3, <2>3 DEF Step
  <2> QED BY <1>3, <2>1, <2>8, <2>9, ThreadSteps, QueueRests DEF StateOK
<1>4. ASSUME UNCHANGED att \/ \E k \in Key : RelayCreates(w, k)
      PROVE  AttachmentsGoOn /\ LibraryOK'
  BY <1>1, <1>4, CreationKeeps, NothingChanges DEF StateOK
<1>5. CASE /\ UNCHANGED att \/ \E k \in Key : RelayCreates(w, k)
           /\ UNCHANGED <<at, jobs>>
  BY <1>4, <1>5, ThreadsRest, QueueRests DEF StateOK
<1>6. CASE /\ UNCHANGED att \/ \E k \in Key : RelayCreates(w, k)
           /\ AttachEnds(w, FALSE)
  BY <1>2, <1>4, <1>6, AttachEndsKeeps DEF StateOK
<1>7. ASSUME UNCHANGED att,
             NEW status \in {"failed_final", "skipped"}, Report(w, status, {})
      PROVE  StateOK'
  BY <1>2, <1>4, <1>7, ReportKeeps, NothingMade DEF StateOK
<1> QED BY <1>3, <1>5, <1>6, <1>7 DEF Send

LEMMA CopyStep ==
  ASSUME StateOK, NEW w \in Worker, Copy(w)
  PROVE  StateOK'
<1>1. at[w] \in Thread /\ ThreadOK(at[w]) /\ at[w].pc = "copy"
  BY ThreadOfWorker DEF StateOK, Copy
<1>2. at[w].job \in Job
  BY <1>1 DEF ThreadOK, HasJob
<1>3. PICK k \in Attached : k = at[w].key /\ ~Foreign(k)
  BY <1>1 DEF ThreadOK
<1>4. ASSUME NEW row \in BOOLEAN, att' = RowWritten(k, row)
      PROVE  AttachmentsGoOn /\ LibraryOK' /\ MadeOK({k})'
  BY <1>3, <1>4, CopyKeeps DEF StateOK
<1>5. ASSUME NEW row \in BOOLEAN, att' = RowWritten(k, row), NEW ok \in BOOLEAN,
             AttachEnds(w, ok)
      PROVE  StateOK'
  <2>1. AttachmentsGoOn /\ LibraryOK' /\ MadeOK({k})' /\ k \in Key
    BY <1>4, <1>5 DEF Attached
  <2> QED BY <1>2, <1>3, <1>5, <2>1, AttachEndsKeeps DEF StateOK
<1>6. CASE UNCHANGED att /\ AttachEnds(w, FALSE)
  <2>1. AttachmentsGoOn /\ LibraryOK'
    BY <1>6, NothingChanges DEF StateOK
  <2> QED BY <1>2, <1>6, <2>1, AttachEndsKeeps DEF StateOK
<1>7. \/ \E row \in BOOLEAN, ok \in BOOLEAN : att' = RowWritten(k, row) /\ AttachEnds(w, ok)
      \/ UNCHANGED att /\ AttachEnds(w, FALSE)
  BY <1>3 DEF Copy
<1> QED BY <1>5, <1>6, <1>7

(* The clean-up of a thread whose inventory is right.                      *)
LEMMA CleanUpIsOK ==
  ASSUME LibraryOK, NEW r \in Thread, ThreadOK(r)
  PROVE  CleanUp(r) \in Thread /\ ThreadOK(CleanUp(r))
<1>1. /\ att \in [Key -> {None} \cup Attachment]
      /\ r.present \in SUBSET Key /\ r.missing \in SUBSET Key
      /\ PresentOK(r.present) /\ MissingOK(r.missing) /\ MadeOK(r.made)
  BY DEF LibraryOK, ThreadOK, Thread
<1>2. PICK todo \in SUBSET Key : todo = TrashList(r.present, r.missing) /\ TodoOK(todo)
  BY <1>1, TrashListIsBeaten
<1>3. PICK html \in Html \cup {None} :
        html = IF KeepKey(r.present) = {} THEN r.html ELSE None
  BY DEF Thread
<1>4. PICK q \in Thread : q = [r EXCEPT !.pc = "trash", !.todo = todo, !.html = html,
                                        !.present = {}, !.missing = {}]
  BY DEF Thread, ThreadAt
<1>5. /\ q.pc = "trash" /\ q.todo = todo /\ q.present = {} /\ q.missing = {}
      /\ q.made = r.made
  BY <1>4 DEF Thread
<1>6. ThreadOK(q)
  BY <1>1, <1>2, <1>5 DEF ThreadOK, HasJob, PresentOK, MissingOK
<1>7. q = CleanUp(r)
  BY <1>2, <1>3, <1>4 DEF CleanUp
<1> QED BY <1>6, <1>7

LEMMA AfterHtmlIsOK ==
  ASSUME NEW r \in Thread, ThreadOK(r), r.job \in Job,
         NEW result \in {"none", "ok", "failed"}
  PROVE  AfterHtml(r, result) \in Thread /\ ThreadOK(AfterHtml(r, result))
<1>1. PICK q \in Thread : q = AfterHtml(r, result)
  BY IdleIsOK DEF AfterHtml, Thread, ThreadAt
<1>2. /\ q.present = {} /\ q.missing = {} /\ q.todo = {} /\ q.made = r.made
      /\ q.pc = "pdf" /\ q.job = r.job
  BY <1>1, IdleIsOK DEF AfterHtml, Thread, Idle
<1>3. ThreadOK(q)
  BY <1>2, NoLists DEF ThreadOK, HasJob
<1> QED BY <1>1, <1>3

LEMMA DiscoverStep ==
  ASSUME StateOK, NEW w \in Worker, Discover(w)
  PROVE  StateOK'
<1>1. at[w] \in Thread /\ ThreadOK(at[w]) /\ at[w].pc = "discover"
  BY ThreadOfWorker DEF StateOK, Discover
<1>2. at[w].job \in Job
  BY <1>1 DEF ThreadOK, HasJob
<1>3. AttachmentsGoOn /\ LibraryOK'
  BY NothingChanges DEF StateOK, Discover
<1>4. ASSUME NEW html \in Html, UNCHANGED jobs,
             Step(w, CleanUp([at[w] EXCEPT !.html = html]))
      PROVE  StateOK'
  <2>1. PICK r \in Thread : r = [at[w] EXCEPT !.html = html]
    BY <1>1 DEF Thread
  <2>2. ThreadOK(r)
    BY <1>1, <1>2, <2>1, SameLists DEF Thread, StateOK
  <2>3. CleanUp(r) \in Thread /\ ThreadOK(CleanUp(r))
    BY <2>2, CleanUpIsOK DEF StateOK
  <2>4. Step(w, CleanUp(r))
    BY <1>4, <2>1
  <2> QED BY <1>3, <1>4, <2>3, <2>4, ThreadGoesOn, QueueRests DEF StateOK
<1>5. CASE UNCHANGED jobs /\ Step(w, AfterHtml(at[w], "none"))
  BY <1>1, <1>2, <1>3, <1>5, AfterHtmlIsOK, ThreadGoesOn, QueueRests DEF StateOK
<1>6. CASE RetryableFailure(w)
  BY <1>2, <1>3, <1>6, RetryableFailureKeeps DEF StateOK
<1>7. CASE Report(w, "failed_final", {})
  BY <1>2, <1>3, <1>7, ReportKeeps, NothingMade DEF StateOK
<1> QED BY <1>4, <1>5, <1>6, <1>7 DEF Discover

LEMMA TrashStep ==
  ASSUME StateOK, NEW w \in Worker, Trash(w)
  PROVE  StateOK'
<1>1. at[w] \in Thread /\ ThreadOK(at[w]) /\ at[w].pc = "trash"
  BY ThreadOfWorker DEF StateOK, Trash
<1>2. PICK k \in at[w].todo, carried \in BOOLEAN, answered \in BOOLEAN :
        /\ att' = IF carried /\ att[k] # None
                  THEN [att EXCEPT ![k] = [att[k] EXCEPT !.live = FALSE]]
                  ELSE att
        /\ Step(w, [at[w] EXCEPT !.todo = at[w].todo \ {k},
                     !.errors = at[w].errors
                                \/ (at[w].job # None /\ ~(carried /\ answered))])
  BY DEF Trash
<1>3. k \in Attached /\ IsHtml(k) /\ (Beaten(k) \/ NeverHere(k))
  BY <1>1, <1>2 DEF ThreadOK, TodoOK
<1>4. AttachmentsGoOn /\ LibraryOK'
  <2>1. CASE att' = [att EXCEPT ![k] = [att[k] EXCEPT !.live = FALSE]]
    BY <1>3, <2>1, TrashKeeps DEF StateOK
  <2>2. CASE att' = att
    BY <2>2, NothingChanges DEF StateOK
  <2> QED BY <1>2, <2>1, <2>2
<1>5. ThreadsOK'
  <2>1. PICK errors \in BOOLEAN :
          errors = (at[w].errors \/ (at[w].job # None /\ ~(carried /\ answered)))
    OBVIOUS
  <2>2. PICK r \in Thread : r = [at[w] EXCEPT !.todo = at[w].todo \ {k}, !.errors = errors]
    BY <1>1 DEF Thread
  <2>3. /\ r.present = at[w].present /\ r.missing = at[w].missing
        /\ r.todo = at[w].todo \ {k} /\ r.made = at[w].made
        /\ r.pc = "trash" /\ r.job = at[w].job
    BY <1>1, <2>2 DEF Thread
  <2>4. ThreadOK(r)
    BY <1>1, <2>3 DEF ThreadOK, TodoOK, HasJob
  <2>5. Step(w, r)
    BY <1>2, <2>1, <2>2 DEF Step
  <2> QED BY <1>4, <2>4, <2>5, ThreadGoesOn DEF StateOK
<1> QED BY <1>4, <1>5, QueueRests DEF Trash, StateOK

LEMMA AfterTrashStep ==
  ASSUME StateOK, NEW w \in Worker, AfterTrash(w)
  PROVE  StateOK'
<1>1. at[w] \in Thread /\ ThreadOK(at[w]) /\ at[w].pc = "trash"
  BY ThreadOfWorker DEF StateOK, AfterTrash
<1>2. AttachmentsGoOn /\ LibraryOK' /\ QueueOK'
  BY NothingChanges, QueueRests DEF StateOK, AfterTrash
<1>3. CASE at[w].job = None
  BY <1>2, <1>3, GoesIdle DEF AfterTrash, StateOK
<1>4. CASE at[w].job # None
  <2>1. at[w].job \in Job
    BY <1>1, <1>4 DEF Thread
  <2>2. CASE at[w].errors
    BY <1>1, <1>2, <1>4, <2>1, <2>2, AfterHtmlIsOK, ThreadGoesOn DEF AfterTrash, StateOK
  <2>3. CASE ~at[w].errors /\ at[w].html = None
    BY <1>1, <1>2, <1>4, <2>1, <2>3, AfterHtmlIsOK, ThreadGoesOn DEF AfterTrash, StateOK
  <2>4. CASE ~at[w].errors /\ at[w].html # None
    <3>1. PICK r \in Thread : r = [at[w] EXCEPT !.pc = "send"]
      BY <1>1 DEF Thread, ThreadAt
    <3>2. ThreadOK(r)
      BY <1>1, <2>1, <3>1, SameLists DEF Thread, StateOK
    <3>3. Step(w, r)
      BY <1>4, <2>4, <3>1 DEF AfterTrash
    <3> QED BY <1>2, <3>2, <3>3, ThreadGoesOn DEF StateOK
  <2> QED BY <2>2, <2>3, <2>4
<1> QED BY <1>2, <1>3, <1>4 DEF StateOK

LEMMA AttachPdfStep ==
  ASSUME StateOK, NEW w \in Worker, AttachPdf(w)
  PROVE  StateOK'
<1>1. at[w] \in Thread /\ ThreadOK(at[w]) /\ at[w].pc = "pdf"
  BY ThreadOfWorker DEF StateOK, AttachPdf
<1>2. at[w].job \in Job
  BY <1>1 DEF ThreadOK, HasJob
<1>3. AttachmentsGoOn /\ LibraryOK' /\ QueueOK'
  BY NothingChanges, QueueRests DEF StateOK, AttachPdf
<1>4. PICK r \in Thread : /\ Step(w, r)
                          /\ \/ r = [at[w] EXCEPT !.pc = "send", !.hasPdf = TRUE]
                             \/ r = AfterPdf(at[w], "none")
  <2>1. [at[w] EXCEPT !.pc = "send", !.hasPdf = TRUE] \in Thread
    BY <1>1 DEF Thread, ThreadAt
  <2>2. AfterPdf(at[w], "none") \in Thread
    BY <1>1 DEF AfterPdf, Thread, ThreadAt, Result
  <2> QED BY <2>1, <2>2 DEF AttachPdf
<1>5. ThreadOK(r)
  BY <1>1, <1>2, <1>4, SameLists DEF AfterPdf, Thread, StateOK
<1> QED BY <1>3, <1>4, <1>5, ThreadGoesOn DEF StateOK

LEMMA CleanupStep ==
  ASSUME StateOK, NEW w \in Worker, SourceHtmlCleanup(w)
  PROVE  StateOK'
<1>1. AttachmentsGoOn /\ LibraryOK' /\ QueueOK'
  BY NothingChanges, QueueRests DEF StateOK, SourceHtmlCleanup
<1>2. PICK pdf \in BOOLEAN : pdf = HasPdf
  BY LooksAreBoolean
<1>3. PICK r \in Thread : r = Inventory(Idle)
  BY <1>2, InventoryIsOK, IdleIsOK DEF Inventory, Thread, StateOK
<1>4. /\ r.present = Present /\ r.missing = Missing /\ r.todo = {} /\ r.made = {}
      /\ r.pc = "idle"
  BY <1>3, IdleIsOK DEF Inventory, Idle, Thread
<1>5. ThreadOK(r)
  BY <1>4, InventoryIsOK DEF ThreadOK, TodoOK, MadeOK, HasJob, StateOK
<1>6. PICK q \in Thread : q = CleanUp(r) /\ ThreadOK(q)
  BY <1>5, CleanUpIsOK DEF StateOK
<1>7. PICK p \in Thread : p = [q EXCEPT !.hasPdf = FALSE]
  BY DEF Thread
<1>8. /\ p.present = q.present /\ p.missing = q.missing /\ p.todo = q.todo
      /\ p.made = q.made /\ p.pc = "trash" /\ q.pc = "trash"
  BY <1>6, <1>7 DEF Thread, CleanUp
<1>9. ThreadOK(p)
  BY <1>6, <1>8 DEF ThreadOK, HasJob
<1>10. Step(w, p)
  BY <1>3, <1>6, <1>7 DEF SourceHtmlCleanup
<1> QED BY <1>1, <1>9, <1>10, ThreadGoesOn DEF StateOK

LEMMA AtReportIsOK ==
  ASSUME ThreadsOK, NEW w \in Worker, at[w].job \in Job
  PROVE  AtReport(at[w]) \in Thread /\ ThreadOK(AtReport(at[w]))
<1>1. at[w] \in Thread
  BY ThreadOfWorker
<1>2. PICK r \in Thread : r = AtReport(at[w])
  BY <1>1 DEF AtReport, Thread, ThreadAt
<1>3. ThreadOK(r)
  BY <1>1, <1>2, SameLists DEF AtReport, Thread
<1> QED BY <1>2, <1>3

LEMMA ResearchgateStep ==
  ASSUME StateOK, NEW w \in Worker, EnqueueResearchgate(w)
  PROVE  StateOK'
<1>1. at[w] \in Thread /\ ThreadOK(at[w]) /\ at[w].pc = "fallback"
  BY ThreadOfWorker DEF StateOK, EnqueueResearchgate
<1>2. at[w].job \in Job
  BY <1>1 DEF ThreadOK, HasJob
<1>3. AttachmentsGoOn /\ LibraryOK'
  BY NothingChanges DEF StateOK, EnqueueResearchgate
<1>4. PICK j \in Job : jobs' = jobs \/ jobs' = Queued(j)
  BY DEF EnqueueResearchgate, Job
<1>5. QueueOK'
  BY <1>3, <1>4, QueuedKeeps, QueueRests DEF StateOK
<1> QED BY <1>2, <1>3, <1>5, AtReportIsOK, ThreadGoesOn DEF EnqueueResearchgate, StateOK

LEMMA LookupStep ==
  ASSUME StateOK, NEW w \in Worker, LookupScihub(w)
  PROVE  StateOK'
<1>1. at[w] \in Thread /\ ThreadOK(at[w]) /\ at[w].pc = "fallback"
  BY ThreadOfWorker DEF StateOK, LookupScihub
<1>2. at[w].job \in Job
  BY <1>1 DEF ThreadOK, HasJob
<1>3. AttachmentsGoOn /\ LibraryOK' /\ QueueOK'
  BY NothingChanges, QueueRests DEF StateOK, LookupScihub
<1>4. CASE Step(w, AtReport(at[w]))
  BY <1>2, <1>3, <1>4, AtReportIsOK, ThreadGoesOn DEF StateOK
<1>5. CASE Step(w, [at[w] EXCEPT !.pc = "insert"])
  <2>1. PICK r \in Thread : r = [at[w] EXCEPT !.pc = "insert"]
    BY <1>1 DEF Thread, ThreadAt
  <2>2. ThreadOK(r)
    BY <1>1, <1>2, <2>1, SameLists DEF Thread, StateOK
  <2> QED BY <1>3, <1>5, <2>1, <2>2, ThreadGoesOn DEF StateOK
<1> QED BY <1>4, <1>5 DEF LookupScihub

LEMMA ScihubStep ==
  ASSUME StateOK, NEW w \in Worker, EnqueueScihub(w)
  PROVE  StateOK'
<1>1. at[w] \in Thread /\ at[w].pc = "insert"
  BY ThreadOfWorker DEF StateOK, EnqueueScihub
<1>2. AttachmentsGoOn /\ LibraryOK'
  BY NothingChanges DEF StateOK, EnqueueScihub
<1>3. PICK j \in Job : jobs' = jobs \/ jobs' = Queued(j)
  BY DEF EnqueueScihub, Job
<1>4. QueueOK'
  BY <1>2, <1>3, QueuedKeeps, QueueRests DEF StateOK
<1>5. ThreadsOK'
  <2>1. CASE at[w].job = None
    BY <1>2, <2>1, GoesIdle DEF EnqueueScihub, StateOK
  <2>2. CASE at[w].job # None
    <3>1. at[w].job \in Job
      BY <1>1, <2>2 DEF Thread
    <3> QED BY <1>2, <2>2, <3>1, AtReportIsOK, ThreadGoesOn DEF EnqueueScihub, StateOK
  <2> QED BY <2>1, <2>2
<1> QED BY <1>2, <1>4, <1>5 DEF StateOK

LEMMA RaisesStep ==
  ASSUME StateOK, NEW w \in Worker, FallbackRaises(w)
  PROVE  StateOK'
<1>1. at[w].job \in Job
  BY ThreadOfWorker DEF StateOK, FallbackRaises, Thread
<1>2. AttachmentsGoOn /\ LibraryOK'
  BY NothingChanges DEF StateOK, FallbackRaises
<1> QED BY <1>1, <1>2, RetryableFailureKeeps DEF FallbackRaises, StateOK

LEMMA FinishStep ==
  ASSUME StateOK, NEW w \in Worker, FinishFullText(w)
  PROVE  StateOK'
<1>1. at[w] \in Thread /\ ThreadOK(at[w]) /\ at[w].pc = "report"
  BY ThreadOfWorker DEF StateOK, FinishFullText
<1>2. at[w].job \in Job
  BY <1>1 DEF ThreadOK, HasJob
<1>3. AttachmentsGoOn /\ LibraryOK'
  BY NothingChanges DEF StateOK, FinishFullText
<1>4. CASE Succeed(w, at[w].made)
  <2>1. PICK made \in SUBSET Key : made = at[w].made /\ MadeOK(made)
    BY <1>1 DEF ThreadOK, Thread
  <2>2. MadeOK(made)'
    BY <1>3, <2>1, MadeStays
  <2>3. Report(w, "succeeded", made)
    BY <1>4, <2>1 DEF Succeed
  <2> QED BY <1>2, <1>3, <2>2, <2>3, ReportKeeps DEF StateOK
<1>5. CASE RetryableFailure(w)
  BY <1>2, <1>3, <1>5, RetryableFailureKeeps DEF StateOK
<1> QED BY <1>4, <1>5 DEF FinishFullText

(* The looks of a fallback job, before and after its download.             *)
LEMMA LookStep ==
  ASSUME StateOK, NEW w \in Worker, Preflight(w) \/ Download(w)
  PROVE  StateOK'
<1>1. at[w] \in Thread /\ ThreadOK(at[w]) /\ at[w].pc \in {"preflight", "download"}
  BY ThreadOfWorker DEF StateOK, Preflight, Download
<1>2. at[w].job \in Job
  BY <1>1 DEF ThreadOK, HasJob
<1>3. AttachmentsGoOn /\ LibraryOK'
  BY NothingChanges DEF StateOK, Preflight, Download
<1>4. ASSUME NEW pc \in {"download", "send"}, UNCHANGED jobs,
             Step(w, [at[w] EXCEPT !.pc = pc])
      PROVE  StateOK'
  <2>1. PICK r \in Thread : r = [at[w] EXCEPT !.pc = pc]
    BY <1>1 DEF Thread, ThreadAt
  <2>2. ThreadOK(r)
    BY <1>1, <1>2, <2>1, SameLists DEF Thread, StateOK
  <2> QED BY <1>3, <1>4, <2>1, <2>2, ThreadGoesOn, QueueRests DEF StateOK
<1>5. CASE Succeed(w, {})
  BY <1>2, <1>3, <1>5, ReportKeeps, NothingMade DEF StateOK, Succeed
<1>6. ASSUME NEW again, FallbackFails(w, again)
      PROVE  StateOK'
  BY <1>2, <1>3, <1>6, FallbackFailsKeeps DEF StateOK
<1> QED BY <1>4, <1>5, <1>6 DEF Preflight, Download, Reread

-----------------------------------------------------------------------------
(* The invariant.                                                          *)

LEMMA InitInv == PaperInit => PaperInv
<1>1. SUFFICES ASSUME PaperInit PROVE PaperInv
  OBVIOUS
<1>a. PICK n \in {0, Len(Elsewhere)} : \E file \in [1..n -> BOOLEAN] :
        att = [k \in Key |-> IF k > n THEN None
                ELSE [dedupe |-> <<"elsewhere", Elsewhere[k]>>, doc |-> Elsewhere[k],
                      live |-> TRUE, row |-> TRUE, file |-> file[k]]]
  BY <1>1 DEF PaperInit
<1>2. PICK file \in [1..n -> BOOLEAN] :
        att = [k \in Key |-> IF k > n THEN None
                ELSE [dedupe |-> <<"elsewhere", Elsewhere[k]>>, doc |-> Elsewhere[k],
                      live |-> TRUE, row |-> TRUE, file |-> file[k]]]
  BY <1>a
<1>3. /\ n \in Nat /\ \A k \in 1..n : k \in DOMAIN Elsewhere /\ Elsewhere[k] \in Html
  BY PaperAssumption
<1>4. ASSUME NEW k \in Key
      PROVE  \/ k > n /\ att[k] = None
             \/ /\ k \in 1..n /\ att[k] \in Attachment
                /\ att[k].dedupe = <<"elsewhere", Elsewhere[k]>>
                /\ att[k].doc = Elsewhere[k] /\ att[k].live /\ att[k].row
  <2>1. CASE k > n
    BY <1>2, <2>1
  <2>2. CASE ~(k > n)
    <3>1. k \in 1..n
      BY <1>3, <2>2, KeyIsNumber DEF Key
    <3>2. \A d \in Html, f \in BOOLEAN :
            [dedupe |-> <<"elsewhere", d>>, doc |-> d, live |-> TRUE,
             row |-> TRUE, file |-> f] \in Attachment
      BY DEF Attachment, Ways
    <3>3. PICK rec \in Attachment :
            rec = [dedupe |-> <<"elsewhere", Elsewhere[k]>>, doc |-> Elsewhere[k],
                   live |-> TRUE, row |-> TRUE, file |-> file[k]]
      BY <1>3, <3>1, <3>2
    <3>4. att[k] = rec
      BY <1>2, <2>2, <3>3
    <3> QED BY <3>1, <3>3, <3>4
  <2> QED BY <2>1, <2>2
<1>5. att \in [Key -> {None} \cup Attachment]
  <2>1. att = [k \in Key |-> att[k]]
    BY <1>2
  <2> QED BY <1>4, <2>1
<1>6. ASSUME NEW k \in Attached
      PROVE  /\ k \in 1..n
             /\ att[k].dedupe = <<"elsewhere", Elsewhere[k]>>
             /\ att[k].doc = Elsewhere[k] /\ att[k].live /\ att[k].row
             /\ IsHtml(k) /\ Foreign(k)
  BY <1>3, <1>4 DEF Attached, IsHtml, Foreign
<1>7. ASSUME NEW k \in Attached
      PROVE  AttachmentOK(k)
  <2>1. att[k].file => Stands(k)
    BY <1>6, WhatIsValid, ValidStands
  <2> QED BY <1>6, <2>1 DEF AttachmentOK, NeverHere
<1>8. Distinct => OneCopyPerSource
  BY <1>3, <1>6 DEF Distinct, OneCopyPerSource
<1>9. QueueOK
  <2>1. AbsentJob \in JobRow
    BY PaperAssumption DEF AbsentJob, JobRow, JobStatus
  <2>2. RowOK(AbsentJob)
    BY NoneIsApart DEF AbsentJob, RowOK, MadeOK
  <2>3. jobs = [j \in Job |-> AbsentJob]
    BY <1>1 DEF PaperInit
  <2> QED BY <2>1, <2>2, <2>3 DEF QueueOK
<1>10. ThreadsOK
  BY <1>1, IdleIsOK DEF PaperInit, ThreadsOK
<1>11. CountsOK
  BY <1>1, PaperAssumption DEF PaperInit, CountsOK
<1> QED BY <1>5, <1>7, <1>8, <1>9, <1>10, <1>11 DEF PaperInv, LibraryOK

LEMMA CountsStep == CountsOK /\ PaperNext => CountsOK'
<1>1. SUFFICES ASSUME CountsOK, PaperNext PROVE CountsOK'
  OBVIOUS
<1>2. \/ mishaps' = mishaps
      \/ mishaps < MaxMishaps /\ mishaps' = mishaps + 1
  BY <1>1 DEF PaperNext, Work, Discover, AttachPdf, Trash, AfterTrash, Send, Copy,
     EnqueueResearchgate, LookupScihub, EnqueueScihub, FallbackRaises,
     FinishFullText, Preflight, Download, Claim, LeaseFoundLost,
     ScihubBacklogScan, SourceHtmlCleanup, Expire, FullTextBacklogScan,
     ZoteroSyncs, ZoteroDropsTrashed
<1>3. \/ claims' = claims
      \/ claims < MaxClaims /\ claims' = claims + 1
  BY ZenonT(30), <1>1 DEF PaperNext, Work, Discover, AttachPdf, Trash, AfterTrash, Send, Copy,
     EnqueueResearchgate, LookupScihub, EnqueueScihub, FallbackRaises,
     FinishFullText, Preflight, Download, Claim, LeaseFoundLost,
     ScihubBacklogScan, SourceHtmlCleanup, Expire, FullTextBacklogScan,
     ZoteroSyncs, ZoteroDropsTrashed
<1> QED BY <1>1, <1>2, <1>3, PaperAssumption DEF CountsOK

LEMMA NextInv == PaperInv /\ [PaperNext]_zvars => PaperInv'
<1>1. SUFFICES ASSUME PaperInv, [PaperNext]_zvars PROVE PaperInv'
  OBVIOUS
<1>2. StateOK /\ CountsOK
  BY <1>1 DEF PaperInv, StateOK
<1>3. CASE UNCHANGED zvars
  BY <1>2, <1>3, NothingChanges, QueueRests, ThreadsRest
     DEF zvars, StateOK, CountsOK, PaperInv
<1>4. CASE PaperNext
  <2>1. ASSUME NEW w \in Worker, Work(w)
        PROVE  StateOK'
    BY <1>2, <2>1, DiscoverStep, AttachPdfStep, TrashStep, AfterTrashStep,
       SendStep, CopyStep, ResearchgateStep, LookupStep, ScihubStep, RaisesStep,
       FinishStep, LookStep, ClaimStep DEF Work
  <2>2. ASSUME NEW w \in Worker,
               LeaseFoundLost(w) \/ ScihubBacklogScan(w) \/ SourceHtmlCleanup(w)
        PROVE  StateOK'
    BY <1>2, <2>2, LostStep, ScihubScanStep, CleanupStep
  <2>3. StateOK'
    BY <1>2, <1>4, <2>1, <2>2, ExpireStep, BacklogStep, ZoteroStep DEF PaperNext
  <2> QED BY <1>2, <1>4, <2>3, CountsStep DEF StateOK, PaperInv
<1> QED BY <1>1, <1>3, <1>4

(* No step leaves an item without source HTML that had one: what stands    *)
(* for a source HTML goes on standing, in whatever order clean-ups, their  *)
(* requests and new attachments come.                                      *)
LEMMA EveryStepGoesOn == PaperInv /\ [PaperNext]_zvars => AttachmentsGoOn
<1>1. SUFFICES ASSUME PaperInv, [PaperNext]_zvars PROVE AttachmentsGoOn
  OBVIOUS
<1>2. LibraryOK /\ ThreadsOK
  BY <1>1 DEF PaperInv
<1>3. CASE UNCHANGED att
  BY <1>2, <1>3, NothingChanges
<1>4. ASSUME NEW w \in Worker, Send(w), ~UNCHANGED att
      PROVE  AttachmentsGoOn
  <2>1. \E k \in Key : RelayCreates(w, k)
    BY <1>4 DEF Send
  <2> QED BY <1>2, <2>1, CreationKeeps, ThreadOfWorker
<1>5. ASSUME NEW w \in Worker, Copy(w), ~UNCHANGED att
      PROVE  AttachmentsGoOn
  <2>1. PICK k \in Attached : k = at[w].key /\ ~Foreign(k)
    BY <1>2, <1>5, ThreadOfWorker DEF ThreadOK, Copy
  <2>2. \E row \in BOOLEAN : att' = RowWritten(k, row)
    BY <1>5, <2>1 DEF Copy
  <2> QED BY <1>2, <2>1, <2>2, CopyKeeps
<1>6. ASSUME NEW w \in Worker, Trash(w), ~UNCHANGED att
      PROVE  AttachmentsGoOn
  <2>1. PICK k \in at[w].todo :
          att' = [att EXCEPT ![k] = [att[k] EXCEPT !.live = FALSE]]
    BY <1>6 DEF Trash
  <2>2. k \in Attached /\ IsHtml(k) /\ (Beaten(k) \/ NeverHere(k))
    BY <1>2, ThreadOfWorker DEF ThreadOK, TodoOK
  <2> QED BY <1>2, <2>1, <2>2, TrashKeeps
<1>7. ASSUME NEW k \in Key, ZoteroSyncs(k) \/ ZoteroDropsTrashed(k)
      PROVE  AttachmentsGoOn
  BY <1>2, <1>7, SyncKeeps, DropKeeps
<1>8. \/ UNCHANGED att
      \/ \E w \in Worker : Send(w) \/ Copy(w) \/ Trash(w)
      \/ \E k \in Key : ZoteroSyncs(k) \/ ZoteroDropsTrashed(k)
  BY <1>1 DEF PaperNext, zvars, Work, Discover, AttachPdf, AfterTrash,
     EnqueueResearchgate, LookupScihub, EnqueueScihub, FallbackRaises,
     FinishFullText, Preflight, Download, Claim, LeaseFoundLost,
     ScihubBacklogScan, SourceHtmlCleanup, Expire, FullTextBacklogScan
<1> QED BY <1>3, <1>4, <1>5, <1>6, <1>7, <1>8

(* The invariant holds in every behaviour of the paper.                    *)
THEOREM PaperInvariant == PaperSpec => []PaperInv
<1>1. PaperInit => PaperInv
  BY InitInv
<1>2. PaperInv /\ [PaperNext]_zvars => PaperInv'
  BY NextInv
<1> QED BY <1>1, <1>2, PTL DEF PaperSpec

(* A job is held exactly while it runs, within its attempts, and only what *)
(* is known of the library is trashed, copied or reported.                 *)
THEOREM PaperTypeCorrect == PaperSpec => []PaperTypeOK
<1>1. PaperInv => PaperTypeOK
  <2>1. SUFFICES ASSUME PaperInv PROVE PaperTypeOK
    OBVIOUS
  <2>2. att \in [Key -> {None} \cup Attachment] /\ mishaps \in 0..MaxMishaps
    BY <2>1 DEF PaperInv, LibraryOK, CountsOK
  <2>3. ASSUME NEW j \in Job
        PROVE  /\ jobs[j].attempts \in 0..MaxAttempts /\ jobs[j].made \subseteq Attached
               /\ jobs[j].status = "running" <=> jobs[j].holder \in Worker
    BY <2>1 DEF PaperInv, QueueOK, RowOK, MadeOK, JobRow
  <2>4. ASSUME NEW w \in Worker
        PROVE  /\ \A k \in at[w].todo : k \in Attached /\ IsHtml(k)
               /\ at[w].pc = "copy" => at[w].key \in Attached
    BY <2>1 DEF PaperInv, ThreadsOK, ThreadOK, TodoOK
  <2> QED BY <2>2, <2>3, <2>4 DEF PaperTypeOK
<1> QED BY <1>1, PaperInvariant, PTL

(* The clean-ups of any number of workers, each from an inventory of its   *)
(* own age, never remove the last source HTML a reader can open, as long   *)
(* as Zotero does not enter an attachment before its file is there.        *)
THEOREM HtmlKeptAlways ==
  ASSUME ~EarlyRows
  PROVE  PaperSpec => HtmlKept
<1>1. PaperInv /\ [PaperNext]_zvars
        => [(\E k \in Key : Valid(k)) => (\E k \in Key : Valid(k))']_zvars
  <2>1. SUFFICES ASSUME PaperInv, [PaperNext]_zvars, NEW k \in Key, Valid(k)
                 PROVE  (\E i \in Key : Valid(i))'
    OBVIOUS
  <2>2. k \in Attached /\ IsHtml(k) /\ Stands(k)
    BY <2>1, ValidIsAttached, ValidStands
  <2>3. Stands(k)'
    BY <2>1, <2>2, EveryStepGoesOn DEF AttachmentsGoOn, RankingGoesOn
  <2> QED BY <2>3 DEF Stands
<1> QED BY <1>1, PaperInvariant, PTL DEF PaperSpec, HtmlKept

(* What a succeeded job reports as attached is in the library with its     *)
(* file, or is a source HTML that gave way to one a reader can open.       *)
THEOREM DeliveredAlways ==
  ASSUME ~EarlyRows
  PROVE  PaperSpec => []Delivered
<1>1. PaperInv => Delivered
  <2>1. SUFFICES ASSUME PaperInv, NEW j \in Job, NEW k \in jobs[j].made
                 PROVE  IF att[k].live THEN att[k].file
                        ELSE IsHtml(k) /\ \E i \in Key : Valid(i)
    BY DEF Delivered
  <2>2. k \in Attached /\ ~Foreign(k) /\ (att[k].live => att[k].file)
    BY <2>1 DEF PaperInv, QueueOK, RowOK, MadeOK
  <2>3. AttachmentOK(k)
    BY <2>1, <2>2 DEF PaperInv, LibraryOK
  <2> QED BY <2>2, <2>3 DEF AttachmentOK, Stands
<1> QED BY <1>1, PaperInvariant, PTL

(* However often requests are sent again, a document found the same way is *)
(* attached once, if the item did not begin with two copies of one.        *)
THEOREM OneCopyPerSourceAlways ==
  ASSUME Distinct
  PROVE  PaperSpec => []OneCopyPerSource
<1>1. PaperInv => OneCopyPerSource
  BY DEF PaperInv, LibraryOK
<1> QED BY <1>1, PaperInvariant, PTL
-----------------------------------------------------------------------------
(* The drain script.  What the coordinator has reserved is what the        *)
(* batches under way hold and what the others have used, so the jobs       *)
(* worked on are those reserved, less what the batches under way have not  *)
(* leased, and those of batches that raised.                               *)

Batch == [pc : SlotAt, size : Nat, leased : Nat, done : Nat, failed : Nat,
          retryable : Nat, error : BOOLEAN]
Coord == [reserved : Nat, failed : Nat, retryable : Nat, errors : Nat,
          stop : BOOLEAN]

HoldOf(b) == IF b.pc \in {"draining", "returned", "raised"} THEN b.size ELSE 0
OutOf(b) == IF b.pc \in {"draining", "returned"} THEN b.leased ELSE 0
PendingOf(b) ==
  IF b.pc \in {"draining", "returned", "counted"} THEN b.size ELSE 0

Held(s, S) == SumFunctionOnSet([w \in Pool |-> HoldOf(s[w])], S)
Out(s, S) == SumFunctionOnSet([w \in Pool |-> OutOf(s[w])], S)
Pending(s, S) == SumFunctionOnSet([w \in Pool |-> PendingOf(s[w])], S)

BatchOK(b) ==
  /\ b.done <= b.leased /\ b.leased <= b.size /\ b.size <= PerBatch
  /\ b.failed <= b.done /\ b.retryable <= b.done
  /\ b.pc = "head" => b = NoBatch
  /\ b.pc \in {"returned", "counted"} => b.leased = b.done

Capacity ==
  args.limit > 0 =>
    /\ coord.reserved <= args.limit
    /\ Held(slot, Pool) <= coord.reserved
    /\ worked + Held(slot, Pool) = spilled + coord.reserved + Out(slot, Pool)

Room == Cardinality(Pool) * PerBatch

(* The failures counted and those that batches under way may still add     *)
(* stay within a threshold and one batch per thread.                       *)
Within(most, n) ==
  most > 0 => /\ n + Pending(slot, Pool) < most + Room
              /\ ~coord.stop => n < most

CompactInv ==
  /\ CompactTypeOK
  /\ queue.queued + queue.running <= MaxQueue
  /\ \A w \in Pool : BatchOK(slot[w])
  /\ Capacity
  /\ args.mode # "single" => /\ Within(args.maxFailed, coord.failed)
                             /\ Within(args.maxRetryable, coord.retryable)

-----------------------------------------------------------------------------
(* Sums over the slots.                                                    *)

LEMMA SumEmptied ==
  ASSUME NEW A, IsFiniteSet(A), NEW f \in [A -> Int], NEW h \in [A -> Int],
         NEW S \in SUBSET A,
         \A x \in S : h[x] = 0, \A x \in A \ S : h[x] = f[x]
  PROVE  SumFunctionOnSet(h, A) = SumFunctionOnSet(f, A) - SumFunctionOnSet(f, S)
<1>1. IsFiniteSet(S) /\ IsFiniteSet(A \ S)
  BY FS_Subset
<1>2. SumFunctionOnSet(h, A \ S) = SumFunctionOnSet(f, A \ S)
  BY <1>1, SumOfSame
<1>3. SumFunctionOnSet(h, S) = 0
  <2> DEFINE z == [x \in S |-> 0]
  <2>1. \A x \in S : h[x] = z[x]
    OBVIOUS
  <2>2. SumFunctionOnSet(z, S) = Cardinality(S) * 0
    BY <1>1, SumOfEqual
  <2>3. Cardinality(S) * 0 = 0
    BY <1>1, FS_CardinalityType
  <2> HIDE DEF z
  <2>4. SumFunctionOnSet(h, S) = SumFunctionOnSet(z, S)
    BY <1>1, <2>1, SumOfSame
  <2> QED BY <2>2, <2>3, <2>4
<1>4. /\ SumFunctionOnSet(f, A)
           = SumFunctionOnSet(f, S) + SumFunctionOnSet(f, A \ S)
      /\ SumFunctionOnSet(h, A)
           = SumFunctionOnSet(h, S) + SumFunctionOnSet(h, A \ S)
  BY SumOfParts
<1>5. SumFunctionOnSet(f, S) \in Int /\ SumFunctionOnSet(f, A \ S) \in Int
  BY <1>1, SumIsInteger
<1> QED BY <1>2, <1>3, <1>4, <1>5

LEMMA BatchNumbers ==
  ASSUME NEW b \in Batch
  PROVE  HoldOf(b) \in Nat /\ OutOf(b) \in Nat /\ PendingOf(b) \in Nat
  BY DEF Batch, HoldOf, OutOf, PendingOf

LEMMA SlotSums ==
  ASSUME NEW s \in [Pool -> Batch], NEW S \in SUBSET Pool
  PROVE  /\ IsFiniteSet(S)
         /\ [w \in Pool |-> HoldOf(s[w])] \in [Pool -> Int]
         /\ [w \in Pool |-> OutOf(s[w])] \in [Pool -> Int]
         /\ [w \in Pool |-> PendingOf(s[w])] \in [Pool -> Int]
         /\ Held(s, S) \in Int /\ Out(s, S) \in Int /\ Pending(s, S) \in Int
<1>1. IsFiniteSet(S)
  BY CompactAssumption, FS_Subset
<1>2. /\ [w \in Pool |-> HoldOf(s[w])] \in [Pool -> Int]
      /\ [w \in Pool |-> OutOf(s[w])] \in [Pool -> Int]
      /\ [w \in Pool |-> PendingOf(s[w])] \in [Pool -> Int]
  BY BatchNumbers
<1> QED BY <1>1, <1>2, SumIsInteger DEF Held, Out, Pending

(* One slot changes.                                                       *)
LEMMA SlotChanges ==
  ASSUME NEW s \in [Pool -> Batch], NEW t \in [Pool -> Batch], NEW w \in Pool,
         \A v \in Pool \ {w} : t[v] = s[v]
  PROVE  /\ Held(t, Pool) = Held(s, Pool) + HoldOf(t[w]) - HoldOf(s[w])
         /\ Out(t, Pool) = Out(s, Pool) + OutOf(t[w]) - OutOf(s[w])
         /\ Pending(t, Pool)
              = Pending(s, Pool) + PendingOf(t[w]) - PendingOf(s[w])
<1>2. IsFiniteSet(Pool)
  BY CompactAssumption
<1>3. Held(t, Pool) = Held(s, Pool) + HoldOf(t[w]) - HoldOf(s[w])
  <2> DEFINE f == [v \in Pool |-> HoldOf(s[v])]
             h == [v \in Pool |-> HoldOf(t[v])]
  <2>1. /\ f \in [Pool -> Int] /\ h \in [Pool -> Int]
        /\ \A v \in Pool \ {w} : h[v] = f[v]
        /\ f[w] = HoldOf(s[w]) /\ h[w] = HoldOf(t[w])
    BY SlotSums
  <2>2. Held(t, Pool) = SumFunctionOnSet(h, Pool) /\ Held(s, Pool) = SumFunctionOnSet(f, Pool)
    BY DEF Held
  <2> HIDE DEF f, h
  <2>3. SumFunctionOnSet(h, Pool) = SumFunctionOnSet(f, Pool) + h[w] - f[w]
    BY <1>2, <2>1, SumMoves
  <2> QED BY <2>1, <2>2, <2>3
<1>4. Out(t, Pool) = Out(s, Pool) + OutOf(t[w]) - OutOf(s[w])
  <2> DEFINE f == [v \in Pool |-> OutOf(s[v])]
             h == [v \in Pool |-> OutOf(t[v])]
  <2>1. /\ f \in [Pool -> Int] /\ h \in [Pool -> Int]
        /\ \A v \in Pool \ {w} : h[v] = f[v]
        /\ f[w] = OutOf(s[w]) /\ h[w] = OutOf(t[w])
    BY SlotSums
  <2>2. Out(t, Pool) = SumFunctionOnSet(h, Pool) /\ Out(s, Pool) = SumFunctionOnSet(f, Pool)
    BY DEF Out
  <2> HIDE DEF f, h
  <2>3. SumFunctionOnSet(h, Pool) = SumFunctionOnSet(f, Pool) + h[w] - f[w]
    BY <1>2, <2>1, SumMoves
  <2> QED BY <2>1, <2>2, <2>3
<1>5. Pending(t, Pool) = Pending(s, Pool) + PendingOf(t[w]) - PendingOf(s[w])
  <2> DEFINE f == [v \in Pool |-> PendingOf(s[v])]
             h == [v \in Pool |-> PendingOf(t[v])]
  <2>1. /\ f \in [Pool -> Int] /\ h \in [Pool -> Int]
        /\ \A v \in Pool \ {w} : h[v] = f[v]
        /\ f[w] = PendingOf(s[w]) /\ h[w] = PendingOf(t[w])
    BY SlotSums
  <2>2. Pending(t, Pool) = SumFunctionOnSet(h, Pool) /\ Pending(s, Pool) = SumFunctionOnSet(f, Pool)
    BY DEF Pending
  <2> HIDE DEF f, h
  <2>3. SumFunctionOnSet(h, Pool) = SumFunctionOnSet(f, Pool) + h[w] - f[w]
    BY <1>2, <2>1, SumMoves
  <2> QED BY <2>1, <2>2, <2>3
<1> QED BY <1>3, <1>4, <1>5

(* Several slots are emptied.                                              *)
LEMMA NoBatchIsBatch ==
  /\ NoBatch \in Batch /\ BatchOK(NoBatch)
  /\ HoldOf(NoBatch) = 0 /\ OutOf(NoBatch) = 0 /\ PendingOf(NoBatch) = 0
  /\ [NoBatch EXCEPT !.pc = "ended"] \in Batch
  /\ BatchOK([NoBatch EXCEPT !.pc = "ended"])
  /\ HoldOf([NoBatch EXCEPT !.pc = "ended"]) = 0
  /\ OutOf([NoBatch EXCEPT !.pc = "ended"]) = 0
  /\ PendingOf([NoBatch EXCEPT !.pc = "ended"]) = 0
<1> DEFINE e == [NoBatch EXCEPT !.pc = "ended"]
<1>1. /\ NoBatch.pc = "head" /\ e.pc = "ended"
      /\ NoBatch \in Batch /\ e \in Batch
      /\ NoBatch.size = 0 /\ NoBatch.leased = 0 /\ NoBatch.done = 0
      /\ NoBatch.failed = 0 /\ NoBatch.retryable = 0
      /\ e.size = 0 /\ e.leased = 0 /\ e.done = 0
      /\ e.failed = 0 /\ e.retryable = 0
  BY DEF NoBatch, Batch, SlotAt
<1> HIDE DEF e
<1>2. BatchOK(NoBatch) /\ BatchOK(e)
  BY <1>1, CompactAssumption DEF BatchOK
<1> QED BY <1>1, <1>2 DEF HoldOf, OutOf, PendingOf, e

LEMMA SlotsEmptied ==
  ASSUME NEW s \in [Pool -> Batch], NEW t \in [Pool -> Batch],
         NEW S \in SUBSET Pool,
         \A v \in S : t[v] = NoBatch, \A v \in Pool \ S : t[v] = s[v]
  PROVE  /\ Held(t, Pool) = Held(s, Pool) - Held(s, S)
         /\ Out(t, Pool) = Out(s, Pool) - Out(s, S)
         /\ Pending(t, Pool) = Pending(s, Pool) - Pending(s, S)
<1>2. IsFiniteSet(Pool)
  BY CompactAssumption
<1>3. Held(t, Pool) = Held(s, Pool) - Held(s, S)
  <2> DEFINE f == [v \in Pool |-> HoldOf(s[v])]
             h == [v \in Pool |-> HoldOf(t[v])]
  <2>1. /\ f \in [Pool -> Int] /\ h \in [Pool -> Int]
        /\ \A v \in S : h[v] = 0
        /\ \A v \in Pool \ S : h[v] = f[v]
    BY SlotSums, NoBatchIsBatch
  <2>2. /\ Held(t, Pool) = SumFunctionOnSet(h, Pool)
        /\ Held(s, Pool) = SumFunctionOnSet(f, Pool)
        /\ Held(s, S) = SumFunctionOnSet(f, S)
    BY DEF Held
  <2> HIDE DEF f, h
  <2> QED BY <1>2, <2>1, <2>2, SumEmptied
<1>4. Out(t, Pool) = Out(s, Pool) - Out(s, S)
  <2> DEFINE f == [v \in Pool |-> OutOf(s[v])]
             h == [v \in Pool |-> OutOf(t[v])]
  <2>1. /\ f \in [Pool -> Int] /\ h \in [Pool -> Int]
        /\ \A v \in S : h[v] = 0
        /\ \A v \in Pool \ S : h[v] = f[v]
    BY SlotSums, NoBatchIsBatch
  <2>2. /\ Out(t, Pool) = SumFunctionOnSet(h, Pool)
        /\ Out(s, Pool) = SumFunctionOnSet(f, Pool)
        /\ Out(s, S) = SumFunctionOnSet(f, S)
    BY DEF Out
  <2> HIDE DEF f, h
  <2> QED BY <1>2, <2>1, <2>2, SumEmptied
<1>5. Pending(t, Pool) = Pending(s, Pool) - Pending(s, S)
  <2> DEFINE f == [v \in Pool |-> PendingOf(s[v])]
             h == [v \in Pool |-> PendingOf(t[v])]
  <2>1. /\ f \in [Pool -> Int] /\ h \in [Pool -> Int]
        /\ \A v \in S : h[v] = 0
        /\ \A v \in Pool \ S : h[v] = f[v]
    BY SlotSums, NoBatchIsBatch
  <2>2. /\ Pending(t, Pool) = SumFunctionOnSet(h, Pool)
        /\ Pending(s, Pool) = SumFunctionOnSet(f, Pool)
        /\ Pending(s, S) = SumFunctionOnSet(f, S)
    BY DEF Pending
  <2> HIDE DEF f, h
  <2> QED BY <1>2, <2>1, <2>2, SumEmptied
<1> QED BY <1>3, <1>4, <1>5

(* What the batches under way hold is at most one batch per thread.        *)
LEMMA PartBounds ==
  ASSUME NEW s \in [Pool -> Batch], \A w \in Pool : BatchOK(s[w]),
         NEW S \in SUBSET Pool
  PROVE  /\ Held(s, S) \in Nat /\ Out(s, S) \in Nat /\ Pending(s, S) \in Nat
         /\ Out(s, S) <= Held(s, S)
<1> DEFINE f == [w \in Pool |-> HoldOf(s[w])]
           o == [w \in Pool |-> OutOf(s[w])]
           p == [w \in Pool |-> PendingOf(s[w])]
<1>1. /\ f \in [Pool -> Int] /\ o \in [Pool -> Int] /\ p \in [Pool -> Int]
      /\ IsFiniteSet(S)
  BY SlotSums
<1>2. \A w \in S : 0 <= f[w] /\ 0 <= o[w] /\ 0 <= p[w] /\ o[w] <= f[w]
  BY DEF Batch, BatchOK, HoldOf, OutOf, PendingOf
<1>3. /\ Held(s, S) = SumFunctionOnSet(f, S) /\ Out(s, S) = SumFunctionOnSet(o, S)
      /\ Pending(s, S) = SumFunctionOnSet(p, S)
  BY DEF Held, Out, Pending
<1> HIDE DEF f, o, p
<1> QED BY <1>1, <1>2, <1>3, SumIsNatural, SumGrows

LEMMA PendingInRoom ==
  ASSUME NEW s \in [Pool -> Batch], \A w \in Pool : BatchOK(s[w])
  PROVE  Pending(s, Pool) <= Room
<1> DEFINE p == [w \in Pool |-> PendingOf(s[w])]
           m == [w \in Pool |-> PerBatch]
<1>1. IsFiniteSet(Pool) /\ PerBatch \in Nat
  BY CompactAssumption
<1>2. p \in [Pool -> Int] /\ m \in [Pool -> Int] /\ \A w \in Pool : p[w] <= m[w]
  BY <1>1, SlotSums DEF Batch, BatchOK, PendingOf
<1>3. SumFunctionOnSet(m, Pool) = Room /\ Pending(s, Pool) = SumFunctionOnSet(p, Pool)
  BY <1>1, SumOfEqual DEF Room, Pending
<1> HIDE DEF p, m
<1> QED BY <1>1, <1>2, <1>3, SumGrows

LEMMA RoomIsNumber == Room \in Nat
<1>1. Cardinality(Pool) \in Nat /\ PerBatch \in Nat
  BY CompactAssumption, FS_CardinalityType
<1>2. \A c, d \in Nat : c * d \in Nat
  OBVIOUS
<1> QED BY <1>1, <1>2 DEF Room

-----------------------------------------------------------------------------
(* The coordinator.                                                        *)

LEMMA CompactTypes ==
  CompactInv =>
    /\ args.limit \in Nat /\ args.maxFailed \in Nat /\ args.maxRetryable \in Nat
    /\ args.relay \in BOOLEAN /\ args.mode \in Modes
    /\ coord \in Coord /\ slot \in [Pool -> Batch]
    /\ worked \in Nat /\ spilled \in Nat
    /\ queue.queued \in Nat /\ queue.running \in Nat
    /\ boss.pc \in BossAt /\ boss.available \in Nat
<1>1. SUFFICES ASSUME CompactInv
               PROVE  /\ args.limit \in Nat /\ args.maxFailed \in Nat
                      /\ args.maxRetryable \in Nat
                      /\ args.relay \in BOOLEAN /\ args.mode \in Modes
                      /\ coord \in Coord /\ slot \in [Pool -> Batch]
                      /\ worked \in Nat /\ spilled \in Nat
                      /\ queue.queued \in Nat /\ queue.running \in Nat
                      /\ boss.pc \in BossAt /\ boss.available \in Nat
  OBVIOUS
<1>2. /\ args.limit \in Limits /\ args.maxFailed \in Thresholds
      /\ args.maxRetryable \in Thresholds /\ args.relay \in BOOLEAN
      /\ args.mode \in Modes
  BY <1>1, Zenon DEF CompactInv, CompactTypeOK
<1>3. /\ coord \in Coord /\ slot \in [Pool -> Batch]
      /\ worked \in Nat /\ spilled \in Nat
      /\ boss.pc \in BossAt /\ boss.available \in Nat
  BY <1>1 DEF CompactInv, CompactTypeOK, Coord, Batch
<1>4. queue.queued \in Nat /\ queue.running \in Nat
  BY <1>1, CompactAssumption DEF CompactInv, CompactTypeOK
<1> QED BY <1>2, <1>3, <1>4, CompactAssumption

LEMMA GiveBackIs ==
  ASSUME NEW c \in Coord, NEW size \in Int, NEW done \in Int, args.limit \in Nat,
         args.limit > 0 => c.reserved - (size - done) >= 0
  PROVE  LET d == GiveBack(c, size, done) IN
         /\ d \in Coord
         /\ d.reserved = IF args.limit = 0 THEN c.reserved
                         ELSE c.reserved - (size - done)
         /\ d.failed = c.failed /\ d.retryable = c.retryable /\ d.stop = c.stop
<1>1. CASE args.limit = 0
  BY <1>1 DEF GiveBack
<1>2. CASE args.limit # 0
  <2>1. c.reserved - (size - done) \in Nat
    BY <1>2 DEF Coord
  <2> QED BY <1>2, <2>1 DEF GiveBack, Unused, Coord
<1> QED BY <1>1, <1>2

LEMMA RecordedIs ==
  ASSUME NEW c \in Coord, NEW b, b.failed \in Nat, b.retryable \in Nat,
         args.maxFailed \in Nat, args.maxRetryable \in Nat
  PROVE  LET d == Recorded(c, b) IN
         /\ d \in Coord
         /\ d.reserved = c.reserved
         /\ d.failed = c.failed + b.failed
         /\ d.retryable = c.retryable + b.retryable
         /\ c.stop => d.stop
         /\ args.mode # "single" /\ ~d.stop =>
              /\ args.maxFailed > 0 => d.failed < args.maxFailed
              /\ args.maxRetryable > 0 => d.retryable < args.maxRetryable
<1> DEFINE failed == c.failed + b.failed
           retryable == c.retryable + b.retryable
           errors == c.errors + IF b.error THEN 1 ELSE 0
           enough == /\ args.mode # "single"
                     /\ \/ Reached(failed, args.maxFailed)
                        \/ Reached(retryable, args.maxRetryable)
                        \/ errors > 0
           stop == c.stop \/ enough
           d == [c EXCEPT !.failed = failed, !.retryable = retryable,
                          !.errors = errors, !.stop = stop]
<1>1. Recorded(c, b) = d
  BY DEF Recorded
<1>2. failed \in Nat /\ retryable \in Nat /\ errors \in Nat
  BY DEF Coord
<1>3. stop \in BOOLEAN
  BY Zenon
<1>4. args.mode # "single" /\ ~stop =>
        /\ args.maxFailed > 0 => failed < args.maxFailed
        /\ args.maxRetryable > 0 => retryable < args.maxRetryable
  BY <1>2 DEF Reached
<1>5. c.stop => stop
  OBVIOUS
<1> HIDE DEF failed, retryable, errors, stop, enough
<1>6. /\ d \in Coord /\ d.reserved = c.reserved /\ d.failed = failed
      /\ d.retryable = retryable
  BY <1>2, <1>3 DEF Coord
<1>7. d.stop = stop
  BY DEF Coord
<1> HIDE DEF d
<1> QED BY <1>1, <1>4, <1>5, <1>6, <1>7 DEF failed, retryable

LEMMA ReservableIs ==
  ASSUME CompactInv, NEW most \in Nat
  PROVE  LET size == Reservable(most) IN
         /\ size \in Int /\ size <= PerBatch /\ size <= most
         /\ size > 0 => /\ ~coord.stop
                        /\ args.limit > 0 => coord.reserved + size <= args.limit
<1>1. /\ args.limit \in Nat /\ coord.reserved \in Nat
      /\ PerBatch \in Nat
  BY CompactTypes, CompactAssumption DEF Coord
<1> QED BY <1>1 DEF Reservable, Least

-----------------------------------------------------------------------------
(* The steps.                                                              *)

(* One slot goes on.  The failures and pending batches do not grow         *)
(* together, or the slot begins a batch while there is room.               *)
LEMMA OneSlotStep ==
  ASSUME CompactInv, args' = args, NEW w \in Pool, NEW b \in Batch, BatchOK(b),
         slot' = [slot EXCEPT ![w] = b],
         coord' \in Coord, boss' \in [pc : BossAt, available : Nat],
         queue' \in [queued : 0..MaxQueue, running : 0..MaxQueue],
         queue'.queued + queue'.running <= MaxQueue,
         worked' \in Nat, spilled' \in Nat,
         args.limit > 0 =>
           /\ coord'.reserved <= args.limit
           /\ HoldOf(b) - HoldOf(slot[w]) <= coord'.reserved - coord.reserved
           /\ worked' - worked + HoldOf(b) - HoldOf(slot[w])
                = spilled' - spilled + coord'.reserved - coord.reserved
                    + OutOf(b) - OutOf(slot[w]),
         args.mode # "single" =>
           \/ /\ ~coord.stop /\ coord'.stop = coord.stop
              /\ coord'.failed = coord.failed /\ coord'.retryable = coord.retryable
           \/ /\ coord'.failed + PendingOf(b) - PendingOf(slot[w]) <= coord.failed
              /\ coord'.retryable + PendingOf(b) - PendingOf(slot[w])
                   <= coord.retryable
              /\ ~coord'.stop =>
                   /\ args.maxFailed > 0 => coord'.failed < args.maxFailed
                   /\ args.maxRetryable > 0 => coord'.retryable < args.maxRetryable
  PROVE  CompactInv'
<1>1. /\ args.limit \in Nat /\ args.maxFailed \in Nat /\ args.maxRetryable \in Nat
      /\ coord \in Coord /\ slot \in [Pool -> Batch]
      /\ worked \in Nat /\ spilled \in Nat
  BY CompactTypes
<1>2. /\ slot' \in [Pool -> Batch]
      /\ Held(slot', Pool) = Held(slot, Pool) + HoldOf(b) - HoldOf(slot[w])
      /\ Out(slot', Pool) = Out(slot, Pool) + OutOf(b) - OutOf(slot[w])
      /\ Pending(slot', Pool)
           = Pending(slot, Pool) + PendingOf(b) - PendingOf(slot[w])
  <2>1. /\ slot' \in [Pool -> Batch] /\ slot'[w] = b
        /\ \A v \in Pool \ {w} : slot'[v] = slot[v]
    BY <1>1
  <2> QED BY ZenonT(30), <1>1, <2>1, SlotChanges
<1>3. \A v \in Pool : BatchOK(slot'[v])
  BY <1>1 DEF CompactInv
<1>4. CompactTypeOK'
  BY <1>2 DEF CompactInv, CompactTypeOK, Batch, Coord
<1>5. /\ Held(slot, Pool) \in Int /\ Out(slot, Pool) \in Int
      /\ Pending(slot, Pool) \in Int
      /\ HoldOf(b) \in Nat /\ HoldOf(slot[w]) \in Nat
      /\ OutOf(b) \in Nat /\ OutOf(slot[w]) \in Nat
      /\ PendingOf(b) \in Nat /\ PendingOf(slot[w]) \in Nat
      /\ coord.reserved \in Nat /\ coord'.reserved \in Nat
      /\ coord.failed \in Nat /\ coord'.failed \in Nat
      /\ coord.retryable \in Nat /\ coord'.retryable \in Nat
    <2>1. slot[w] \in Batch
      BY <1>1
    <2>2. /\ Held(slot, Pool) \in Int /\ Out(slot, Pool) \in Int
          /\ Pending(slot, Pool) \in Int
      BY <1>1, SlotSums
    <2> QED BY <1>1, <2>1, <2>2, BatchNumbers DEF Coord
<1>6. Capacity'
  <2>1. args.limit > 0 => /\ Held(slot, Pool) <= coord.reserved
                          /\ worked + Held(slot, Pool)
                               = spilled + coord.reserved + Out(slot, Pool)
    BY DEF CompactInv, Capacity
  <2>2. ASSUME args.limit > 0
        PROVE  /\ coord'.reserved <= args.limit
               /\ Held(slot', Pool) <= coord'.reserved
               /\ worked' + Held(slot', Pool)
                    = spilled' + coord'.reserved + Out(slot', Pool)
    <3> DEFINE dh == HoldOf(b) - HoldOf(slot[w])
               do == OutOf(b) - OutOf(slot[w])
    <3>1. /\ Held(slot', Pool) = Held(slot, Pool) + dh
          /\ Out(slot', Pool) = Out(slot, Pool) + do
          /\ dh \in Int /\ do \in Int
      BY <1>2, <1>5
    <3>2. /\ dh <= coord'.reserved - coord.reserved
          /\ worked' - worked + dh = spilled' - spilled + coord'.reserved - coord.reserved + do
      BY <1>1, <1>5, <2>2
    <3> HIDE DEF dh, do
    <3> QED BY <1>1, <1>5, <2>1, <2>2, <3>1, <3>2
  <2> QED BY <2>2 DEF Capacity
<1>7. ASSUME args.mode # "single"
      PROVE  /\ Within(args.maxFailed, coord.failed)'
             /\ Within(args.maxRetryable, coord.retryable)'
  <2>1. /\ Within(args.maxFailed, coord.failed)
        /\ Within(args.maxRetryable, coord.retryable)
    BY <1>7 DEF CompactInv
  <2>2. Pending(slot', Pool) \in Int /\ Pending(slot', Pool) <= Room /\ Room \in Nat
    BY <1>2, <1>3, PendingInRoom, SlotSums, RoomIsNumber
  <2>3. CASE /\ ~coord.stop /\ coord'.stop = coord.stop
             /\ coord'.failed = coord.failed /\ coord'.retryable = coord.retryable
    BY <1>1, <1>5, <2>1, <2>2, <2>3 DEF Within
  <2>4. CASE /\ coord'.failed + PendingOf(b) - PendingOf(slot[w]) <= coord.failed
             /\ coord'.retryable + PendingOf(b) - PendingOf(slot[w])
                  <= coord.retryable
             /\ ~coord'.stop =>
                  /\ args.maxFailed > 0 => coord'.failed < args.maxFailed
                  /\ args.maxRetryable > 0 => coord'.retryable < args.maxRetryable
    BY <1>1, <1>2, <1>5, <2>1, <2>2, <2>4 DEF Within
  <2> QED BY <1>7, <2>3, <2>4
<1> QED BY <1>3, <1>4, <1>6, <1>7 DEF CompactInv

LEMMA OtherTypes ==
  CompactInv => /\ boss \in [pc : BossAt, available : Nat]
                /\ queue \in [queued : 0..MaxQueue, running : 0..MaxQueue]
                /\ queue.queued + queue.running <= MaxQueue
                /\ \A w \in Pool : slot[w] \in Batch /\ BatchOK(slot[w])
                /\ args.limit > 0 => coord.reserved <= args.limit
                /\ \A w \in Pool : /\ slot[w].size \in Nat /\ slot[w].leased \in Nat
                                   /\ slot[w].done \in Nat /\ slot[w].failed \in Nat
                                   /\ slot[w].retryable \in Nat
                /\ coord.reserved \in Nat /\ coord.failed \in Nat
                /\ coord.retryable \in Nat
                /\ PerBatch \in Nat /\ MaxQueue \in Nat
  BY CompactTypes, CompactAssumption
     DEF CompactInv, CompactTypeOK, Capacity, Batch, Coord

(* What a batch holds is reserved.                                         *)
LEMMA BatchIsReserved ==
  ASSUME CompactInv, args.limit > 0, NEW S \in SUBSET Pool
  PROVE  Held(slot, S) <= coord.reserved
<1>1. /\ slot \in [Pool -> Batch] /\ coord.reserved \in Nat /\ IsFiniteSet(Pool)
  BY CompactTypes, OtherTypes, CompactAssumption
<1>2. Held(slot, Pool) <= coord.reserved
  BY DEF CompactInv, Capacity
<1> DEFINE f == [v \in Pool |-> HoldOf(slot[v])]
<1>3. /\ f \in [Pool -> Int] /\ IsFiniteSet(Pool \ S)
      /\ Held(slot, S) \in Int /\ Held(slot, Pool) \in Int
      /\ Held(slot, Pool \ S) \in Int
  BY <1>1, SlotSums
<1>4. Held(slot, Pool) = Held(slot, S) + Held(slot, Pool \ S)
  <2> HIDE DEF f
  <2>1. SumFunctionOnSet(f, Pool) = SumFunctionOnSet(f, S) + SumFunctionOnSet(f, Pool \ S)
    BY <1>1, <1>3, SumOfParts
  <2> QED BY <2>1 DEF f, Held
<1>5. Held(slot, Pool \ S) \in Nat
  BY <1>1, OtherTypes, PartBounds
<1> QED BY <1>1, <1>2, <1>3, <1>4, <1>5

LEMMA OneIsReserved ==
  ASSUME CompactInv, args.limit > 0, NEW w \in Pool
  PROVE  HoldOf(slot[w]) <= coord.reserved
<1> DEFINE f == [v \in Pool |-> HoldOf(slot[v])]
<1>1. Held(slot, {w}) <= coord.reserved
  BY BatchIsReserved
<1>2. f \in [Pool -> Int] /\ IsFiniteSet({w})
  BY CompactTypes, SlotSums
<1>3. f[w] = HoldOf(slot[w]) /\ Held(slot, {w}) = SumFunctionOnSet(f, {w})
  BY DEF Held
<1> HIDE DEF f
<1>4. SumFunctionOnSet(f, {w}) = f[w] + SumFunctionOnSet(f, {w} \ {w})
  BY <1>2, SumTakesOut
<1>5. SumFunctionOnSet(f, {w} \ {w}) = 0
  <2>1. {w} \ {w} = {}
    OBVIOUS
  <2> QED BY <2>1, SumOfNone
<1>6. f[w] \in Int
  BY <1>2
<1> QED BY <1>1, <1>3, <1>4, <1>5, <1>6

LEMMA BeginStep ==
  ASSUME CompactInv, NEW w \in Pool, slot[w].pc = "head", NEW size \in Nat,
         size <= PerBatch, ~coord.stop,
         args.limit > 0 => coord.reserved + size <= args.limit,
         Begin(w, size), boss' \in [pc : BossAt, available : Nat],
         UNCHANGED <<args, queue, worked, spilled>>
  PROVE  CompactInv'
<1> DEFINE b == [slot[w] EXCEPT !.pc = "draining", !.size = size]
<1>1. /\ slot[w] \in Batch /\ slot[w] = NoBatch
  BY OtherTypes DEF BatchOK
<1>2. /\ b \in Batch /\ b.pc = "draining" /\ b.size = size /\ b.leased = 0
      /\ b.done = 0 /\ b.failed = 0 /\ b.retryable = 0
  <2>1. b = [pc |-> "draining", size |-> size, leased |-> 0, done |-> 0,
             failed |-> 0, retryable |-> 0, error |-> FALSE]
    <3>1. b = [NoBatch EXCEPT !.pc = "draining", !.size = size]
      BY <1>1
    <3> HIDE DEF b
    <3> QED BY <3>1 DEF NoBatch
  <2> HIDE DEF b
  <2> QED BY <2>1 DEF Batch, SlotAt
<1>3. slot' = [slot EXCEPT ![w] = b]
  BY DEF Begin
<1> HIDE DEF b
<1>4. BatchOK(b)
  BY <1>2 DEF BatchOK
<1>5. /\ HoldOf(b) = size /\ OutOf(b) = 0 /\ HoldOf(slot[w]) = 0
      /\ OutOf(slot[w]) = 0
  BY <1>1, <1>2, NoBatchIsBatch DEF HoldOf, OutOf
<1>6. /\ coord' \in Coord /\ coord'.stop = coord.stop
      /\ coord'.failed = coord.failed /\ coord'.retryable = coord.retryable
      /\ args.limit > 0 => coord'.reserved = coord.reserved + size
  BY CompactTypes DEF Begin, Coord
<1>7. args.limit > 0 =>
        /\ coord'.reserved <= args.limit
        /\ HoldOf(b) - HoldOf(slot[w]) <= coord'.reserved - coord.reserved
        /\ worked' - worked + HoldOf(b) - HoldOf(slot[w])
             = spilled' - spilled + coord'.reserved - coord.reserved
                 + OutOf(b) - OutOf(slot[w])
  BY <1>5, <1>6, CompactTypes, OtherTypes
<1> QED BY <1>2, <1>3, <1>4, <1>6, <1>7, CompactTypes, OtherTypes, OneSlotStep

LEMMA ReserveStep ==
  ASSUME CompactInv, NEW w \in Pool, Reserve(w)
  PROVE  CompactInv'
<1> DEFINE size == Reservable(PerBatch)
<1>1. /\ size \in Int /\ size <= PerBatch
      /\ size > 0 => /\ ~coord.stop
                     /\ args.limit > 0 => coord.reserved + size <= args.limit
  BY ReservableIs, CompactAssumption
<1>2. /\ slot[w].pc = "head"
      /\ UNCHANGED <<args, boss, queue, worked, spilled>>
      /\ IF size <= 0 THEN slot' = At(w, "ended") /\ UNCHANGED coord
         ELSE Begin(w, size)
  BY DEF Reserve
<1> HIDE DEF size
<1>3. CASE size > 0
  BY <1>1, <1>2, <1>3, BeginStep, OtherTypes
<1>4. CASE ~(size > 0)
  <2> DEFINE b == [NoBatch EXCEPT !.pc = "ended"]
  <2>1. slot[w] = NoBatch
    BY <1>2, OtherTypes DEF BatchOK
  <2>2. slot' = [slot EXCEPT ![w] = b] /\ UNCHANGED coord
    BY <1>1, <1>2, <1>4, <2>1 DEF At
  <2>3. /\ b \in Batch /\ BatchOK(b) /\ HoldOf(b) = 0 /\ OutOf(b) = 0
        /\ PendingOf(b) = 0 /\ HoldOf(slot[w]) = 0 /\ OutOf(slot[w]) = 0
        /\ PendingOf(slot[w]) = 0
    BY <2>1, NoBatchIsBatch
  <2> HIDE DEF b
  <2>4. args.mode # "single" /\ ~coord.stop =>
          /\ args.maxFailed > 0 => coord.failed < args.maxFailed
          /\ args.maxRetryable > 0 => coord.retryable < args.maxRetryable
    BY DEF CompactInv, Within
  <2>5. /\ coord' \in Coord /\ boss' \in [pc : BossAt, available : Nat]
        /\ queue' \in [queued : 0..MaxQueue, running : 0..MaxQueue]
        /\ queue'.queued + queue'.running <= MaxQueue
        /\ worked' \in Nat /\ spilled' \in Nat /\ args' = args
    BY <1>2, <2>2, CompactTypes, OtherTypes
  <2>6. args.limit > 0 =>
          /\ coord'.reserved <= args.limit
          /\ HoldOf(b) - HoldOf(slot[w]) <= coord'.reserved - coord.reserved
          /\ worked' - worked + HoldOf(b) - HoldOf(slot[w])
               = spilled' - spilled + coord'.reserved - coord.reserved
                   + OutOf(b) - OutOf(slot[w])
    BY <1>2, <2>2, <2>3, CompactTypes, OtherTypes
  <2>7. /\ coord'.failed + PendingOf(b) - PendingOf(slot[w]) <= coord.failed
        /\ coord'.retryable + PendingOf(b) - PendingOf(slot[w]) <= coord.retryable
    BY <2>2, <2>3, OtherTypes
  <2> QED BY <2>2, <2>3, <2>4, <2>5, <2>6, <2>7, OneSlotStep
<1> QED BY <1>1, <1>3, <1>4

LEMMA NotStopped ==
  CompactInv /\ args.mode # "single" /\ ~coord.stop =>
    /\ args.maxFailed > 0 => coord.failed < args.maxFailed
    /\ args.maxRetryable > 0 => coord.retryable < args.maxRetryable
  BY DEF CompactInv, Within

LEMMA BatchGoesOn ==
  ASSUME CompactInv, NEW w \in Pool, NEW b \in Batch, BatchOK(b),
         slot' = [slot EXCEPT ![w] = b], UNCHANGED <<args, coord, boss>>,
         queue' \in [queued : 0..MaxQueue, running : 0..MaxQueue],
         queue'.queued + queue'.running <= MaxQueue,
         worked' \in Nat, spilled' \in Nat,
         HoldOf(b) = HoldOf(slot[w]),
         worked' - worked = spilled' - spilled + OutOf(b) - OutOf(slot[w]),
         PendingOf(b) <= PendingOf(slot[w])
  PROVE  CompactInv'
<1>1. /\ coord' \in Coord /\ boss' \in [pc : BossAt, available : Nat] /\ args' = args
  BY CompactTypes, OtherTypes
<1>2. /\ HoldOf(b) \in Nat /\ OutOf(b) \in Nat /\ PendingOf(b) \in Nat
      /\ HoldOf(slot[w]) \in Nat /\ OutOf(slot[w]) \in Nat
      /\ PendingOf(slot[w]) \in Nat
  BY OtherTypes, BatchNumbers
<1>3. args.limit > 0 =>
        /\ coord'.reserved <= args.limit
        /\ HoldOf(b) - HoldOf(slot[w]) <= coord'.reserved - coord.reserved
        /\ worked' - worked + HoldOf(b) - HoldOf(slot[w])
             = spilled' - spilled + coord'.reserved - coord.reserved
                 + OutOf(b) - OutOf(slot[w])
  BY <1>2, CompactTypes, OtherTypes
<1>4. /\ coord'.failed + PendingOf(b) - PendingOf(slot[w]) <= coord.failed
      /\ coord'.retryable + PendingOf(b) - PendingOf(slot[w]) <= coord.retryable
  BY <1>2, OtherTypes
<1>5. args.mode # "single" /\ ~coord'.stop =>
        /\ args.maxFailed > 0 => coord'.failed < args.maxFailed
        /\ args.maxRetryable > 0 => coord'.retryable < args.maxRetryable
  BY NotStopped
<1> QED BY <1>1, <1>3, <1>4, <1>5, OneSlotStep

LEMMA LeaseOneStep ==
  ASSUME CompactInv, NEW w \in Pool, LeaseOne(w)
  PROVE  CompactInv'
<1> DEFINE b == [slot[w] EXCEPT !.leased = slot[w].leased + 1]
<1>1. /\ slot[w].pc = "draining" /\ slot[w].leased = slot[w].done
      /\ slot[w].done < slot[w].size
      /\ queue.queued > 0 /\ worked' = worked + 1 /\ slot' = [slot EXCEPT ![w] = b]
      /\ queue' = [queued |-> queue.queued - 1, running |-> queue.running + 1]
      /\ UNCHANGED <<args, coord, boss, spilled>>
  BY DEF LeaseOne
<1>2. slot[w] \in Batch /\ BatchOK(slot[w])
  BY OtherTypes
<1>3. /\ b \in Batch /\ b.pc = "draining" /\ b.leased = slot[w].leased + 1
      /\ b.size = slot[w].size /\ b.done = slot[w].done
      /\ b.failed = slot[w].failed /\ b.retryable = slot[w].retryable
  BY <1>1, <1>2 DEF Batch
<1> HIDE DEF b
<1>4. BatchOK(b)
  BY <1>1, <1>2, <1>3, OtherTypes DEF BatchOK
<1>5. /\ HoldOf(b) = HoldOf(slot[w]) /\ PendingOf(b) <= PendingOf(slot[w])
      /\ OutOf(b) = OutOf(slot[w]) + 1 /\ PendingOf(b) \in Nat /\ OutOf(slot[w]) \in Nat
  BY <1>1, <1>2, <1>3, OtherTypes DEF HoldOf, OutOf, PendingOf
<1>6. /\ queue' \in [queued : 0..MaxQueue, running : 0..MaxQueue]
      /\ queue'.queued + queue'.running <= MaxQueue
      /\ worked' \in Nat /\ spilled' \in Nat
      /\ worked' - worked = spilled' - spilled + OutOf(b) - OutOf(slot[w])
  BY <1>1, <1>5, CompactTypes, OtherTypes
<1> QED BY <1>1, <1>3, <1>4, <1>5, <1>6, BatchGoesOn

LEMMA SettleOneStep ==
  ASSUME CompactInv, NEW w \in Pool, SettleOne(w)
  PROVE  CompactInv'
<1>1. PICK ending \in {"ok", "failed_retryable", "failed_final", "stale_lease"} :
        /\ slot' = [slot EXCEPT ![w] = Settled(slot[w], ending)]
        /\ ending = "stale_lease" \/ queue.running > 0
        /\ queue' = IF ending = "stale_lease" THEN queue
                    ELSE [queue EXCEPT !.running = queue.running - 1]
  BY DEF SettleOne
<1>2. /\ slot[w].pc = "draining" /\ slot[w].leased > slot[w].done
      /\ UNCHANGED <<args, coord, boss, worked, spilled>>
  BY DEF SettleOne
<1>3. slot[w] \in Batch /\ BatchOK(slot[w])
  BY OtherTypes
<1> DEFINE bad == IF ending \in {"failed_retryable", "failed_final"} THEN 1 ELSE 0
           again == IF ending = "failed_retryable" THEN 1 ELSE 0
           b == [slot[w] EXCEPT !.done = slot[w].done + 1,
                   !.failed = slot[w].failed + bad,
                   !.retryable = slot[w].retryable + again]
<1>4. Settled(slot[w], ending) = b
  BY DEF Settled
<1>5. bad \in {0, 1} /\ again \in {0, 1}
  OBVIOUS
<1> HIDE DEF bad, again
<1>a. /\ slot[w].done + 1 \in Nat /\ slot[w].failed + bad \in Nat
      /\ slot[w].retryable + again \in Nat
  BY <1>5, OtherTypes
<1>6. /\ b \in Batch /\ b.pc = "draining" /\ b.leased = slot[w].leased
      /\ b.size = slot[w].size /\ b.done = slot[w].done + 1
      /\ b.failed = slot[w].failed + bad /\ b.retryable = slot[w].retryable + again
  BY <1>2, <1>3, <1>a DEF Batch
<1> HIDE DEF b
<1>7. BatchOK(b)
  BY <1>2, <1>3, <1>5, <1>6, OtherTypes DEF BatchOK
<1>8. /\ HoldOf(b) = HoldOf(slot[w]) /\ PendingOf(b) <= PendingOf(slot[w])
      /\ OutOf(b) = OutOf(slot[w]) /\ PendingOf(b) \in Nat /\ OutOf(b) \in Nat
  BY <1>2, <1>3, <1>6, OtherTypes DEF HoldOf, OutOf, PendingOf
<1>9. /\ queue' \in [queued : 0..MaxQueue, running : 0..MaxQueue]
      /\ queue'.queued + queue'.running <= MaxQueue
  BY <1>1, CompactTypes, OtherTypes
<1>10. /\ worked' \in Nat /\ spilled' \in Nat
       /\ worked' - worked = spilled' - spilled + OutOf(b) - OutOf(slot[w])
  BY <1>2, <1>8, CompactTypes
<1> QED BY <1>1, <1>2, <1>4, <1>6, <1>7, <1>8, <1>9, <1>10, BatchGoesOn

LEMMA ReturnBatchStep ==
  ASSUME CompactInv, NEW w \in Pool, ReturnBatch(w)
  PROVE  CompactInv'
<1> DEFINE b == [slot[w] EXCEPT !.pc = "returned", !.error = ~args.relay]
<1>1. /\ slot[w].pc = "draining" /\ slot[w].leased = slot[w].done
      /\ slot' = [slot EXCEPT ![w] = b]
      /\ UNCHANGED <<args, coord, boss, queue, worked, spilled>>
  BY DEF ReturnBatch
<1>2. slot[w] \in Batch /\ BatchOK(slot[w])
  BY OtherTypes
<1>3. /\ b \in Batch /\ b.pc = "returned" /\ b.leased = slot[w].leased
      /\ b.size = slot[w].size /\ b.done = slot[w].done
      /\ b.failed = slot[w].failed /\ b.retryable = slot[w].retryable
  <2> DEFINE no == ~args.relay
  <2>1. no \in BOOLEAN /\ b = [slot[w] EXCEPT !.pc = "returned", !.error = no]
    BY Zenon
  <2> HIDE DEF no, b
  <2> QED BY <1>2, <2>1 DEF Batch, SlotAt
<1> HIDE DEF b
<1>4. BatchOK(b)
  BY <1>1, <1>2, <1>3, OtherTypes DEF BatchOK
<1>5. /\ HoldOf(b) = HoldOf(slot[w]) /\ PendingOf(b) <= PendingOf(slot[w])
      /\ OutOf(b) = OutOf(slot[w]) /\ PendingOf(b) \in Nat /\ OutOf(b) \in Nat
  BY <1>1, <1>2, <1>3, OtherTypes DEF HoldOf, OutOf, PendingOf
<1>6. /\ queue' \in [queued : 0..MaxQueue, running : 0..MaxQueue]
      /\ queue'.queued + queue'.running <= MaxQueue
      /\ worked' \in Nat /\ spilled' \in Nat
      /\ worked' - worked = spilled' - spilled + OutOf(b) - OutOf(slot[w])
  BY <1>1, <1>5, CompactTypes, OtherTypes
<1> QED BY <1>1, <1>3, <1>4, <1>5, <1>6, BatchGoesOn

LEMMA RaiseInBatchStep ==
  ASSUME CompactInv, NEW w \in Pool, RaiseInBatch(w)
  PROVE  CompactInv'
<1>1. /\ slot[w].pc = "draining" /\ spilled' = spilled + slot[w].leased
      /\ UNCHANGED <<args, boss, queue, worked>>
  BY DEF RaiseInBatch
<1>2. slot[w] \in Batch /\ BatchOK(slot[w])
  BY OtherTypes
<1>3. /\ queue' \in [queued : 0..MaxQueue, running : 0..MaxQueue]
      /\ queue'.queued + queue'.running <= MaxQueue
      /\ worked' \in Nat /\ spilled' \in Nat
  BY <1>1, CompactTypes, OtherTypes
<1>4. /\ HoldOf(slot[w]) = slot[w].size /\ OutOf(slot[w]) = slot[w].leased
      /\ PendingOf(slot[w]) = slot[w].size
      /\ slot[w].size \in Nat /\ slot[w].leased \in Nat
  BY <1>1, OtherTypes DEF HoldOf, OutOf, PendingOf
<1>5. CASE args.mode = "dynamic"
  <2> DEFINE b == [slot[w] EXCEPT !.pc = "raised"]
  <2>1. slot' = [slot EXCEPT ![w] = b] /\ UNCHANGED coord
    BY <1>5 DEF RaiseInBatch, At
  <2>2. /\ b \in Batch /\ b.pc = "raised" /\ b.leased = slot[w].leased
        /\ b.size = slot[w].size /\ b.done = slot[w].done
        /\ b.failed = slot[w].failed /\ b.retryable = slot[w].retryable
    BY <1>2 DEF Batch, SlotAt
  <2> HIDE DEF b
  <2>3. BatchOK(b)
    BY <1>2, <2>2 DEF BatchOK
  <2>4. HoldOf(b) = slot[w].size /\ OutOf(b) = 0 /\ PendingOf(b) = 0
    BY <2>2 DEF HoldOf, OutOf, PendingOf
  <2>5. worked' - worked = spilled' - spilled + OutOf(b) - OutOf(slot[w])
    BY <1>1, <1>4, <2>4, CompactTypes
  <2>6. HoldOf(b) = HoldOf(slot[w]) /\ PendingOf(b) <= PendingOf(slot[w])
    BY <1>4, <2>4
  <2> QED BY <1>1, <1>3, <1>4, <2>1, <2>2, <2>3, <2>5, <2>6, BatchGoesOn
<1>6. CASE args.mode # "dynamic"
  <2> DEFINE b == [NoBatch EXCEPT !.pc = "ended"]
             size == slot[w].size
  <2>1. slot' = [slot EXCEPT ![w] = b] /\ coord' = GiveBack(coord, size, 0)
    BY <1>6 DEF RaiseInBatch
  <2>2. /\ b \in Batch /\ BatchOK(b) /\ HoldOf(b) = 0 /\ OutOf(b) = 0
        /\ PendingOf(b) = 0
    BY NoBatchIsBatch
  <2>3. args.limit > 0 => coord.reserved - (size - 0) >= 0
    BY <1>4, OneIsReserved, OtherTypes
  <2>4. /\ coord' \in Coord
        /\ args.limit > 0 => coord'.reserved = coord.reserved - size
        /\ coord'.failed = coord.failed /\ coord'.retryable = coord.retryable
        /\ coord'.stop = coord.stop
    <3>1. size \in Int /\ 0 \in Int /\ args.limit \in Nat /\ coord \in Coord
      BY <1>4, CompactTypes
    <3> HIDE DEF size, b
    <3>2. LET d == GiveBack(coord, size, 0) IN
          /\ d \in Coord
          /\ d.reserved = IF args.limit = 0 THEN coord.reserved
                          ELSE coord.reserved - (size - 0)
          /\ d.failed = coord.failed /\ d.retryable = coord.retryable
          /\ d.stop = coord.stop
      BY <2>3, <3>1, GiveBackIs
    <3>3. size - 0 = size
      BY <3>1
    <3> QED BY <2>1, <3>1, <3>2, <3>3
  <2> HIDE DEF b
  <2>5. args.limit > 0 =>
          /\ coord'.reserved <= args.limit
          /\ HoldOf(b) - HoldOf(slot[w]) <= coord'.reserved - coord.reserved
          /\ worked' - worked + HoldOf(b) - HoldOf(slot[w])
               = spilled' - spilled + coord'.reserved - coord.reserved
                   + OutOf(b) - OutOf(slot[w])
    BY <1>1, <1>4, <2>2, <2>4, CompactTypes, OtherTypes
  <2>6. /\ coord'.failed + PendingOf(b) - PendingOf(slot[w]) <= coord.failed
        /\ coord'.retryable + PendingOf(b) - PendingOf(slot[w]) <= coord.retryable
    BY <1>4, <2>2, <2>4, OtherTypes
  <2>7. args.mode # "single" /\ ~coord'.stop =>
          /\ args.maxFailed > 0 => coord'.failed < args.maxFailed
          /\ args.maxRetryable > 0 => coord'.retryable < args.maxRetryable
    BY <2>4, NotStopped
  <2>8. boss' \in [pc : BossAt, available : Nat] /\ args' = args
    BY <1>1, OtherTypes
  <2> QED BY <1>3, <2>1, <2>2, <2>4, <2>5, <2>6, <2>7, <2>8, OneSlotStep
<1> QED BY <1>5, <1>6

(* A batch that has returned gives back what it has not used.              *)
LEMMA CompleteBatchStep ==
  ASSUME CompactInv, NEW w \in Pool, CompleteBatch(w)
  PROVE  CompactInv'
<1> DEFINE b == [slot[w] EXCEPT !.pc = "counted"]
           size == slot[w].size
           done == slot[w].done
<1>1. /\ slot[w].pc = "returned" /\ slot' = [slot EXCEPT ![w] = b]
      /\ coord' = GiveBack(coord, size, done)
      /\ UNCHANGED <<args, boss, queue, worked, spilled>>
  BY DEF CompleteBatch, At
<1>2. /\ slot[w] \in Batch /\ BatchOK(slot[w]) /\ slot[w].leased = done
      /\ size \in Nat /\ done \in Nat
  BY <1>1, OtherTypes DEF BatchOK
<1>3. /\ b \in Batch /\ b.pc = "counted" /\ b.leased = slot[w].leased
      /\ b.size = slot[w].size /\ b.done = slot[w].done
      /\ b.failed = slot[w].failed /\ b.retryable = slot[w].retryable
  BY <1>2 DEF Batch, SlotAt
<1> HIDE DEF b
<1>4. BatchOK(b)
  BY <1>2, <1>3 DEF BatchOK
<1>5. /\ HoldOf(slot[w]) = size /\ OutOf(slot[w]) = done /\ HoldOf(b) = 0
      /\ OutOf(b) = 0 /\ PendingOf(b) = size /\ PendingOf(slot[w]) = size
  BY <1>1, <1>2, <1>3 DEF HoldOf, OutOf, PendingOf
<1>6. args.limit > 0 => coord.reserved - (size - done) >= 0
  BY <1>2, <1>5, OneIsReserved, OtherTypes
<1>7. /\ coord' \in Coord
      /\ args.limit > 0 => coord'.reserved = coord.reserved - (size - done)
      /\ coord'.failed = coord.failed /\ coord'.retryable = coord.retryable
      /\ coord'.stop = coord.stop
  <2>1. size \in Int /\ done \in Int /\ args.limit \in Nat /\ coord \in Coord
    BY <1>2, CompactTypes
  <2> HIDE DEF size, done
  <2>2. LET d == GiveBack(coord, size, done) IN
        /\ d \in Coord
        /\ d.reserved = IF args.limit = 0 THEN coord.reserved
                        ELSE coord.reserved - (size - done)
        /\ d.failed = coord.failed /\ d.retryable = coord.retryable
        /\ d.stop = coord.stop
    BY <1>6, <2>1, GiveBackIs
  <2> QED BY <1>1, <2>1, <2>2
<1>8. args.limit > 0 =>
        /\ coord'.reserved <= args.limit
        /\ HoldOf(b) - HoldOf(slot[w]) <= coord'.reserved - coord.reserved
        /\ worked' - worked + HoldOf(b) - HoldOf(slot[w])
             = spilled' - spilled + coord'.reserved - coord.reserved
                 + OutOf(b) - OutOf(slot[w])
  <2>1. done <= size
    BY <1>2 DEF BatchOK, Batch
  <2> QED BY <1>1, <1>2, <1>5, <1>7, <2>1, CompactTypes, OtherTypes
<1>9. /\ coord'.failed + PendingOf(b) - PendingOf(slot[w]) <= coord.failed
      /\ coord'.retryable + PendingOf(b) - PendingOf(slot[w]) <= coord.retryable
  BY <1>2, <1>5, <1>7, OtherTypes
<1>10. args.mode # "single" /\ ~coord'.stop =>
         /\ args.maxFailed > 0 => coord'.failed < args.maxFailed
         /\ args.maxRetryable > 0 => coord'.retryable < args.maxRetryable
  BY <1>7, NotStopped
<1>11. /\ boss' \in [pc : BossAt, available : Nat] /\ args' = args
       /\ queue' \in [queued : 0..MaxQueue, running : 0..MaxQueue]
       /\ queue'.queued + queue'.running <= MaxQueue
       /\ worked' \in Nat /\ spilled' \in Nat
  BY <1>1, CompactTypes, OtherTypes
<1> QED BY <1>1, <1>3, <1>4, <1>7, <1>8, <1>9, <1>10, <1>11, OneSlotStep

LEMMA RecordStep ==
  ASSUME CompactInv, NEW w \in Pool, Record(w)
  PROVE  CompactInv'
<1> DEFINE b == IF slot[w].done = 0 THEN [NoBatch EXCEPT !.pc = "ended"] ELSE NoBatch
<1>1. /\ slot[w].pc = "counted" /\ slot' = [slot EXCEPT ![w] = b]
      /\ coord' = Recorded(coord, slot[w])
      /\ UNCHANGED <<args, boss, queue, worked, spilled>>
  BY DEF Record
<1>2. /\ b \in Batch /\ BatchOK(b) /\ HoldOf(b) = 0 /\ OutOf(b) = 0
      /\ PendingOf(b) = 0
  BY NoBatchIsBatch
<1> HIDE DEF b
<1>3. /\ slot[w] \in Batch /\ slot[w].failed \in Nat /\ slot[w].retryable \in Nat
      /\ slot[w].size \in Nat
      /\ slot[w].failed <= slot[w].size /\ slot[w].retryable <= slot[w].size
  BY OtherTypes DEF BatchOK, Batch
<1>4. /\ HoldOf(slot[w]) = 0 /\ OutOf(slot[w]) = 0
      /\ PendingOf(slot[w]) = slot[w].size
  BY <1>1 DEF HoldOf, OutOf, PendingOf
<1>5. /\ coord' \in Coord /\ coord'.reserved = coord.reserved
      /\ coord'.failed = coord.failed + slot[w].failed
      /\ coord'.retryable = coord.retryable + slot[w].retryable
      /\ args.mode # "single" /\ ~coord'.stop =>
           /\ args.maxFailed > 0 => coord'.failed < args.maxFailed
           /\ args.maxRetryable > 0 => coord'.retryable < args.maxRetryable
  BY <1>1, <1>3, CompactTypes, RecordedIs
<1>6. args.limit > 0 =>
        /\ coord'.reserved <= args.limit
        /\ HoldOf(b) - HoldOf(slot[w]) <= coord'.reserved - coord.reserved
        /\ worked' - worked + HoldOf(b) - HoldOf(slot[w])
             = spilled' - spilled + coord'.reserved - coord.reserved
                 + OutOf(b) - OutOf(slot[w])
  BY <1>1, <1>2, <1>4, <1>5, CompactTypes, OtherTypes
<1>7. /\ coord'.failed + PendingOf(b) - PendingOf(slot[w]) <= coord.failed
      /\ coord'.retryable + PendingOf(b) - PendingOf(slot[w]) <= coord.retryable
  BY <1>2, <1>3, <1>4, <1>5, OtherTypes
<1>8. /\ boss' \in [pc : BossAt, available : Nat] /\ args' = args
      /\ queue' \in [queued : 0..MaxQueue, running : 0..MaxQueue]
      /\ queue'.queued + queue'.running <= MaxQueue
      /\ worked' \in Nat /\ spilled' \in Nat
  BY <1>1, CompactTypes, OtherTypes
<1> QED BY <1>1, <1>2, <1>5, <1>6, <1>7, <1>8, OneSlotStep

-----------------------------------------------------------------------------
(* The supervisor.                                                         *)

LEMMA ManySlotsStep ==
  ASSUME CompactInv, NEW T \in SUBSET Pool, slot' = Emptied(T), coord' \in Coord,
         boss' \in [pc : BossAt, available : Nat],
         UNCHANGED <<args, queue, worked, spilled>>,
         args.limit > 0 =>
           coord'.reserved = coord.reserved - Held(slot, T) + Out(slot, T),
         coord'.failed <= coord.failed + Pending(slot, T),
         coord'.retryable <= coord.retryable + Pending(slot, T),
         args.mode # "single" /\ ~coord'.stop =>
           /\ args.maxFailed > 0 => coord'.failed < args.maxFailed
           /\ args.maxRetryable > 0 => coord'.retryable < args.maxRetryable
  PROVE  CompactInv'
<1>1. /\ args.limit \in Nat /\ args.maxFailed \in Nat /\ args.maxRetryable \in Nat
      /\ coord \in Coord /\ slot \in [Pool -> Batch]
      /\ worked \in Nat /\ spilled \in Nat
  BY CompactTypes
<1>2. /\ slot' \in [Pool -> Batch]
      /\ \A v \in T : slot'[v] = NoBatch
      /\ \A v \in Pool \ T : slot'[v] = slot[v]
  BY <1>1, NoBatchIsBatch DEF Emptied
<1>3. /\ Held(slot', Pool) = Held(slot, Pool) - Held(slot, T)
      /\ Out(slot', Pool) = Out(slot, Pool) - Out(slot, T)
      /\ Pending(slot', Pool) = Pending(slot, Pool) - Pending(slot, T)
  BY <1>1, <1>2, SlotsEmptied
<1>4. \A v \in Pool : BatchOK(slot'[v])
  BY <1>2, OtherTypes, NoBatchIsBatch
<1>5. CompactTypeOK'
  BY <1>2 DEF CompactInv, CompactTypeOK, Batch, Coord
<1>6. /\ Held(slot, Pool) \in Nat /\ Out(slot, Pool) \in Nat
      /\ Pending(slot, Pool) \in Nat
      /\ Held(slot, T) \in Nat /\ Out(slot, T) \in Nat /\ Pending(slot, T) \in Nat
      /\ Out(slot, T) <= Held(slot, T)
      /\ Room \in Nat
  BY <1>1, OtherTypes, PartBounds, RoomIsNumber
<1>7. /\ coord.reserved \in Nat /\ coord'.reserved \in Nat
      /\ coord.failed \in Nat /\ coord'.failed \in Nat
      /\ coord.retryable \in Nat /\ coord'.retryable \in Nat
  BY <1>1 DEF Coord
<1>8. Capacity'
  <2>1. args.limit > 0 => /\ coord.reserved <= args.limit
                          /\ Held(slot, Pool) <= coord.reserved
                          /\ worked + Held(slot, Pool)
                               = spilled + coord.reserved + Out(slot, Pool)
    BY DEF CompactInv, Capacity
  <2>2. ASSUME args.limit > 0
        PROVE  /\ coord'.reserved <= args.limit
               /\ Held(slot', Pool) <= coord'.reserved
               /\ worked + Held(slot', Pool)
                    = spilled + coord'.reserved + Out(slot', Pool)
    BY <1>1, <1>3, <1>6, <1>7, <2>1, <2>2
  <2> QED BY <2>2 DEF Capacity
<1>9. ASSUME args.mode # "single"
      PROVE  /\ Within(args.maxFailed, coord.failed)'
             /\ Within(args.maxRetryable, coord.retryable)'
  <2>1. /\ Within(args.maxFailed, coord.failed)
        /\ Within(args.maxRetryable, coord.retryable)
    BY <1>9 DEF CompactInv
  <2> QED BY <1>1, <1>3, <1>6, <1>7, <1>9, <2>1 DEF Within
<1> QED BY <1>4, <1>5, <1>8, <1>9 DEF CompactInv

LEMMA CollectedIs ==
  ASSUME CompactInv, NEW S \in SUBSET Pool, \A w \in S : slot[w].pc = "returned"
  PROVE  LET c == Collected(coord, S) IN
         /\ c \in Coord
         /\ args.limit > 0 =>
              c.reserved = coord.reserved - Held(slot, S) + Out(slot, S)
         /\ c.failed <= coord.failed + Pending(slot, S)
         /\ c.retryable <= coord.retryable + Pending(slot, S)
         /\ args.mode # "single" /\ ~c.stop =>
              /\ args.maxFailed > 0 => c.failed < args.maxFailed
              /\ args.maxRetryable > 0 => c.retryable < args.maxRetryable
<1> DEFINE done == [w \in Pool |-> slot[w].done]
           failed == [w \in Pool |-> slot[w].failed]
           retryable == [w \in Pool |-> slot[w].retryable]
           h == [w \in Pool |-> HoldOf(slot[w])]
           o == [w \in Pool |-> OutOf(slot[w])]
           p == [w \in Pool |-> PendingOf(slot[w])]
           b == [failed |-> SumFunctionOnSet(failed, S),
                 retryable |-> SumFunctionOnSet(retryable, S),
                 error |-> \E w \in S : slot[w].error]
           size == SumFunctionOnSet(Sizes, S)
           used == SumFunctionOnSet(done, S)
<1>1. Collected(coord, S) = Recorded(GiveBack(coord, size, used), b)
  BY DEF Collected
<1>2. /\ coord \in Coord /\ slot \in [Pool -> Batch] /\ IsFiniteSet(S)
      /\ args.limit \in Nat /\ args.maxFailed \in Nat /\ args.maxRetryable \in Nat
  BY CompactTypes, SlotSums
<1>3. /\ Sizes \in [Pool -> Int] /\ done \in [Pool -> Int]
      /\ failed \in [Pool -> Int] /\ retryable \in [Pool -> Int]
      /\ h \in [Pool -> Int] /\ o \in [Pool -> Int] /\ p \in [Pool -> Int]
  <2>1. /\ h \in [Pool -> Int] /\ o \in [Pool -> Int] /\ p \in [Pool -> Int]
    BY <1>2, SlotSums
  <2> HIDE DEF h, o, p
  <2> QED BY <2>1, OtherTypes DEF Sizes
<1>4. \A w \in S : /\ Sizes[w] = h[w] /\ done[w] = o[w]
                   /\ 0 <= failed[w] /\ failed[w] <= p[w]
                   /\ 0 <= retryable[w] /\ retryable[w] <= p[w]
  <2>1. TAKE w \in S
  <2>2. slot[w].pc = "returned" /\ slot[w] \in Batch /\ BatchOK(slot[w])
    BY OtherTypes
  <2>3. HoldOf(slot[w]) = slot[w].size /\ OutOf(slot[w]) = slot[w].leased
        /\ PendingOf(slot[w]) = slot[w].size
    BY <2>2 DEF HoldOf, OutOf, PendingOf
  <2> QED BY <2>2, <2>3, OtherTypes DEF Sizes, BatchOK
<1>5. /\ Held(slot, S) = SumFunctionOnSet(h, S) /\ Out(slot, S) = SumFunctionOnSet(o, S)
      /\ Pending(slot, S) = SumFunctionOnSet(p, S)
  BY DEF Held, Out, Pending
<1>6. b.failed = SumFunctionOnSet(failed, S) /\ b.retryable = SumFunctionOnSet(retryable, S)
  OBVIOUS
<1> HIDE DEF done, failed, retryable, h, o, p, b
<1>7. size = Held(slot, S) /\ used = Out(slot, S)
  BY <1>2, <1>3, <1>4, <1>5, SumOfSame
<1>8. /\ b.failed \in Nat /\ b.failed <= Pending(slot, S)
      /\ b.retryable \in Nat /\ b.retryable <= Pending(slot, S)
  BY <1>2, <1>3, <1>4, <1>5, <1>6, SumIsNatural, SumGrows
<1>9. /\ Held(slot, S) \in Nat /\ Out(slot, S) \in Nat
      /\ Pending(slot, S) \in Nat
  BY <1>2, OtherTypes, PartBounds
<1> HIDE DEF size, used
<1> DEFINE g == GiveBack(coord, size, used)
<1>10. /\ g \in Coord
       /\ args.limit > 0 => g.reserved = coord.reserved - Held(slot, S) + Out(slot, S)
       /\ g.failed = coord.failed /\ g.retryable = coord.retryable
  <2>1. args.limit > 0 => coord.reserved - (size - used) >= 0
    BY <1>7, <1>9, BatchIsReserved, OtherTypes
  <2>2. size \in Int /\ used \in Int
    BY <1>7, <1>9
  <2>3. LET d == GiveBack(coord, size, used) IN
        /\ d \in Coord
        /\ d.reserved = IF args.limit = 0 THEN coord.reserved
                        ELSE coord.reserved - (size - used)
        /\ d.failed = coord.failed /\ d.retryable = coord.retryable
        /\ d.stop = coord.stop
    BY <1>2, <2>1, <2>2, GiveBackIs
  <2> QED BY <1>2, <1>7, <1>9, <2>3, OtherTypes
<1> HIDE DEF g
<1>11. LET d == Recorded(g, b) IN
       /\ d \in Coord
       /\ d.reserved = g.reserved
       /\ d.failed = g.failed + b.failed
       /\ d.retryable = g.retryable + b.retryable
       /\ args.mode # "single" /\ ~d.stop =>
            /\ args.maxFailed > 0 => d.failed < args.maxFailed
            /\ args.maxRetryable > 0 => d.retryable < args.maxRetryable
  BY <1>2, <1>8, <1>10, RecordedIs
<1>12. coord.failed \in Nat /\ coord.retryable \in Nat
  BY OtherTypes
<1> DEFINE c == Collected(coord, S)
<1>13. /\ c \in Coord
       /\ args.limit > 0 =>
            c.reserved = coord.reserved - Held(slot, S) + Out(slot, S)
       /\ c.failed = coord.failed + b.failed
       /\ c.retryable = coord.retryable + b.retryable
       /\ args.mode # "single" /\ ~c.stop =>
            /\ args.maxFailed > 0 => c.failed < args.maxFailed
            /\ args.maxRetryable > 0 => c.retryable < args.maxRetryable
  BY <1>1, <1>10, <1>11 DEF g
<1> HIDE DEF c
<1>14. c.failed <= coord.failed + Pending(slot, S)
       /\ c.retryable <= coord.retryable + Pending(slot, S)
  BY <1>8, <1>9, <1>12, <1>13
<1> QED BY <1>13, <1>14 DEF c

LEMMA BossGoesOn ==
  ASSUME CompactInv, NEW pc \in BossAt, BossGoes(pc)
  PROVE  boss' \in [pc : BossAt, available : Nat]
  BY OtherTypes DEF BossGoes

(* Finished batches are collected until one of them raises.                *)
LEMMA CollectAndGoStep ==
  ASSUME CompactInv, NEW S \in SUBSET Pool, NEW pc \in BossAt, CollectAndGo(S, pc),
         UNCHANGED <<args, queue, worked, spilled>>
  PROVE  CompactInv'
<1>1. CASE /\ \A w \in S : slot[w].pc = "returned"
           /\ coord' = Collected(coord, S) /\ slot' = Emptied(S)
           /\ BossGoes(pc)
  <2>1. boss' \in [pc : BossAt, available : Nat]
    BY <1>1, BossGoesOn
  <2>2. LET c == Collected(coord, S) IN
        /\ c \in Coord
        /\ args.limit > 0 =>
             c.reserved = coord.reserved - Held(slot, S) + Out(slot, S)
        /\ c.failed <= coord.failed + Pending(slot, S)
        /\ c.retryable <= coord.retryable + Pending(slot, S)
        /\ args.mode # "single" /\ ~c.stop =>
             /\ args.maxFailed > 0 => c.failed < args.maxFailed
             /\ args.maxRetryable > 0 => c.retryable < args.maxRetryable
    BY <1>1, CollectedIs
  <2> QED BY <1>1, <2>1, <2>2, ManySlotsStep
<1>2. ASSUME NEW r \in S, NEW before \in SUBSET S, slot[r].pc = "raised",
             \A w \in before : slot[w].pc = "returned",
             coord' = GiveBack(Collected(coord, before), slot[r].size, 0),
             slot' = Emptied(before \union {r}), BossGoes("crashed")
      PROVE  CompactInv'
  <2> DEFINE c == Collected(coord, before)
             size == slot[r].size
             T == before \union {r}
  <2>1. boss' \in [pc : BossAt, available : Nat]
    BY <1>2, BossGoesOn DEF BossAt
  <2>2. /\ c \in Coord
        /\ args.limit > 0 =>
             c.reserved = coord.reserved - Held(slot, before) + Out(slot, before)
        /\ c.failed <= coord.failed + Pending(slot, before)
        /\ c.retryable <= coord.retryable + Pending(slot, before)
        /\ args.mode # "single" /\ ~c.stop =>
             /\ args.maxFailed > 0 => c.failed < args.maxFailed
             /\ args.maxRetryable > 0 => c.retryable < args.maxRetryable
    BY <1>2, CollectedIs
  <2> HIDE DEF c
  <2>3. /\ slot \in [Pool -> Batch] /\ r \in Pool \ before /\ T \in SUBSET Pool
        /\ IsFiniteSet(before) /\ before \in SUBSET Pool /\ size \in Nat
        /\ args.limit \in Nat
    BY <1>2, CompactTypes, OtherTypes, SlotSums
  <2>4. HoldOf(slot[r]) = size /\ OutOf(slot[r]) = 0 /\ PendingOf(slot[r]) = 0
    BY <1>2 DEF HoldOf, OutOf, PendingOf
  <2>5. /\ Held(slot, T) = Held(slot, before) + size
        /\ Out(slot, T) = Out(slot, before) + 0
        /\ Pending(slot, T) = Pending(slot, before) + 0
    <3> DEFINE h == [w \in Pool |-> HoldOf(slot[w])]
               o == [w \in Pool |-> OutOf(slot[w])]
               p == [w \in Pool |-> PendingOf(slot[w])]
    <3>1. h \in [Pool -> Int] /\ o \in [Pool -> Int] /\ p \in [Pool -> Int]
      BY <2>3, SlotSums
    <3>2. h[r] = size /\ o[r] = 0 /\ p[r] = 0
      BY <2>3, <2>4
    <3>3. /\ Held(slot, T) = SumFunctionOnSet(h, before \union {r})
          /\ Held(slot, before) = SumFunctionOnSet(h, before)
          /\ Out(slot, T) = SumFunctionOnSet(o, before \union {r})
          /\ Out(slot, before) = SumFunctionOnSet(o, before)
          /\ Pending(slot, T) = SumFunctionOnSet(p, before \union {r})
          /\ Pending(slot, before) = SumFunctionOnSet(p, before)
      BY DEF Held, Out, Pending
    <3> HIDE DEF h, o, p, T, size
    <3>4. SumFunctionOnSet(h, before \union {r}) = SumFunctionOnSet(h, before) + h[r]
      BY <2>3, <3>1, SumWithOne
    <3>5. SumFunctionOnSet(o, before \union {r}) = SumFunctionOnSet(o, before) + o[r]
      BY <2>3, <3>1, SumWithOne
    <3>6. SumFunctionOnSet(p, before \union {r}) = SumFunctionOnSet(p, before) + p[r]
      BY <2>3, <3>1, SumWithOne
    <3> QED BY <3>2, <3>3, <3>4, <3>5, <3>6
  <2> HIDE DEF T, size
  <2>6. /\ Held(slot, before) \in Nat /\ Out(slot, before) \in Nat
        /\ Pending(slot, before) \in Nat
        /\ Held(slot, T) \in Nat /\ coord.reserved \in Nat
    BY <2>3, OtherTypes, PartBounds
  <2>7. args.limit > 0 => c.reserved - (size - 0) >= 0
    <3>1. args.limit > 0 => Held(slot, T) <= coord.reserved
      BY <2>3, BatchIsReserved
    <3> QED BY <2>2, <2>3, <2>5, <2>6, <3>1
  <2>8. LET d == GiveBack(c, size, 0) IN
        /\ d \in Coord
        /\ d.reserved = IF args.limit = 0 THEN c.reserved
                        ELSE c.reserved - (size - 0)
        /\ d.failed = c.failed /\ d.retryable = c.retryable /\ d.stop = c.stop
    BY <2>2, <2>3, <2>7, GiveBackIs
  <2>9. coord' = GiveBack(c, size, 0) /\ slot' = Emptied(T)
    BY <1>2 DEF c, size, T
  <2>10. /\ coord' \in Coord /\ coord'.failed = c.failed
         /\ coord'.retryable = c.retryable /\ coord'.stop = c.stop
         /\ args.limit > 0 =>
              coord'.reserved = coord.reserved - Held(slot, T) + Out(slot, T)
    BY <2>2, <2>3, <2>5, <2>6, <2>8, <2>9
  <2>11. /\ coord'.failed <= coord.failed + Pending(slot, T)
         /\ coord'.retryable <= coord.retryable + Pending(slot, T)
    BY <2>2, <2>5, <2>6, <2>10
  <2> QED BY <2>1, <2>2, <2>3, <2>9, <2>10, <2>11, ManySlotsStep
<1> QED BY <1>1, <1>2 DEF CollectAndGo

(* The supervisor moves, or the queue changes, and the rest stays.         *)
LEMMA OthersStep ==
  ASSUME CompactInv, UNCHANGED <<args, coord, slot, worked, spilled>>,
         boss' \in [pc : BossAt, available : Nat],
         queue' \in [queued : 0..MaxQueue, running : 0..MaxQueue],
         queue'.queued + queue'.running <= MaxQueue
  PROVE  CompactInv'
  BY DEF CompactInv, CompactTypeOK, Capacity, Within, BatchOK

LEMMA BossMoves ==
  ASSUME CompactInv, NEW pc \in BossAt, BossGoes(pc),
         UNCHANGED <<args, coord, slot, queue, worked, spilled>>
  PROVE  CompactInv'
  BY BossGoesOn, OtherTypes, OthersStep

LEMMA SupervisorLooksStep ==
  ASSUME CompactInv, Sweep \/ Wait \/ Close
  PROVE  CompactInv'
<1>1. /\ Finished \in SUBSET Pool
      /\ "closing" \in BossAt /\ "swept" \in BossAt /\ "head" \in BossAt
      /\ "ended" \in BossAt
  BY DEF Finished, BossAt
<1>2. CASE Sweep
  BY <1>1, <1>2, BossMoves, CollectAndGoStep DEF Sweep
<1>3. CASE Wait
  BY <1>1, <1>3, BossMoves, CollectAndGoStep DEF Wait
<1>4. CASE Close
  BY <1>1, <1>4, BossMoves, CollectAndGoStep DEF Close
<1> QED BY <1>2, <1>3, <1>4

LEMMA ReadQueueStep ==
  ASSUME CompactInv, ReadQueue
  PROVE  CompactInv'
<1> DEFINE claimed == SumFunctionOnSet(Sizes, Inflight)
           idle == Inflight = {} /\ (LimitReached \/ queue.queued = 0)
           next == IF ~LimitReached /\ queue.running > 0 THEN "head" ELSE "ended"
           left == IF queue.queued > claimed THEN queue.queued - claimed ELSE 0
<1>1. /\ boss' = IF idle THEN [pc |-> next, available |-> 0]
                 ELSE [pc |-> "submit", available |-> left]
      /\ UNCHANGED <<args, coord, slot, queue, worked, spilled>>
  BY DEF ReadQueue
<1>2. claimed \in Int
  <2>1. Inflight \in SUBSET Pool /\ IsFiniteSet(Inflight)
    BY CompactTypes, SlotSums DEF Inflight
  <2>2. Sizes \in [Pool -> Int]
    BY OtherTypes DEF Sizes
  <2> QED BY <2>1, <2>2, SumIsInteger
<1>3. next \in BossAt
  BY DEF BossAt
<1> HIDE DEF claimed
<1>4. left \in Nat
  BY <1>2, CompactTypes
<1> HIDE DEF idle, next, left
<1>5. boss' \in [pc : BossAt, available : Nat]
  BY <1>1, <1>3, <1>4 DEF BossAt
<1> QED BY <1>1, <1>5, OthersStep, OtherTypes

LEMMA SubmitStep ==
  ASSUME CompactInv, Submit
  PROVE  CompactInv'
<1> DEFINE size == Reservable(boss.available)
           more == boss.available > 0 /\ Inflight # Pool /\ size > 0
           next == IF Inflight # {} THEN "wait"
                   ELSE IF LimitReached THEN "closing" ELSE "head"
<1>1. boss.available \in Nat /\ boss.pc \in BossAt
  BY CompactTypes
<1>2. /\ size \in Int /\ size <= PerBatch /\ size <= boss.available
      /\ size > 0 => /\ ~coord.stop
                     /\ args.limit > 0 => coord.reserved + size <= args.limit
  BY <1>1, ReservableIs
<1> HIDE DEF size
<1>3. /\ IF more
           THEN \E w \in Pool \ Inflight :
                  /\ Begin(w, size)
                  /\ boss' = [boss EXCEPT !.available = boss.available - size]
           ELSE /\ boss' = [pc |-> next, available |-> 0]
                /\ UNCHANGED <<coord, slot>>
      /\ UNCHANGED <<args, queue, worked, spilled>>
  BY DEF Submit, size
<1>4. CASE more
  <2>1. PICK w \in Pool \ Inflight :
               /\ Begin(w, size)
               /\ boss' = [boss EXCEPT !.available = boss.available - size]
    BY <1>3, <1>4
  <2>2. size \in Nat /\ size > 0 /\ boss.available - size \in Nat
    BY <1>1, <1>2, <1>4
  <2>3. boss' \in [pc : BossAt, available : Nat]
    BY <2>1, <2>2, OtherTypes
  <2>4. slot[w].pc = "head"
    BY <2>1 DEF Inflight
  <2> QED BY <1>2, <1>3, <2>1, <2>2, <2>3, <2>4, BeginStep
<1>5. CASE ~more
  <2>1. next \in BossAt
    BY DEF BossAt
  <2> HIDE DEF more, next
  <2>2. boss' \in [pc : BossAt, available : Nat]
    BY <1>3, <1>5, <2>1
  <2> QED BY <1>3, <1>5, <2>2, OthersStep, OtherTypes
<1> QED BY <1>4, <1>5

LEMMA QueueChangesStep ==
  ASSUME CompactInv, QueueChanges
  PROVE  CompactInv'
<1>1. /\ queue' \in [queued : 0..MaxQueue, running : 0..MaxQueue]
      /\ queue'.queued + queue'.running <= MaxQueue
      /\ UNCHANGED <<args, coord, slot, boss, worked, spilled>>
  <2>1. queue.queued \in Nat /\ queue.running \in Nat /\ MaxQueue \in Nat
    BY OtherTypes, CompactTypes
  <2>2. PICK q \in Int, r \in Int :
          /\ q >= 0 /\ r >= 0 /\ q + r <= MaxQueue
          /\ queue' = [queued |-> q, running |-> r]
    <3>1. PICK change \in {"arrives", "taken", "lapses", "settled"} :
            LET q == queue.queued + (CASE change = "arrives" -> 1
                                       [] change = "lapses" -> 1
                                       [] change = "taken" -> -1
                                       [] OTHER -> 0)
                r == queue.running + (CASE change = "taken" -> 1
                                        [] change = "arrives" -> 0
                                        [] OTHER -> -1)
            IN /\ q >= 0 /\ r >= 0 /\ q + r <= MaxQueue
               /\ queue' = [queued |-> q, running |-> r]
      BY DEF QueueChanges
    <3>2. CASE change = "arrives"
      <4> DEFINE q == queue.queued + 1
                 r == queue.running 
      <4>1. /\ q >= 0 /\ r >= 0 /\ q + r <= MaxQueue
            /\ queue' = [queued |-> q, running |-> r]
        BY <2>1, <3>1, <3>2
      <4>2. q \in Int /\ r \in Int
        BY <2>1
      <4> QED BY <4>1, <4>2
    <3>3. CASE change = "taken"
      <4> DEFINE q == queue.queued - 1
                 r == queue.running + 1
      <4>1. /\ q >= 0 /\ r >= 0 /\ q + r <= MaxQueue
            /\ queue' = [queued |-> q, running |-> r]
        BY <2>1, <3>1, <3>3
      <4>2. q \in Int /\ r \in Int
        BY <2>1
      <4> QED BY <4>1, <4>2
    <3>4. CASE change = "lapses"
      <4> DEFINE q == queue.queued + 1
                 r == queue.running - 1
      <4>1. /\ q >= 0 /\ r >= 0 /\ q + r <= MaxQueue
            /\ queue' = [queued |-> q, running |-> r]
        BY <2>1, <3>1, <3>4
      <4>2. q \in Int /\ r \in Int
        BY <2>1
      <4> QED BY <4>1, <4>2
    <3>5. CASE change = "settled"
      <4> DEFINE q == queue.queued 
                 r == queue.running - 1
      <4>1. /\ q >= 0 /\ r >= 0 /\ q + r <= MaxQueue
            /\ queue' = [queued |-> q, running |-> r]
        BY <2>1, <3>1, <3>5
      <4>2. q \in Int /\ r \in Int
        BY <2>1
      <4> QED BY <4>1, <4>2
    <3> QED BY <3>1, <3>2, <3>3, <3>4, <3>5
  <2>3. q \in 0..MaxQueue /\ r \in 0..MaxQueue
    BY <2>1, <2>2
  <2> QED BY <2>1, <2>2, <2>3 DEF QueueChanges
<1> QED BY <1>1, OthersStep, OtherTypes

-----------------------------------------------------------------------------

LEMMA CompactInitInv == CompactInit => CompactInv
<1> SUFFICES ASSUME CompactInit PROVE CompactInv
  OBVIOUS
<1> DEFINE e == [NoBatch EXCEPT !.pc = "ended"]
<1>1. PICK first \in Pool :
        slot = [w \in Pool |-> IF args.mode = "single" /\ w # first
                                 THEN e ELSE NoBatch]
  BY DEF CompactInit
<1>2. /\ \A w \in Pool : slot[w] \in {e, NoBatch}
      /\ slot = [w \in Pool |-> slot[w]]
  BY <1>1
<1>3. \A b \in {e, NoBatch} : /\ b \in Batch /\ BatchOK(b) /\ HoldOf(b) = 0
                              /\ OutOf(b) = 0 /\ PendingOf(b) = 0
  BY NoBatchIsBatch
<1> HIDE DEF e
<1>4. /\ slot \in [Pool -> Batch] /\ \A w \in Pool : BatchOK(slot[w])
  BY <1>2, <1>3
<1>5. Held(slot, Pool) = 0 /\ Out(slot, Pool) = 0 /\ Pending(slot, Pool) = 0
  <2> DEFINE z == [w \in Pool |-> 0]
  <2>1. IsFiniteSet(Pool) /\ Cardinality(Pool) \in Nat
    BY CompactAssumption, FS_CardinalityType
  <2>2. SumFunctionOnSet(z, Pool) = 0
    <3>1. SumFunctionOnSet(z, Pool) = Cardinality(Pool) * 0
      BY <2>1, SumOfEqual
    <3>2. Cardinality(Pool) * 0 = 0
      BY <2>1
    <3> QED BY <3>1, <3>2
  <2>3. /\ [w \in Pool |-> HoldOf(slot[w])] = z
        /\ [w \in Pool |-> OutOf(slot[w])] = z
        /\ [w \in Pool |-> PendingOf(slot[w])] = z
    BY <1>2, <1>3
  <2> QED BY <2>2, <2>3 DEF Held, Out, Pending
<1>6. /\ args \in [mode : Modes, limit : Limits, maxFailed : Thresholds,
                   maxRetryable : Thresholds, relay : BOOLEAN]
      /\ args.limit \in Nat /\ args.maxFailed \in Nat /\ args.maxRetryable \in Nat
  <2>1. args \in [mode : Modes, limit : Limits, maxFailed : Thresholds,
                  maxRetryable : Thresholds, relay : BOOLEAN]
    BY DEF CompactInit
  <2>2. args.limit \in Limits /\ args.maxFailed \in Thresholds
        /\ args.maxRetryable \in Thresholds
    BY <2>1
  <2> QED BY <2>1, <2>2, CompactAssumption
<1>7. /\ coord = [reserved |-> 0, failed |-> 0, retryable |-> 0, errors |-> 0,
                  stop |-> FALSE]
      /\ boss = [pc |-> "head", available |-> 0]
      /\ queue \in [queued : 0..MaxQueue, running : {0}]
      /\ worked = 0 /\ spilled = 0 /\ MaxQueue \in Nat
  BY CompactAssumption DEF CompactInit
<1>8. CompactTypeOK
  BY <1>4, <1>6, <1>7 DEF CompactTypeOK, Batch, BossAt
<1>9. queue.queued + queue.running <= MaxQueue
  BY <1>7
<1>10. Capacity
  BY <1>5, <1>6, <1>7 DEF Capacity
<1>11. /\ Within(args.maxFailed, coord.failed)
       /\ Within(args.maxRetryable, coord.retryable)
  BY <1>5, <1>6, <1>7, RoomIsNumber DEF Within
<1> QED BY <1>4, <1>8, <1>9, <1>10, <1>11 DEF CompactInv

LEMMA CompactNextInv == CompactInv /\ [CompactNext]_kvars => CompactInv'
<1> SUFFICES ASSUME CompactInv, [CompactNext]_kvars PROVE CompactInv'
  OBVIOUS
<1>1. ASSUME NEW w \in Pool, \/ Reserve(w) \/ LeaseOne(w) \/ SettleOne(w)
                             \/ ReturnBatch(w) \/ RaiseInBatch(w)
                             \/ CompleteBatch(w) \/ Record(w)
      PROVE  CompactInv'
  BY <1>1, ReserveStep, LeaseOneStep, SettleOneStep, ReturnBatchStep,
     RaiseInBatchStep, CompleteBatchStep, RecordStep
<1>2. CASE Sweep \/ Wait \/ Close
  BY <1>2, SupervisorLooksStep
<1>3. CASE ReadQueue \/ Submit \/ QueueChanges
  BY <1>3, ReadQueueStep, SubmitStep, QueueChangesStep
<1>4. CASE UNCHANGED kvars
  BY <1>4, OthersStep, OtherTypes DEF kvars
<1> QED BY <1>1, <1>2, <1>3, <1>4 DEF CompactNext

(* In every run of the drain script the coordinator's books balance: what  *)
(* is reserved is held by batches under way or was used by others.         *)
THEOREM CompactInvariant == CompactSpec => []CompactInv
<1>1. CompactInit => CompactInv
  BY CompactInitInv
<1>2. CompactInv /\ [CompactNext]_kvars => CompactInv'
  BY CompactNextInv
<1> QED BY <1>1, <1>2, PTL DEF CompactSpec

(* The counts, slots and the supervisor keep their types; no count goes    *)
(* below zero, whatever a batch gives back.                                *)
THEOREM CompactTypeCorrect == CompactSpec => []CompactTypeOK
<1>1. CompactInv => CompactTypeOK
  BY DEF CompactInv
<1> QED BY <1>1, CompactInvariant, PTL

(* --limit bounds the jobs worked on, but for those of batches that raised *)
(* and gave their capacity back, and the counted failures pass a threshold *)
(* by less than one batch per thread, for every size of pool and batch.    *)
THEOREM PoolWithinBoundsAlways == CompactSpec => []PoolWithinBounds
<1>1. CompactInv => PoolWithinBounds
  <2> SUFFICES ASSUME CompactInv PROVE PoolWithinBounds
    OBVIOUS
  <2>1. /\ args.limit \in Nat /\ args.maxFailed \in Nat /\ args.maxRetryable \in Nat
        /\ slot \in [Pool -> Batch] /\ worked \in Nat /\ spilled \in Nat
        /\ coord.reserved \in Nat /\ coord.failed \in Nat /\ coord.retryable \in Nat
    BY CompactTypes, OtherTypes
  <2>2. /\ Held(slot, Pool) \in Nat /\ Out(slot, Pool) \in Nat
        /\ Pending(slot, Pool) \in Nat /\ Out(slot, Pool) <= Held(slot, Pool)
    BY <2>1, OtherTypes, PartBounds
  <2>3. args.limit > 0 =>
          coord.reserved <= args.limit /\ worked <= args.limit + spilled
    BY <2>1, <2>2 DEF CompactInv, Capacity
  <2>4. ASSUME args.mode # "single"
        PROVE  /\ args.maxFailed > 0 => coord.failed < args.maxFailed + Room
               /\ args.maxRetryable > 0 =>
                    coord.retryable < args.maxRetryable + Room
    BY <2>1, <2>2, <2>4, RoomIsNumber DEF CompactInv, Within
  <2> QED BY <2>3, <2>4 DEF PoolWithinBounds, Room
<1> QED BY <1>1, CompactInvariant, PTL

-----------------------------------------------------------------------------
(* SnapshotAssets.  What a sheet refers to is written before the sheet is, *)
(* so the sheets that are open are the files that are counted and not yet  *)
(* there; none of them is the target of a reference.                       *)

Written == {n \in Name : asset[n].written}

BytesOK ==
  /\ bytes = SumFunctionOnSet(AssetSize, Name)
  /\ bytes <= MaxTotal /\ number <= MaxSaved

AssetsOK ==
  /\ \A n \in Name : asset[n].files \subseteq Written
  /\ \A n \in Name : n > number => asset[n] = Unsaved
  /\ \A r \in Resource : known[r] # 0 => known[r] \in Written

OpenFrame(i) ==
  /\ stack[i].files \subseteq Written
  /\ i > 1 => /\ stack[i].name \in 1..number /\ stack[i].name \in Name
              /\ stack[i].name \notin Written

FramesOK ==
  /\ Len(stack) <= MaxDepth + 2
  /\ \A i \in DOMAIN stack : OpenFrame(i)
  /\ \A i, j \in DOMAIN stack : i # j =>
       /\ stack[i].url # stack[j].url
       /\ i > 1 /\ j > 1 => stack[i].name # stack[j].name

SnapshotInv == SnapshotTypeOK /\ BytesOK /\ AssetsOK /\ FramesOK

LEMMA SnapshotIsWhole ==
  ASSUME SnapshotInv
  PROVE  SnapshotWhole
<1>1. 1 \in DOMAIN stack
  BY DEF SnapshotInv, SnapshotTypeOK
<1>2. stack[1].files \subseteq Written
  BY <1>1 DEF SnapshotInv, FramesOK, OpenFrame
<1>3. \A n \in Name : asset[n].files \subseteq Written
  BY DEF SnapshotInv, AssetsOK
<1>4. \A i, j \in DOMAIN stack : stack[i].url = stack[j].url => i = j
  BY DEF SnapshotInv, FramesOK
<1>5. \A n \in Name : asset[n].written =>
        \A m \in asset[n].files : asset[m].written
  BY <1>3 DEF Written
<1>6. \A m \in stack[1].files : asset[m].written
  BY <1>2 DEF Written
<1> QED BY <1>4, <1>5, <1>6 DEF SnapshotWhole, SnapshotInv, BytesOK, FramesOK

(* The innermost frame, and what is left of it when it goes on.            *)
LEMMA FrameGoesOn ==
  ASSUME NEW frame \in Frame, NEW r, NEW files \in SUBSET Name
  PROVE  /\ GoesOn(frame, r, files) \in Frame
         /\ GoesOn(frame, r, files).url = frame.url
         /\ GoesOn(frame, r, files).name = frame.name
         /\ GoesOn(frame, r, files).files = frame.files \cup files
BY DEF GoesOn, Frame

LEMMA TopReplaced ==
  ASSUME NEW s \in Seq(Frame), s # <<>>, NEW frame \in Frame
  PROVE  /\ Replaced(s, frame) \in Seq(Frame)
         /\ Len(Replaced(s, frame)) = Len(s)
         /\ Len(s) \in DOMAIN s /\ DOMAIN Replaced(s, frame) = DOMAIN s
         /\ Replaced(s, frame)[Len(s)] = frame
         /\ \A i \in DOMAIN s : i # Len(s) => Replaced(s, frame)[i] = s[i]
BY DEF Replaced

(* The files there are when the innermost frame takes up some of them.     *)
LEMMA GoesOnKeeps ==
  ASSUME SnapshotInv, NEW r, NEW files \in SUBSET Name,
         stack' = Replaced(stack, GoesOn(stack[Len(stack)], r, files)),
         files \subseteq Written', Written \subseteq Written',
         Written' \cap (1..number) = Written \cap (1..number), number <= number',
         number \in Nat, number' \in Nat
  PROVE  stack' \in Seq(Frame) /\ stack' # <<>> /\ FramesOK'
<1> DEFINE top == stack[Len(stack)]
           next == GoesOn(top, r, files)
<1>1. stack \in Seq(Frame) /\ stack # <<>>
  BY DEF SnapshotInv, SnapshotTypeOK
<1>2. top \in Frame /\ Len(stack) \in DOMAIN stack
  BY <1>1
<1> HIDE DEF top
<1>3. /\ next \in Frame /\ next.url = top.url /\ next.name = top.name
      /\ next.files = top.files \cup files
  BY <1>2, FrameGoesOn
<1> HIDE DEF next
<1>4. stack' = Replaced(stack, next)
  BY DEF next, top
<1>5. /\ stack' \in Seq(Frame) /\ Len(stack') = Len(stack)
      /\ DOMAIN stack' = DOMAIN stack /\ stack'[Len(stack)] = next
      /\ \A i \in DOMAIN stack : i # Len(stack) => stack'[i] = stack[i]
  BY <1>1, <1>3, <1>4, TopReplaced
<1>6. \A i \in DOMAIN stack : stack'[i].url = stack[i].url /\ stack'[i].name = stack[i].name
  BY <1>3, <1>5 DEF top
<1>7. ASSUME NEW i \in DOMAIN stack
      PROVE  OpenFrame(i)'
  <2>1. OpenFrame(i) /\ i \in Int
    BY <1>1 DEF SnapshotInv, FramesOK
  <2>2. stack'[i].files \subseteq stack[i].files \cup files
    BY <1>3, <1>5 DEF top
  <2>3. stack'[i].files \subseteq Written'
    BY <2>1, <2>2 DEF OpenFrame
  <2>4. ASSUME i > 1
        PROVE  stack'[i].name \in 1..number' /\ stack'[i].name \in Name
               /\ stack'[i].name \notin Written'
    <3>1. stack[i].name \in 1..number /\ stack[i].name \in Name
          /\ stack[i].name \notin Written
      BY <2>1, <2>4 DEF OpenFrame
    <3>2. stack[i].name \notin Written'
      BY <3>1
    <3>3. stack[i].name \in 1..number'
      BY <3>1
    <3> QED BY <1>6, <3>1, <3>2, <3>3
  <2>5. Name' = Name
    BY DEF Name
  <2> QED BY <2>3, <2>4, <2>5 DEF OpenFrame
<1>8. \A i, j \in DOMAIN stack' : i # j =>
        /\ stack'[i].url # stack'[j].url
        /\ i > 1 /\ j > 1 => stack'[i].name # stack'[j].name
  BY <1>5, <1>6 DEF SnapshotInv, FramesOK
<1>9. Len(stack') <= MaxDepth + 2
  BY <1>5 DEF SnapshotInv, FramesOK
<1>10. stack' # <<>>
  BY <1>1, <1>5
<1> QED BY <1>5, <1>7, <1>8, <1>9, <1>10 DEF FramesOK

(* One file's size changes and the count of bytes with it.                 *)
LEMMA BytesMove ==
  ASSUME SnapshotInv, NEW n \in Name,
         asset' \in [Name -> [written : BOOLEAN, size : Nat, files : SUBSET Name]],
         \A m \in Name \ {n} : asset'[m].size = asset[m].size,
         bytes' = bytes + asset'[n].size - asset[n].size
  PROVE  bytes' = SumFunctionOnSet(AssetSize', Name) /\ bytes' \in Nat
<1>1. /\ AssetSize \in [Name -> Int] /\ AssetSize' \in [Name -> Int]
      /\ \A m \in Name : AssetSize[m] = asset[m].size /\ AssetSize'[m] = asset'[m].size
  BY DEF AssetSize, SnapshotInv, SnapshotTypeOK, Name
<1>2. IsFiniteSet(Name)
  BY SnapshotAssumption, FS_Interval DEF Name
<1>3. SumFunctionOnSet(AssetSize', Name)
        = SumFunctionOnSet(AssetSize, Name) + AssetSize'[n] - AssetSize[n]
  <2>1. \A m \in Name \ {n} : AssetSize'[m] = AssetSize[m]
    BY <1>1
  <2> HIDE DEF AssetSize
  <2> QED BY <1>1, <1>2, <2>1, SumMoves
<1>4. \A m \in Name : 0 <= AssetSize'[m]
  BY <1>1
<1>5. SumFunctionOnSet(AssetSize', Name) \in Nat
  BY <1>1, <1>2, <1>4, SumIsNatural
<1> QED BY <1>1, <1>3, <1>5 DEF SnapshotInv, BytesOK

LEMMA SnapshotInvInit ==
  SnapshotInit => SnapshotInv
<1> SUFFICES ASSUME SnapshotInit PROVE SnapshotInv
  OBVIOUS
<1>1. PICK todo \in SUBSET Resource :
        stack = <<[url |-> PageItself, final |-> PageItself, name |-> 0, todo |-> todo,
                   files |-> {}]>>
  BY DEF SnapshotInit
<1>2. SnapshotTypeOK
  BY <1>1 DEF SnapshotInit, SnapshotTypeOK, Frame, Unsaved
<1>3. BytesOK
  <2>1. AssetSize = [n \in Name |-> 0]
    BY DEF SnapshotInit, AssetSize, Unsaved
  <2>2. IsFiniteSet(Name) /\ Cardinality(Name) \in Nat
    BY SnapshotAssumption, FS_Interval, FS_CardinalityType DEF Name
  <2>3. SumFunctionOnSet([n \in Name |-> 0], Name) = Cardinality(Name) * 0
    BY <2>2, SumOfEqual
  <2> QED BY <2>1, <2>2, <2>3, SnapshotAssumption DEF SnapshotInit, BytesOK
<1>4. AssetsOK
  BY DEF SnapshotInit, AssetsOK, Unsaved, Written
<1>5. FramesOK
  <2>1. /\ Len(stack) = 1 /\ DOMAIN stack = {1} /\ stack[1].files = {}
    BY <1>1
  <2> QED BY <2>1, SnapshotAssumption DEF FramesOK, OpenFrame
<1> QED BY <1>2, <1>3, <1>4, <1>5 DEF SnapshotInv

LEMMA TopFrame ==
  ASSUME SnapshotInv
  PROVE  /\ stack \in Seq(Frame) /\ Len(stack) \in Nat \ {0}
         /\ Len(stack) \in DOMAIN stack /\ stack[Len(stack)] \in Frame
         /\ stack[Len(stack)].todo \subseteq Resource
<1>1. stack \in Seq(Frame) /\ stack # <<>>
  BY DEF SnapshotInv, SnapshotTypeOK
<1>2. Len(stack) \in Nat \ {0} /\ Len(stack) \in DOMAIN stack
  BY <1>1
<1>3. stack[Len(stack)] \in Frame
  BY <1>1, <1>2
<1>4. stack[Len(stack)].todo \subseteq Resource
  BY <1>3 DEF Frame
<1> QED BY <1>1, <1>2, <1>3, <1>4

(* A reference to a file that is there, or to none.                        *)
LEMMA LookedAtStep ==
  ASSUME SnapshotInv, NEW r \in Resource, Reuse(r) \/ GiveUp(r)
  PROVE  SnapshotInv'
<1>1. PICK files \in SUBSET Written :
        stack' = Replaced(stack, GoesOn(stack[Len(stack)], r, files))
  BY DEF Reuse, GiveUp, SnapshotInv, AssetsOK
<1>2. UNCHANGED <<known, number, bytes, asset, outcome>>
  BY DEF Reuse, GiveUp
<1>3. Written' = Written /\ Written \subseteq Name
  BY <1>2 DEF Written, Name
<1>4. number \in Nat /\ number' \in Nat
  BY <1>2 DEF SnapshotInv, SnapshotTypeOK
<1>5. stack' \in Seq(Frame) /\ stack' # <<>> /\ FramesOK'
  BY <1>1, <1>2, <1>3, <1>4, GoesOnKeeps
<1>6. SnapshotTypeOK'
  BY <1>2, <1>5 DEF SnapshotInv, SnapshotTypeOK
<1>7. BytesOK' /\ AssetsOK'
  BY <1>2, <1>3 DEF SnapshotInv, BytesOK, AssetsOK, AssetSize
<1> QED BY <1>5, <1>6, <1>7 DEF SnapshotInv

(* The next number is that of a file there is nothing of.                  *)
LEMMA NextName ==
  ASSUME SnapshotInv, NEW r \in Resource, MayFetch(r)
  PROVE  /\ number + 1 \in Name /\ number + 1 <= MaxSaved /\ number \in Nat
         /\ asset[number + 1] = Unsaved /\ number + 1 \notin Written
         /\ number + 1 \notin 1..number
         /\ known[r] = 0 /\ r \notin InProgress
         /\ Len(stack) <= MaxDepth + 1
<1>1. number \in Nat /\ number < MaxSaved /\ MaxSaved \in Nat
  BY SnapshotAssumption DEF SnapshotInv, SnapshotTypeOK, MayFetch
<1>2. /\ number + 1 \in Name /\ number + 1 <= MaxSaved /\ number + 1 > number
      /\ number + 1 \notin 1..number
  BY <1>1 DEF Name
<1>3. asset[number + 1] = Unsaved
  BY <1>2 DEF SnapshotInv, AssetsOK
<1>4. number + 1 \notin Written
  BY <1>3 DEF Written, Unsaved
<1>5. Len(stack) <= MaxDepth + 1
  <2>1. Len(stack) \in Nat /\ Len(stack) - 1 <= MaxDepth
    BY TopFrame DEF MayFetch, Depth
  <2> QED BY <2>1, SnapshotAssumption
<1> QED BY <1>1, <1>2, <1>3, <1>4, <1>5 DEF MayFetch

LEMMA SaveImageStep ==
  ASSUME SnapshotInv, NEW r \in Resource, NEW final \in Resource,
         NEW size \in Readable, SaveImage(r, final, size)
  PROVE  SnapshotInv'
<1> DEFINE n == number + 1
<1>1. /\ n \in Name /\ n <= MaxSaved /\ number \in Nat /\ asset[n] = Unsaved
      /\ n \notin Written /\ n \notin 1..number
  BY NextName DEF SaveImage
<1>2. /\ number' = n /\ bytes' = bytes + size /\ outcome' = outcome
      /\ asset' = [asset EXCEPT ![n] = [written |-> TRUE, size |-> size, files |-> {}]]
      /\ known' = [known EXCEPT ![r] = n, ![final] = n]
      /\ stack' = Replaced(stack, GoesOn(stack[Len(stack)], r, {n}))
  BY DEF SaveImage, Knows
<1>3. n \in Nat /\ number <= n
  BY <1>1
<1> HIDE DEF n
<1>4. size \in Nat /\ bytes + size <= MaxTotal
  BY SnapshotAssumption DEF Readable
<1>5. asset \in [Name -> [written : BOOLEAN, size : Nat, files : SUBSET Name]]
  BY DEF SnapshotInv, SnapshotTypeOK
<1>6. /\ asset'[n] = [written |-> TRUE, size |-> size, files |-> {}]
      /\ \A m \in Name : m # n => asset'[m] = asset[m]
      /\ asset' \in [Name -> [written : BOOLEAN, size : Nat, files : SUBSET Name]]
  BY <1>1, <1>2, <1>4, <1>5
<1>7. Written' = Written \cup {n}
  BY <1>1, <1>6 DEF Written, Name
<1>8. stack' \in Seq(Frame) /\ stack' # <<>> /\ FramesOK'
  BY <1>1, <1>2, <1>3, <1>7, GoesOnKeeps
<1>9. SnapshotTypeOK'
  <2>1. known' \in [Resource -> Name \cup {0}]
    BY <1>1, <1>2 DEF SnapshotInv, SnapshotTypeOK
  <2>2. bytes' \in Nat
    BY <1>2, <1>4 DEF SnapshotInv, SnapshotTypeOK
  <2>3. number' \in Nat /\ outcome' \in {"saving", "saved", "failed"}
    BY <1>2, <1>3 DEF SnapshotInv, SnapshotTypeOK
  <2> QED BY <1>6, <1>8, <2>1, <2>2, <2>3 DEF SnapshotTypeOK, Name
<1>10. BytesOK'
  <2>1. asset[n].size = 0 /\ asset'[n].size = size
    BY <1>1, <1>6 DEF Unsaved
  <2>2. bytes' = bytes + asset'[n].size - asset[n].size
    BY <1>2, <1>4, <2>1 DEF SnapshotInv, SnapshotTypeOK
  <2>3. bytes' = SumFunctionOnSet(AssetSize', Name)
    BY <1>1, <1>6, <2>2, BytesMove
  <2> QED BY <1>1, <1>2, <1>4, <2>3 DEF BytesOK, Name
<1>11. AssetsOK'
  <2>1. \A m \in Name : asset'[m].files \subseteq Written'
    BY <1>6, <1>7 DEF SnapshotInv, AssetsOK
  <2>2. \A m \in Name : m > number' => asset'[m] = Unsaved
    BY <1>1, <1>2, <1>6 DEF SnapshotInv, AssetsOK, Name, n
  <2>3. \A q \in Resource : known'[q] # 0 => known'[q] \in Written'
    BY <1>2, <1>7 DEF SnapshotInv, AssetsOK, SnapshotTypeOK
  <2> QED BY <2>1, <2>2, <2>3 DEF AssetsOK, Name
<1> QED BY <1>8, <1>9, <1>10, <1>11 DEF SnapshotInv

LEMMA OpenSheetStep ==
  ASSUME SnapshotInv, NEW r \in Resource, NEW final \in Resource,
         NEW size \in Readable, OpenSheet(r, final, size)
  PROVE  SnapshotInv'
<1> DEFINE n == number + 1
           sheet == [url |-> r, final |-> final, name |-> n,
                     todo |-> RefersTo[final], files |-> {}]
<1>1. /\ n \in Name /\ n <= MaxSaved /\ number \in Nat /\ asset[n] = Unsaved
      /\ n \notin Written /\ n \notin 1..number
      /\ r \notin InProgress /\ Len(stack) <= MaxDepth + 1
  BY NextName DEF OpenSheet
<1>2. /\ number' = n /\ bytes' = bytes + size /\ outcome' = outcome
      /\ asset' = [asset EXCEPT ![n].size = size]
      /\ known' = known
      /\ stack' = Append(stack, sheet)
  BY DEF OpenSheet, KnownLater
<1>3. n \in Nat /\ number <= n /\ n \in 1..n
  BY <1>1
<1>4. sheet \in Frame
  BY <1>1, SnapshotAssumption DEF Frame, OpenSheet
<1>5. sheet.url = r /\ sheet.name = n /\ sheet.files = {}
  OBVIOUS
<1> HIDE DEF n, sheet
<1>6. size \in Nat /\ bytes + size <= MaxTotal
  BY SnapshotAssumption DEF Readable
<1>7. asset \in [Name -> [written : BOOLEAN, size : Nat, files : SUBSET Name]]
  BY DEF SnapshotInv, SnapshotTypeOK
<1>8. /\ asset'[n].written = FALSE /\ asset'[n].size = size /\ asset'[n].files = {}
      /\ \A m \in Name : m # n => asset'[m] = asset[m]
      /\ asset' \in [Name -> [written : BOOLEAN, size : Nat, files : SUBSET Name]]
  <2>1. /\ asset'[n] = [asset[n] EXCEPT !.size = size]
        /\ \A m \in Name : m # n => asset'[m] = asset[m]
    BY <1>1, <1>2, <1>7
  <2>2. /\ asset[n] \in [written : BOOLEAN, size : Nat, files : SUBSET Name]
        /\ asset[n].written = FALSE /\ asset[n].files = {}
    BY <1>1, <1>7 DEF Unsaved
  <2>3. /\ asset'[n].written = FALSE /\ asset'[n].size = size /\ asset'[n].files = {}
    BY <2>1, <2>2
  <2>4. asset' \in [Name -> [written : BOOLEAN, size : Nat, files : SUBSET Name]]
    BY <1>1, <1>2, <1>6, <1>7
  <2> QED BY <2>1, <2>3, <2>4
<1>9. Written' = Written
  BY <1>1, <1>8 DEF Written, Name, Unsaved
<1>10. stack \in Seq(Frame) /\ Len(stack) \in Nat
  BY TopFrame
<1>11. /\ stack' \in Seq(Frame) /\ stack' # <<>> /\ Len(stack') = Len(stack) + 1
       /\ DOMAIN stack' = DOMAIN stack \cup {Len(stack) + 1}
       /\ stack'[Len(stack) + 1] = sheet
       /\ \A i \in DOMAIN stack : stack'[i] = stack[i]
       /\ Len(stack) + 1 \notin DOMAIN stack
  BY <1>2, <1>4, <1>10
<1>12. SnapshotTypeOK'
  <2>1. known' \in [Resource -> Name \cup {0}]
    BY <1>2 DEF SnapshotInv, SnapshotTypeOK
  <2>2. bytes' \in Nat
    BY <1>2, <1>6 DEF SnapshotInv, SnapshotTypeOK
  <2>3. number' \in Nat /\ outcome' \in {"saving", "saved", "failed"}
    BY <1>2, <1>3 DEF SnapshotInv, SnapshotTypeOK
  <2> QED BY <1>8, <1>11, <2>1, <2>2, <2>3 DEF SnapshotTypeOK, Name
<1>13. BytesOK'
  <2>1. asset[n].size = 0 /\ asset'[n].size = size
    BY <1>1, <1>8 DEF Unsaved
  <2>2. bytes' = bytes + asset'[n].size - asset[n].size
    BY <1>2, <1>6, <2>1 DEF SnapshotInv, SnapshotTypeOK
  <2>3. bytes' = SumFunctionOnSet(AssetSize', Name)
    BY <1>1, <1>8, <2>2, BytesMove
  <2> QED BY <1>1, <1>2, <1>6, <2>3 DEF BytesOK, Name
<1>14. AssetsOK'
  <2>1. \A m \in Name : asset'[m].files \subseteq Written'
    BY <1>8, <1>9 DEF SnapshotInv, AssetsOK
  <2>2. \A m \in Name : m > number' => asset'[m] = Unsaved
    BY <1>1, <1>2, <1>8 DEF SnapshotInv, AssetsOK, Name, n
  <2>3. \A q \in Resource : known'[q] # 0 => known'[q] \in Written'
    BY <1>2, <1>9 DEF SnapshotInv, AssetsOK
  <2> QED BY <2>1, <2>2, <2>3 DEF AssetsOK, Name
<1>15. \A i \in DOMAIN stack' : OpenFrame(i)'
  <2>1. ASSUME NEW i \in DOMAIN stack PROVE OpenFrame(i)'
    <3>1. OpenFrame(i) /\ stack'[i] = stack[i]
      BY <1>11 DEF SnapshotInv, FramesOK
    <3>2. 1..number \subseteq 1..number'
      BY <1>1, <1>2, <1>3
    <3> QED BY <1>9, <3>1, <3>2 DEF OpenFrame, Name
  <2>2. PICK k \in Nat : k = Len(stack) + 1
    BY <1>10
  <2>3. OpenFrame(k)'
    <3>1. stack'[k].files = {} /\ stack'[k].name = n
      BY <1>5, <1>11, <2>2
    <3>2. n \in 1..number' /\ n \in Name /\ n \notin Written'
      BY <1>1, <1>2, <1>3, <1>9
    <3>3. n \in Name'
      BY <3>2 DEF Name
    <3> QED BY <3>1, <3>2, <3>3 DEF OpenFrame
  <2> QED BY <1>11, <2>1, <2>2, <2>3
<1>16. ASSUME NEW i \in DOMAIN stack', NEW j \in DOMAIN stack', i # j
       PROVE  /\ stack'[i].url # stack'[j].url
              /\ i > 1 /\ j > 1 => stack'[i].name # stack'[j].name
  <2>1. \A k \in DOMAIN stack : stack[k].url # r /\ (k > 1 => stack[k].name # n)
    BY <1>1 DEF InProgress, SnapshotInv, FramesOK, OpenFrame
  <2>2. CASE i \in DOMAIN stack /\ j \in DOMAIN stack
    BY <1>11, <1>16, <2>2 DEF SnapshotInv, FramesOK
  <2>3. CASE i \in DOMAIN stack /\ j = Len(stack) + 1
    BY <1>5, <1>11, <2>1, <2>3
  <2>4. CASE j \in DOMAIN stack /\ i = Len(stack) + 1
    BY <1>5, <1>11, <2>1, <2>4
  <2> QED BY <1>11, <1>16, <2>2, <2>3, <2>4
<1>17. Len(stack') <= MaxDepth + 2
  BY <1>1, <1>10, <1>11, SnapshotAssumption
<1> QED BY <1>12, <1>13, <1>14, <1>15, <1>16, <1>17 DEF SnapshotInv, FramesOK

LEMMA CloseSheetStep ==
  ASSUME SnapshotInv, NEW size \in 0..(MaxOne + 1), CloseSheet(size)
  PROVE  SnapshotInv'
<1> DEFINE top == stack[Len(stack)]
           n == top.name
           before == stack[Len(stack) - 1]
           next == GoesOn(before, top.url, {n})
           growth == size - asset[n].size
           fits == growth <= 0 \/ bytes + growth <= MaxTotal
<1>1. /\ stack \in Seq(Frame) /\ Len(stack) \in Nat /\ Len(stack) > 1
      /\ Len(stack) \in DOMAIN stack /\ Len(stack) - 1 \in DOMAIN stack
      /\ top \in Frame /\ before \in Frame
  BY TopFrame DEF CloseSheet
<1>2. /\ n \in 1..number /\ n \in Name /\ n \notin Written /\ top.files \subseteq Written
  BY <1>1 DEF SnapshotInv, FramesOK, OpenFrame
<1>3. /\ asset' = [asset EXCEPT ![n] = [written |-> TRUE,
                     size |-> IF fits THEN size ELSE asset[n].size,
                     files |-> IF fits THEN top.files ELSE {}]]
      /\ bytes' = IF fits THEN bytes + growth ELSE bytes
      /\ known' = [known EXCEPT ![top.url] = n, ![top.final] = n]
      /\ stack' = Replaced(Popped, GoesOn(Popped[Len(Popped)], top.url, {n}))
      /\ number' = number /\ outcome' = outcome
  BY DEF CloseSheet, Knows
<1>4. /\ Popped \in Seq(Frame) /\ Len(Popped) = Len(stack) - 1 /\ Popped # <<>>
      /\ DOMAIN Popped = 1..(Len(stack) - 1) /\ DOMAIN Popped \subseteq DOMAIN stack
      /\ \A i \in DOMAIN Popped : Popped[i] = stack[i]
      /\ Popped[Len(Popped)] = before
      /\ Len(stack) \notin DOMAIN Popped
  <2>1. Popped \in Seq(Frame) /\ Len(Popped) = Len(stack) - 1
    BY <1>1 DEF Popped
  <2>2. DOMAIN Popped = 1..(Len(stack) - 1) /\ Len(Popped) \in DOMAIN Popped
    BY <1>1, <2>1
  <2>3. \A i \in 1..(Len(stack) - 1) : Popped[i] = stack[i]
    BY <1>1 DEF Popped
  <2>4. DOMAIN stack = 1..Len(stack)
    BY <1>1
  <2>5. /\ 1..(Len(stack) - 1) \subseteq 1..Len(stack)
        /\ Len(stack) \notin 1..(Len(stack) - 1) /\ Len(Popped) # 0
    BY <1>1, <2>1
  <2> QED BY <2>1, <2>2, <2>3, <2>4, <2>5
<1>5. /\ next \in Frame /\ next.url = before.url /\ next.name = before.name
      /\ next.files = before.files \cup {n}
  BY <1>1, <1>2, FrameGoesOn
<1>6. stack' = Replaced(Popped, next)
  BY <1>3, <1>4
<1>7. /\ asset \in [Name -> [written : BOOLEAN, size : Nat, files : SUBSET Name]]
      /\ number \in Nat /\ bytes \in Nat /\ size \in Nat
      /\ top.files \subseteq Name /\ asset[n].size \in Nat
  BY <1>1, <1>2, SnapshotAssumption DEF SnapshotInv, SnapshotTypeOK, Frame
<1>8. growth \in Int /\ (fits => bytes + growth <= MaxTotal)
  BY <1>7, SnapshotAssumption DEF SnapshotInv, BytesOK
<1>9. /\ asset'[n].written = TRUE
      /\ asset'[n].size = IF fits THEN size ELSE asset[n].size
      /\ asset'[n].files = IF fits THEN top.files ELSE {}
      /\ \A m \in Name : m # n => asset'[m] = asset[m]
      /\ asset' \in [Name -> [written : BOOLEAN, size : Nat, files : SUBSET Name]]
  <2> HIDE DEF fits
  <2> QED BY <1>2, <1>3, <1>7
<1>10. /\ bytes' = bytes + asset'[n].size - asset[n].size
       /\ bytes' <= MaxTotal
  <2>1. CASE fits
    BY <1>3, <1>7, <1>8, <1>9, <2>1
  <2>2. CASE ~fits
    BY <1>3, <1>7, <1>9, <2>2, SnapshotAssumption DEF SnapshotInv, BytesOK
  <2> QED BY <2>1, <2>2
<1>11. asset'[n].files \subseteq Written
  BY <1>2, <1>9
<1> HIDE DEF fits, growth, next, before, n, top
<1>12. Written' = Written \cup {n}
  BY <1>2, <1>9 DEF Written, Name
<1>13. /\ stack' \in Seq(Frame) /\ Len(stack') = Len(Popped) /\ stack' # <<>>
       /\ DOMAIN stack' = DOMAIN Popped /\ stack'[Len(Popped)] = next
       /\ \A i \in DOMAIN Popped : i # Len(Popped) => stack'[i] = Popped[i]
  <2>1. Replaced(Popped, next) # <<>>
    BY <1>4, <1>5, TopReplaced
  <2> QED BY <1>4, <1>5, <1>6, <2>1, TopReplaced
<1>14. \A i \in DOMAIN stack' :
         /\ i \in DOMAIN stack /\ i # Len(stack)
         /\ stack'[i].url = stack[i].url /\ stack'[i].name = stack[i].name
         /\ stack'[i].files \subseteq stack[i].files \cup {n}
  BY <1>4, <1>5, <1>13
<1>15. SnapshotTypeOK'
  <2>1. known' \in [Resource -> Name \cup {0}]
    BY <1>2, <1>3 DEF SnapshotInv, SnapshotTypeOK
  <2>2. bytes' \in Nat
    BY <1>2, <1>9, <1>10, BytesMove
  <2>3. number' \in Nat /\ outcome' \in {"saving", "saved", "failed"}
    BY <1>3 DEF SnapshotInv, SnapshotTypeOK
  <2> QED BY <1>9, <1>13, <2>1, <2>2, <2>3 DEF SnapshotTypeOK, Name
<1>16. BytesOK'
  <2>1. bytes' = SumFunctionOnSet(AssetSize', Name)
    BY <1>2, <1>9, <1>10, BytesMove
  <2> QED BY <1>3, <1>10, <2>1 DEF SnapshotInv, BytesOK, Name
<1>17. AssetsOK'
  <2>1. \A m \in Name : asset'[m].files \subseteq Written'
    BY <1>9, <1>11, <1>12 DEF SnapshotInv, AssetsOK
  <2>2. \A m \in Name : m > number' => asset'[m] = Unsaved
    BY <1>2, <1>3, <1>7, <1>9 DEF SnapshotInv, AssetsOK, Name
  <2>3. \A q \in Resource : known'[q] # 0 => known'[q] \in Written'
    BY <1>3, <1>12 DEF SnapshotInv, AssetsOK, SnapshotTypeOK
  <2> QED BY <2>1, <2>2, <2>3 DEF AssetsOK, Name
<1>18. ASSUME NEW i \in DOMAIN stack' PROVE OpenFrame(i)'
  <2>1. OpenFrame(i) /\ i \in DOMAIN stack /\ i # Len(stack)
    BY <1>14 DEF SnapshotInv, FramesOK
  <2>2. stack'[i].files \subseteq Written'
    BY <1>12, <1>14, <2>1 DEF OpenFrame
  <2>3. ASSUME i > 1
        PROVE  stack'[i].name \in 1..number' /\ stack'[i].name \in Name
               /\ stack'[i].name \notin Written'
    <3>1. stack[i].name # n
      BY <1>1, <2>1, <2>3 DEF SnapshotInv, FramesOK, n, top
    <3> QED BY <1>3, <1>12, <1>14, <2>1, <2>3, <3>1 DEF OpenFrame
  <2> QED BY <2>2, <2>3 DEF OpenFrame, Name
<1>19. \A i, j \in DOMAIN stack' : i # j =>
         /\ stack'[i].url # stack'[j].url
         /\ i > 1 /\ j > 1 => stack'[i].name # stack'[j].name
  BY <1>14 DEF SnapshotInv, FramesOK
<1>20. Len(stack') <= MaxDepth + 2
  BY <1>1, <1>4, <1>13, SnapshotAssumption DEF SnapshotInv, FramesOK
<1> QED BY <1>15, <1>16, <1>17, <1>18, <1>19, <1>20 DEF SnapshotInv, FramesOK

LEMMA OutcomeStep ==
  ASSUME SnapshotInv, WritePage \/ Raise \/ UNCHANGED avars
  PROVE  SnapshotInv'
<1>1. UNCHANGED <<stack, known, number, bytes, asset>>
      /\ outcome' \in {"saving", "saved", "failed"}
  BY DEF WritePage, Raise, avars, SnapshotInv, SnapshotTypeOK
<1>2. SnapshotTypeOK'
  BY <1>1 DEF SnapshotInv, SnapshotTypeOK
<1>3. BytesOK' /\ AssetsOK' /\ FramesOK'
  BY <1>1 DEF SnapshotInv, BytesOK, AssetsOK, FramesOK, OpenFrame, Written, AssetSize
<1> QED BY <1>2, <1>3 DEF SnapshotInv

LEMMA SnapshotInvStep ==
  SnapshotInv /\ [SnapshotNext]_avars => SnapshotInv'
<1> SUFFICES ASSUME SnapshotInv, [SnapshotNext]_avars PROVE SnapshotInv'
  OBVIOUS
<1>1. CASE \E r \in stack[Len(stack)].todo : LooksAt(r)
  <2>1. PICK r \in Resource : LooksAt(r)
    BY <1>1, TopFrame
  <2>2. CASE Reuse(r) \/ GiveUp(r)
    BY <2>2, LookedAtStep
  <2>3. CASE \E final \in Resource, size \in Readable : SaveImage(r, final, size)
    BY <2>3, SaveImageStep
  <2>4. CASE \E final \in Resource, size \in Readable : OpenSheet(r, final, size)
    BY <2>4, OpenSheetStep
  <2> QED BY <2>1, <2>2, <2>3, <2>4 DEF LooksAt
<1>2. CASE \E size \in 0..(MaxOne + 1) : CloseSheet(size)
  BY <1>2, CloseSheetStep
<1>3. CASE WritePage \/ Raise \/ UNCHANGED avars
  BY <1>3, OutcomeStep
<1> QED BY <1>1, <1>2, <1>3 DEF SnapshotNext

(* Whatever refers to what and however many sheets lie within each other:  *)
(* the bytes counted by SnapshotAssetDownloader are those of the files, no *)
(* limit is passed, and a file that is written refers to written files.    *)
THEOREM SnapshotWholeAlways == SnapshotSpec => []SnapshotWhole
<1>1. SnapshotSpec => []SnapshotInv
  BY SnapshotInvInit, SnapshotInvStep, PTL DEF SnapshotSpec
<1>2. SnapshotInv => SnapshotWhole
  BY SnapshotIsWhole
<1> QED BY <1>1, <1>2, PTL

(* The stack of sheets, the files and the counts keep their types.         *)
THEOREM SnapshotTypeCorrect == SnapshotSpec => []SnapshotTypeOK
<1>1. SnapshotInv => SnapshotTypeOK
  BY DEF SnapshotInv
<1> QED BY <1>1, SnapshotInvInit, SnapshotInvStep, PTL DEF SnapshotSpec

-----------------------------------------------------------------------------
(* SourceSearch.  The file of an attempt has the number of the attempt and *)
(* its URL in its name, so it is not one of an earlier result: the count   *)
(* of the attempts only grows while pages, and then while PDFs, are tried, *)
(* and the rescue of a landing takes the count of the pages, which is      *)
(* above that of any rescue of the same HTML before it.                    *)

(* The number of a result's file lies behind what is yet to be tried.      *)
Behind(c, r) == r.file[1] <= c.tries /\ (c.at # NoUrl => r.file[1] < c.tries)
Taken(c, r) ==
  /\ c.pc = "pages" => r.url \in Page /\ Behind(c, r)
  /\ c.pc \in {"papers", "checking"} /\ r.url \in Paper => Behind(c, r)
  /\ c.pc = "landings" =>
       \A l \in c.landings : r.url = HtmlOf[l] => r.file[1] <= c.count

Numbered(c) ==
  /\ \A r \in c.results : r.end \in Kept =>
       r.file \in File /\ r.file[2] = r.url /\ Taken(c, r)
  /\ \A r \in c.results : r.end \notin Kept => r.file = NoUrl
  /\ \A r, q \in c.results : r.end \in Kept /\ q.file = r.file => q = r

AttemptOK(c) ==
  /\ c.at # NoUrl => c.tries > 0 /\ c.pc \in {"pages", "papers", "checking"}
  /\ c.pc = "pages" => c.at \in Page \cup {NoUrl}
  /\ c.pc = "papers" => c.at \in Paper \cup {NoUrl}
  /\ c.pc = "checking" => c.at \in Paper /\ c.held \in PaperKept \cup {"other"}

(* The HTML of arXiv is never skipped for the limit.                       *)
LimitOK(c) ==
  /\ \A r \in c.results : r.end = "skipped" => r.final = NoUrl /\ r.url \notin HtmlPage
  /\ c.pc = "pages" /\ c.left \cap HtmlPage # {} =>
       c.tries + Cardinality(c.left \cap HtmlPage) <= MaxPages

CitedOK(c) ==
  /\ \A p \in c.read : Cites[p] \subseteq c.cited
  /\ c.pc \in {"landings", "found"} /\ PaperLimit(c) > 0 => PapersOf(c) \subseteq Seen(c)

Attempted(c, l) ==
  \E r \in c.results : HtmlOf[l] \in {r.url, r.final} /\ r.end # "skipped"
LandingsOK(c) ==
  /\ c.pc \in {"landings", "found"} /\ ~HasArticle(c) =>
       \A l \in Landing \cap Met(c) : l \in c.landings \/ Attempted(c, l)
  /\ c.pc = "found" => c.landings = {}

Sound(c) == Numbered(c) /\ AttemptOK(c) /\ LimitOK(c) /\ CitedOK(c) /\ LandingsOK(c)

(* What a search that is alone finds in the directory.                     *)
OnDisk(c) ==
  c.alone =>
    /\ \A r \in c.results : r.end \in Kept => r.file \in DOMAIN disk /\ disk[r.file] = r.end
    /\ c.pc = "checking" => PaperFile(c) \in DOMAIN disk /\ disk[PaperFile(c)] = c.held

Alone(s) == search[s].alone => \A t \in Searcher \ {s} : ~Active(t)

SearchInv ==
  /\ SearchTypeOK
  /\ \A s \in Searcher : Active(s) =>
       Sound(search[s]) /\ OnDisk(search[s]) /\ Alone(s)

LEMMA FoundSearchIsWhole ==
  ASSUME SearchInv
  PROVE  FoundIsWhole
<1> SUFFICES ASSUME NEW s \in Searcher, Active(s), search[s].pc = "found"
             PROVE  LET c == search[s] IN
                    /\ FilesHeld(c)
                    /\ ~c.hasPdf /\ MaxPapers > 0 =>
                         c.papers \cup UNION {Cites[p] : p \in c.read} \subseteq Seen(c)
                    /\ ~HasArticle(c) => \A l \in Landing \cap Met(c) :
                         \E r \in c.results : HtmlOf[l] \in {r.url, r.final} /\ r.end # "skipped"
  BY DEF FoundIsWhole
<1> DEFINE c == search[s]
<1>1. Sound(c) /\ OnDisk(c) /\ c.pc = "found"
  BY DEF SearchInv
<1> HIDE DEF c
<1>2. FilesHeld(c)
  BY <1>1 DEF FilesHeld, Sound, Numbered, OnDisk
<1>3. ASSUME ~c.hasPdf, MaxPapers > 0
      PROVE  c.papers \cup UNION {Cites[p] : p \in c.read} \subseteq Seen(c)
  <2>1. PapersOf(c) \subseteq Seen(c)
    BY <1>1, <1>3 DEF Sound, CitedOK, PaperLimit
  <2>2. UNION {Cites[p] : p \in c.read} \subseteq c.cited
    BY <1>1 DEF Sound, CitedOK
  <2> QED BY <2>1, <2>2 DEF PapersOf
<1>4. ASSUME ~HasArticle(c), NEW l \in Landing \cap Met(c)
      PROVE  \E r \in c.results : HtmlOf[l] \in {r.url, r.final} /\ r.end # "skipped"
  BY <1>1, <1>4 DEF Sound, LandingsOK, Attempted
<1> QED BY <1>2, <1>3, <1>4 DEF c

-----------------------------------------------------------------------------
(* One searcher goes on, the others stay as they are.                      *)
LEMMA OneGoesOn ==
  ASSUME SearchInv, NEW s \in Searcher, Active(s), NEW d \in Searching,
         Goes(s, d), begun' = begun, d.alone => search[s].alone,
         Sound(d), OnDisk(d)',
         DOMAIN disk' \subseteq File, disk' \in [DOMAIN disk' -> Body]
  PROVE  SearchInv'
<1>1. search \in [Searcher -> Searching \cup {NoSearch}]
  BY DEF SearchInv, SearchTypeOK
<1>2. search' \in [Searcher -> Searching \cup {NoSearch}]
  BY <1>1 DEF Goes
<1>3. search'[s] = d /\ \A t \in Searcher \ {s} : search'[t] = search[t]
  BY <1>1 DEF Goes
<1>4. SearchTypeOK'
  BY <1>2 DEF SearchInv, SearchTypeOK
<1>5. \A t \in Searcher \ {s} : Active(t)' <=> Active(t)
  BY <1>3 DEF Active
<1>6. Sound(search'[s]) /\ OnDisk(search[s])' /\ Alone(s)'
  <2>1. OnDisk(search[s])'
    BY <1>3 DEF OnDisk, PaperFile
  <2>2. Alone(s)'
    BY <1>3, <1>5 DEF SearchInv, Alone
  <2> QED BY <1>3, <2>1, <2>2
<1>7. ASSUME NEW t \in Searcher \ {s}, Active(t)'
      PROVE  Sound(search'[t]) /\ OnDisk(search[t])' /\ Alone(t)'
  <2>1. Sound(search'[t])
    BY <1>3, <1>5, <1>7 DEF SearchInv
  <2>2. ~search'[t].alone
    BY <1>3, <1>5, <1>7 DEF SearchInv, Alone
  <2> QED BY <2>1, <2>2 DEF OnDisk, Alone
<1>8. \A t \in Searcher : Active(t)' =>
        Sound(search[t])' /\ OnDisk(search[t])' /\ Alone(t)'
  <2>1. \A t \in Searcher : Sound(search'[t]) => Sound(search[t])'
    BY DEF Sound, Numbered, Taken, Behind, AttemptOK, LimitOK, CitedOK, LandingsOK,
       Attempted, HasArticle, Met, Seen, PapersOf, PaperLimit
  <2> QED BY <1>6, <1>7, <2>1
<1> QED BY <1>4, <1>8 DEF SearchInv

LEMMA OneStops ==
  ASSUME SearchInv, NEW s \in Searcher, Goes(s, NoSearch), UNCHANGED <<disk, begun>>
  PROVE  SearchInv'
<1>1. search \in [Searcher -> Searching \cup {NoSearch}]
  BY DEF SearchInv, SearchTypeOK
<1>2. search' \in [Searcher -> Searching \cup {NoSearch}]
  BY <1>1 DEF Goes
<1>3. search'[s] = NoSearch /\ \A t \in Searcher \ {s} : search'[t] = search[t]
  BY <1>1 DEF Goes
<1>4. SearchTypeOK'
  BY <1>2 DEF SearchInv, SearchTypeOK
<1>5. \A t \in Searcher : Active(t)' => t # s /\ Active(t)
  BY <1>3 DEF Active
<1>6. ASSUME NEW t \in Searcher, Active(t)'
      PROVE  Sound(search'[t]) /\ OnDisk(search[t])' /\ Alone(t)'
  <2>1. Sound(search[t]) /\ OnDisk(search[t]) /\ Alone(t) /\ search'[t] = search[t]
    BY <1>3, <1>5, <1>6 DEF SearchInv
  <2> QED BY <1>5, <2>1 DEF OnDisk, PaperFile, Alone
<1>8. \A t \in Searcher : Active(t)' =>
        Sound(search[t])' /\ OnDisk(search[t])' /\ Alone(t)'
  <2>1. \A t \in Searcher : Sound(search'[t]) => Sound(search[t])'
    BY DEF Sound, Numbered, Taken, Behind, AttemptOK, LimitOK, CitedOK, LandingsOK,
       Attempted, HasArticle, Met, Seen, PapersOf, PaperLimit
  <2> QED BY <1>6, <2>1
<1> QED BY <1>4, <1>8 DEF SearchInv

-----------------------------------------------------------------------------
LEMMA WithFields ==
  ASSUME NEW c \in Searching, NEW url \in Page \cup Paper,
         NEW final \in Page \cup {NoUrl}, NEW end \in Kept \cup {"skipped", "failed"},
         NEW file \in File \cup {NoUrl}
  PROVE  LET d == With(c, url, final, end, file)
             r == [url |-> url, final |-> final, end |-> end, file |-> file]
         IN /\ d \in Searching
            /\ d.pc = c.pc /\ d.hasPdf = c.hasPdf /\ d.left = c.left
            /\ d.papers = c.papers /\ d.cited = c.cited /\ d.landings = c.landings
            /\ d.tries = c.tries /\ d.at = NoUrl /\ d.read = c.read /\ d.alone = c.alone
            /\ d.results = c.results \cup {r}
            /\ d.count = IF url \in Page THEN c.count + 1 ELSE c.count
<1> DEFINE r == [url |-> url, final |-> final, end |-> end, file |-> file]
           d == With(c, url, final, end, file)
<1>1. r \in PageResult
  BY DEF PageResult
<1> HIDE DEF r
<1>2. d = [c EXCEPT !.at = NoUrl, !.nested = 0, !.held = "none",
             !.count = IF url \in Page THEN @ + 1 ELSE @,
             !.results = @ \cup {r}]
  BY DEF With, r
<1> DEFINE count == IF url \in Page THEN c.count + 1 ELSE c.count
<1>3. d \in Searching
  <2>1. count \in Nat /\ c.results \cup {r} \in SUBSET PageResult
    BY <1>1 DEF Searching
  <2>2. d = [c EXCEPT !.at = NoUrl, !.nested = 0, !.held = "none",
               !.count = count, !.results = c.results \cup {r}]
    BY <1>2
  <2>3. "none" \in Body \cup {"none"} /\ NoUrl \in Page \cup Paper \cup {NoUrl} /\ 0 \in Nat
    OBVIOUS
  <2> HIDE DEF count, d
  <2> QED BY <2>1, <2>2, <2>3 DEF Searching
<1> HIDE DEF d
<1>4. d.pc = c.pc /\ d.hasPdf = c.hasPdf /\ d.left = c.left /\ d.papers = c.papers
  BY <1>2 DEF Searching
<1>5. d.cited = c.cited /\ d.landings = c.landings /\ d.tries = c.tries
  BY <1>2 DEF Searching
<1>6. d.at = NoUrl /\ d.read = c.read /\ d.alone = c.alone
  BY <1>2 DEF Searching
<1>7. d.results = c.results \cup {r}
  BY <1>2 DEF Searching
<1>8. d.count = IF url \in Page THEN c.count + 1 ELSE c.count
  BY <1>2 DEF Searching
<1> QED BY <1>3, <1>4, <1>5, <1>6, <1>7, <1>8 DEF r, d

(* A result more: a file that is not that of another one, or none.         *)
LEMMA FileAdded ==
  ASSUME NEW c, NEW d, NEW r, Numbered(c), d.results = c.results \cup {r},
         \A q \in c.results : q.end \in Kept /\ Taken(c, q) => Taken(d, q),
         r.end \in Kept, r.file \in File, r.file[2] = r.url, Taken(d, r),
         \A q \in c.results : q.end \in Kept => q.file # r.file
  PROVE  Numbered(d)
<1>1. \A q \in c.results : q.file # r.file
  BY NoFile DEF Numbered
<1>2. \A q \in d.results : q \in c.results \/ q = r
  OBVIOUS
<1>3. \A q \in d.results : q.end \in Kept =>
        q.file \in File /\ q.file[2] = q.url /\ Taken(d, q)
  BY <1>2 DEF Numbered
<1>4. \A q \in d.results : q.end \notin Kept => q.file = NoUrl
  BY <1>2 DEF Numbered
<1>5. \A p, q \in d.results : p.end \in Kept /\ q.file = p.file => q = p
  BY <1>1, <1>2 DEF Numbered
<1> QED BY <1>3, <1>4, <1>5 DEF Numbered

LEMMA NoFileAdded ==
  ASSUME NEW c, NEW d, NEW r, Numbered(c), d.results = c.results \cup {r},
         \A q \in c.results : q.end \in Kept /\ Taken(c, q) => Taken(d, q),
         r.end \notin Kept, r.file = NoUrl
  PROVE  Numbered(d)
<1>2. \A q \in d.results : q \in c.results \/ q = r
  OBVIOUS
<1>3. \A q \in d.results : q.end \in Kept =>
        q.file \in File /\ q.file[2] = q.url /\ Taken(d, q)
  BY <1>2 DEF Numbered
<1>4. \A q \in d.results : q.end \notin Kept => q.file = NoUrl
  BY <1>2 DEF Numbered
<1>5. \A p, q \in d.results : p.end \in Kept /\ q.file = p.file => q = p
  BY <1>2, NoFile DEF Numbered
<1> QED BY <1>3, <1>4, <1>5 DEF Numbered

LEMMA NothingAdded ==
  ASSUME NEW c, NEW d, Numbered(c), d.results = c.results,
         \A q \in c.results : q.end \in Kept /\ Taken(c, q) => Taken(d, q)
  PROVE  Numbered(d)
BY DEF Numbered

LEMMA Writing ==
  ASSUME SearchTypeOK, NEW file \in File, NEW body \in Body, Writes(file, body)
  PROVE  /\ DOMAIN disk' \subseteq File /\ disk' \in [DOMAIN disk' -> Body]
         /\ file \in DOMAIN disk' /\ disk'[file] = body
         /\ \A f \in DOMAIN disk \ {file} : f \in DOMAIN disk' /\ disk'[f] = disk[f]
<1>1. DOMAIN disk \subseteq File /\ disk \in [DOMAIN disk -> Body]
  BY DEF SearchTypeOK
<1>2. /\ DOMAIN disk' = DOMAIN disk \cup {file}
      /\ \A f \in DOMAIN disk \cup {file} :
           disk'[f] = IF f = file THEN body ELSE disk[f]
      /\ disk' = [f \in DOMAIN disk \cup {file} |-> IF f = file THEN body ELSE disk[f]]
  BY DEF Writes
<1>3. \A f \in DOMAIN disk \cup {file} : disk'[f] \in Body
  BY <1>1, <1>2
<1> QED BY <1>1, <1>2, <1>3

LEMMA Unlinking ==
  ASSUME SearchTypeOK, NEW file, Unlinks(file)
  PROVE  /\ DOMAIN disk' \subseteq File /\ disk' \in [DOMAIN disk' -> Body]
         /\ \A f \in DOMAIN disk \ {file} : f \in DOMAIN disk' /\ disk'[f] = disk[f]
<1>1. DOMAIN disk \subseteq File /\ disk \in [DOMAIN disk -> Body]
  BY DEF SearchTypeOK
<1>2. /\ DOMAIN disk' = DOMAIN disk \ {file}
      /\ \A f \in DOMAIN disk \ {file} : disk'[f] = disk[f]
      /\ disk' = [f \in DOMAIN disk \ {file} |-> disk[f]]
  BY DEF Unlinks
<1> QED BY <1>1, <1>2

LEMMA Stays ==
  ASSUME SearchTypeOK, disk' = disk
  PROVE  DOMAIN disk' \subseteq File /\ disk' \in [DOMAIN disk' -> Body]
BY DEF SearchTypeOK

LEMMA ActiveSearch ==
  ASSUME SearchInv, NEW s \in Searcher, Active(s) \/ search[s].pc # "idle"
  PROVE  /\ Active(s) /\ search[s] \in Searching /\ Sound(search[s])
         /\ OnDisk(search[s]) /\ SearchTypeOK
BY DEF SearchInv, SearchTypeOK, Active, NoSearch

-----------------------------------------------------------------------------
LEMMA FirstPage ==
  ASSUME NEW pages \in SUBSET Page, pages # {}
  PROVE  /\ First(pages) \in pages
         /\ pages \cap HtmlPage # {} => First(pages) \in HtmlPage
<1> DEFINE ranks == {Rank[p] : p \in pages}
<1>1. ranks \in SUBSET Nat /\ ranks # {}
  BY SearchAssumption
<1>2. PICK m \in ranks : \A k \in ranks : m <= k
  <2> HIDE DEF ranks
  <2> QED BY <1>1, LeastNumber
<1>3. PICK p \in pages : Rank[p] = m
  BY <1>2
<1>4. \A q \in pages : Rank[p] <= Rank[q]
  BY <1>2, <1>3
<1>5. First(pages) \in pages /\ \A q \in pages : Rank[First(pages)] <= Rank[q]
  BY <1>3, <1>4 DEF First
<1>6. ASSUME NEW h \in pages \cap HtmlPage, First(pages) \notin HtmlPage
      PROVE  FALSE
  <2>1. Rank[h] < Rank[First(pages)]
    BY <1>5, <1>6, HtmlFirst
  <2>2. Rank[First(pages)] <= Rank[h]
    BY <1>5, <1>6
  <2>3. Rank[h] \in Nat /\ Rank[First(pages)] \in Nat
    BY <1>5, <1>6, SearchAssumption
  <2> QED BY <2>1, <2>2, <2>3
<1> QED BY <1>5, <1>6

(* The pages of arXiv left, before and after the next page is taken.       *)
LEMMA HtmlLeft ==
  ASSUME NEW left \in SUBSET Page, NEW page \in left
  PROVE  /\ Cardinality(left \cap HtmlPage) \in Nat
         /\ page \in HtmlPage =>
              /\ Cardinality(left \cap HtmlPage) >= 1
              /\ Cardinality((left \ {page}) \cap HtmlPage)
                   = Cardinality(left \cap HtmlPage) - 1
         /\ page \notin HtmlPage => (left \ {page}) \cap HtmlPage = left \cap HtmlPage
<1> DEFINE H == left \cap HtmlPage
<1>1. IsFiniteSet(H) /\ Cardinality(H) \in Nat
  BY HtmlFirst, FS_Subset, FS_CardinalityType
<1>2. ASSUME page \in HtmlPage
      PROVE  Cardinality(H) >= 1 /\ Cardinality((left \ {page}) \cap HtmlPage) = Cardinality(H) - 1
  <2>1. page \in H /\ (left \ {page}) \cap HtmlPage = H \ {page}
    BY <1>2
  <2> HIDE DEF H
  <2>2. Cardinality(H \ {page}) = Cardinality(H) - 1
    BY <1>1, <2>1, FS_RemoveElement
  <2>3. Cardinality(H \ {page}) \in Nat
    BY <1>1, FS_RemoveElement, FS_CardinalityType
  <2> QED BY <1>1, <2>1, <2>2, <2>3
<1> QED BY <1>1, <1>2

(* What nothing of is touched while there is no attempt at a PDF.          *)
LEMMA DiskStands ==
  ASSUME NEW c, NEW d, OnDisk(c), disk' = disk, d.alone => c.alone,
         \A r \in d.results : r.end \in Kept => r \in c.results,
         d.pc # "checking"
  PROVE  OnDisk(d)'
BY DEF OnDisk

LEMMA TakePageStep ==
  ASSUME SearchInv, NEW s \in Searcher, TakePage(s)
  PROVE  SearchInv'
<1>1. Active(s)
  BY ActiveSearch DEF TakePage
<1>2. PICK c \in Searching : c = search[s] /\ Sound(c) /\ OnDisk(c)
  BY <1>1, ActiveSearch
<1>3. PICK page : page = First(c.left)
  OBVIOUS
<1>4. /\ c.pc = "pages" /\ c.at = NoUrl /\ c.left # {} /\ UNCHANGED <<disk, begun>>
      /\ Goes(s, IF c.tries >= MaxPages
                 THEN [With(c, page, NoUrl, "skipped", NoUrl) EXCEPT !.left = @ \ {page}]
                 ELSE [c EXCEPT !.left = @ \ {page}, !.tries = @ + 1, !.at = page])
  BY <1>2, <1>3 DEF TakePage
<1>5. /\ c.left \in SUBSET Page /\ c.tries \in Nat /\ c.alone \in BOOLEAN
      /\ c.results \subseteq PageResult
  BY DEF Searching
<1>6. /\ page \in c.left /\ page \in Page /\ page # NoUrl /\ page \notin Paper
      /\ c.left \cap HtmlPage # {} => page \in HtmlPage
  BY <1>3, <1>4, <1>5, FirstPage, SearchAssumption
<1>7. DOMAIN disk' \subseteq File /\ disk' \in [DOMAIN disk' -> Body]
  BY <1>4, Stays DEF SearchInv
<1> DEFINE before == Cardinality(c.left \cap HtmlPage)
           after == Cardinality((c.left \ {page}) \cap HtmlPage)
<1>10. /\ before \in Nat
       /\ page \in HtmlPage => before >= 1 /\ after = before - 1
       /\ page \notin HtmlPage => (c.left \ {page}) \cap HtmlPage = {}
  BY <1>5, <1>6, HtmlLeft
<1>11. page \in HtmlPage => c.tries + before <= MaxPages
  BY <1>2, <1>4, <1>6 DEF Sound, LimitOK
<1> HIDE DEF before
<1>8. CASE c.tries >= MaxPages
  <2>1. page \notin HtmlPage
    BY <1>5, <1>8, <1>10, <1>11, SearchAssumption
  <2> DEFINE w == With(c, page, NoUrl, "skipped", NoUrl)
             r == [url |-> page, final |-> NoUrl, end |-> "skipped", file |-> NoUrl]
  <2>2. /\ w \in Searching /\ w.pc = c.pc /\ w.left = c.left /\ w.tries = c.tries
        /\ w.at = NoUrl /\ w.read = c.read /\ w.alone = c.alone /\ w.cited = c.cited
        /\ w.results = c.results \cup {r}
    BY <1>6, WithFields
  <2> HIDE DEF w
  <2>3. PICK d : d = [w EXCEPT !.left = @ \ {page}]
    OBVIOUS
  <2>4. /\ d \in Searching /\ d.pc = "pages" /\ d.left = c.left \ {page}
        /\ d.tries = c.tries /\ d.at = NoUrl /\ d.read = c.read /\ d.alone = c.alone
        /\ d.cited = c.cited /\ d.results = c.results \cup {r}
    BY <1>4, <2>2, <2>3 DEF Searching
  <2>5. r.end \notin Kept /\ r.file = NoUrl
    BY DEF Kept, PageKept, PaperKept
  <2>6. r.url = page /\ r.final = NoUrl
    OBVIOUS
  <2> HIDE DEF r
  <2>7. Numbered(d)
    BY <1>2, <1>4, <2>4, <2>5, NoFileAdded DEF Sound, Taken, Behind
  <2>8. AttemptOK(d)
    BY <2>4 DEF AttemptOK
  <2>9. LimitOK(d)
    BY <1>2, <1>10, <2>1, <2>4, <2>6 DEF Sound, LimitOK
  <2>10. CitedOK(d) /\ LandingsOK(d)
    BY <1>2, <2>4 DEF Sound, CitedOK, LandingsOK
  <2>11. OnDisk(d)'
    BY <1>2, <1>4, <2>4, <2>5, DiskStands
  <2>12. Goes(s, d) /\ (d.alone => search[s].alone)
    BY <1>2, <1>4, <1>8, <2>3, <2>4 DEF w
  <2> QED BY <1>1, <1>4, <1>7, <2>4, <2>7, <2>8, <2>9, <2>10, <2>11, <2>12, OneGoesOn
            DEF Sound
<1>9. CASE ~(c.tries >= MaxPages)
  <2>1. PICK d : d = [c EXCEPT !.left = @ \ {page}, !.tries = @ + 1, !.at = page]
    OBVIOUS
  <2>2. /\ d \in Searching /\ d.pc = "pages" /\ d.left = c.left \ {page}
        /\ d.tries = c.tries + 1 /\ d.at = page /\ d.read = c.read /\ d.alone = c.alone
        /\ d.cited = c.cited /\ d.results = c.results
    <3>1. /\ c.left \ {page} \in SUBSET Page /\ c.tries + 1 \in Nat
          /\ page \in Page \cup Paper \cup {NoUrl}
      BY <1>5, <1>6
    <3>2. d \in Searching
      BY <2>1, <3>1 DEF Searching
    <3>3. /\ d.pc = "pages" /\ d.left = c.left \ {page}
          /\ d.tries = c.tries + 1 /\ d.at = page /\ d.read = c.read
      BY <1>4, <2>1 DEF Searching
    <3>4. d.alone = c.alone /\ d.cited = c.cited /\ d.results = c.results
      BY <2>1 DEF Searching
    <3> QED BY <3>2, <3>3, <3>4
  <2>3. Numbered(d)
    <3>1. \A q \in c.results : q.end \in Kept /\ Taken(c, q) => Taken(d, q)
      <4>1. TAKE q \in c.results
      <4>2. HAVE q.end \in Kept /\ Taken(c, q)
      <4>3. q.file \in File
        BY <1>2, <4>2 DEF Sound, Numbered
      <4>4. q.file[1] \in Nat
        BY <4>3 DEF File
      <4> QED BY <1>4, <1>5, <2>2, <4>2, <4>4 DEF Taken, Behind
    <3> QED BY <1>2, <2>2, <3>1, NothingAdded DEF Sound
  <2>4. AttemptOK(d)
    BY <1>5, <1>6, <2>2 DEF AttemptOK
  <2>5. LimitOK(d)
    <3>1. ASSUME d.left \cap HtmlPage # {}
          PROVE  d.tries + Cardinality(d.left \cap HtmlPage) <= MaxPages
      <4>1. page \in HtmlPage
        BY <1>10, <2>2, <3>1
      <4>2. (c.tries + 1) + (before - 1) <= MaxPages
        BY <1>5, <1>10, <1>11, <4>1
      <4> QED BY <1>10, <2>2, <4>1, <4>2
    <3> QED BY <1>2, <2>2, <3>1 DEF Sound, LimitOK
  <2>6. CitedOK(d) /\ LandingsOK(d)
    BY <1>2, <2>2 DEF Sound, CitedOK, LandingsOK
  <2>7. OnDisk(d)'
    BY <1>2, <1>4, <2>2, DiskStands
  <2>8. Goes(s, d) /\ (d.alone => search[s].alone)
    BY <1>2, <1>4, <1>9, <2>1, <2>2
  <2> QED BY <1>1, <1>4, <1>7, <2>2, <2>3, <2>4, <2>5, <2>6, <2>7, <2>8, OneGoesOn DEF Sound
<1> QED BY <1>8, <1>9

(* An attempt at a page or a PDF that leaves nothing.                      *)
LEMMA FailsStep ==
  ASSUME SearchInv, NEW s \in Searcher, PageFails(s) \/ PaperFails(s)
  PROVE  SearchInv'
<1>1. Active(s)
  BY ActiveSearch DEF PageFails, PaperFails
<1>2. PICK c \in Searching : c = search[s] /\ Sound(c) /\ OnDisk(c)
  BY <1>1, ActiveSearch
<1>3. /\ c.pc \in {"pages", "papers"} /\ c.at # NoUrl /\ UNCHANGED <<disk, begun>>
      /\ Goes(s, With(c, c.at, NoUrl, "failed", NoUrl))
  BY <1>2 DEF PageFails, PaperFails
<1>4. c.at \in Page \cup Paper /\ c.alone \in BOOLEAN
  BY <1>3 DEF Searching
<1>5. DOMAIN disk' \subseteq File /\ disk' \in [DOMAIN disk' -> Body]
  BY <1>3, Stays DEF SearchInv
<1> DEFINE r == [url |-> c.at, final |-> NoUrl, end |-> "failed", file |-> NoUrl]
<1>6. PICK d : d = With(c, c.at, NoUrl, "failed", NoUrl)
  OBVIOUS
<1>7. /\ d \in Searching /\ d.pc = c.pc /\ d.left = c.left /\ d.tries = c.tries
      /\ d.at = NoUrl /\ d.read = c.read /\ d.alone = c.alone /\ d.cited = c.cited
      /\ d.results = c.results \cup {r}
  BY <1>4, <1>6, WithFields
<1>8. r.end \notin Kept /\ r.file = NoUrl /\ r.end # "skipped"
  BY DEF Kept, PageKept, PaperKept
<1> HIDE DEF r
<1>9. Numbered(d)
  BY <1>2, <1>3, <1>7, <1>8, NoFileAdded DEF Sound, Taken, Behind
<1>10. AttemptOK(d)
  BY <1>3, <1>7 DEF AttemptOK
<1>11. LimitOK(d)
  BY <1>2, <1>7, <1>8 DEF Sound, LimitOK
<1>12. CitedOK(d) /\ LandingsOK(d)
  BY <1>2, <1>3, <1>7 DEF Sound, CitedOK, LandingsOK
<1>13. OnDisk(d)'
  BY <1>2, <1>3, <1>7, <1>8, DiskStands
<1> QED BY <1>1, <1>2, <1>3, <1>5, <1>6, <1>7, <1>9, <1>10, <1>11, <1>12, <1>13, OneGoesOn
       DEF Sound

LEMMA NamesAnotherStep ==
  ASSUME SearchInv, NEW s \in Searcher, NamesAnother(s)
  PROVE  SearchInv'
<1>1. Active(s)
  BY ActiveSearch DEF NamesAnother
<1>2. PICK c \in Searching : c = search[s] /\ Sound(c) /\ OnDisk(c)
  BY <1>1, ActiveSearch
<1>3. /\ c.pc = "pages" /\ c.at # NoUrl /\ UNCHANGED <<disk, begun>>
      /\ \E final \in LeadsTo[c.at] : \E page \in Names[final] :
           Goes(s, [c EXCEPT !.at = page, !.nested = @ + 1,
                             !.cited = @ \cup Cites[final],
                             !.read = @ \cup {final}])
  BY <1>2 DEF NamesAnother
<1>4. c.at \in Page
  BY <1>2, <1>3 DEF Sound, AttemptOK
<1>5. PICK final \in Page, page \in Page :
        Goes(s, [c EXCEPT !.at = page, !.nested = @ + 1,
                          !.cited = @ \cup Cites[final],
                          !.read = @ \cup {final}])
  BY <1>3, <1>4, SearchAssumption
<1>6. DOMAIN disk' \subseteq File /\ disk' \in [DOMAIN disk' -> Body]
  BY <1>3, Stays DEF SearchInv
<1>7. PICK d : d = [c EXCEPT !.at = page, !.nested = @ + 1,
                             !.cited = @ \cup Cites[final],
                             !.read = @ \cup {final}]
  OBVIOUS
<1>8. /\ d \in Searching /\ d.pc = "pages" /\ d.left = c.left /\ d.tries = c.tries
      /\ d.at = page /\ d.read = c.read \cup {final} /\ d.alone = c.alone
      /\ d.cited = c.cited \cup Cites[final] /\ d.results = c.results
  <2>1. /\ c.cited \cup Cites[final] \in SUBSET Paper
        /\ c.read \cup {final} \in SUBSET Page /\ c.nested + 1 \in Nat
        /\ page \in Page \cup Paper \cup {NoUrl}
    BY SearchAssumption DEF Searching
  <2>2. d \in Searching
    BY <1>7, <2>1 DEF Searching
  <2>3. /\ d.pc = "pages" /\ d.left = c.left /\ d.tries = c.tries /\ d.at = page
        /\ d.alone = c.alone /\ d.results = c.results
    BY <1>3, <1>7 DEF Searching
  <2>4. d.read = c.read \cup {final} /\ d.cited = c.cited \cup Cites[final]
    BY <1>7 DEF Searching
  <2> QED BY <2>2, <2>3, <2>4
<1>9. Numbered(d)
  BY <1>2, <1>3, <1>8, NothingAdded DEF Sound, Taken, Behind
<1>10. AttemptOK(d)
  BY <1>2, <1>3, <1>8 DEF Sound, AttemptOK
<1>11. LimitOK(d)
  BY <1>2, <1>3, <1>8 DEF Sound, LimitOK
<1>12. CitedOK(d) /\ LandingsOK(d)
  BY <1>2, <1>8 DEF Sound, CitedOK, LandingsOK
<1>13. OnDisk(d)'
  BY <1>2, <1>3, <1>8, DiskStands
<1> QED BY <1>1, <1>2, <1>3, <1>5, <1>6, <1>7, <1>8, <1>9, <1>10, <1>11, <1>12, <1>13, OneGoesOn
       DEF Sound

(* The file of the attempt under way is that of no result.                 *)
LEMMA FreshFile ==
  ASSUME NEW c \in Searching, Sound(c), c.pc \in {"pages", "papers", "checking"},
         c.at # NoUrl
  PROVE  /\ <<c.tries, c.at>> \in File
         /\ \A q \in c.results : q.end \in Kept => q.file # <<c.tries, c.at>>
<1>1. c.tries \in Nat /\ c.tries > 0
  BY DEF Searching, Sound, AttemptOK
<1>2. c.at \in Page \/ (c.at \in Paper /\ c.pc # "pages")
  BY DEF Sound, AttemptOK
<1>3. (c.pc = "pages" => c.at \in Page) /\ (c.pc # "pages" => c.at \in Paper)
  BY DEF Sound, AttemptOK
<1>4. <<c.tries, c.at>> \in File
  BY <1>1, <1>2 DEF File
<1>5. ASSUME NEW q \in c.results, q.end \in Kept, q.file = <<c.tries, c.at>>
      PROVE  FALSE
  <2>1. q.url = c.at /\ Taken(c, q) /\ q.file[1] = c.tries
    BY <1>5 DEF Sound, Numbered
  <2>2. Behind(c, q)
    BY <1>3, <2>1 DEF Taken
  <2> QED BY <1>1, <2>1, <2>2 DEF Behind
<1> QED BY <1>4, <1>5

(* A file is written that becomes that of a result.                        *)
LEMMA DiskWritten ==
  ASSUME NEW c, NEW d, OnDisk(c), SearchTypeOK, NEW r, r.file \in File, r.end \in Body,
         Writes(r.file, r.end), d.alone => c.alone, d.results = c.results \cup {r},
         \A q \in c.results : q.end \in Kept => q.file # r.file,
         d.pc # "checking"
  PROVE  OnDisk(d)'
<1>1. /\ r.file \in DOMAIN disk' /\ disk'[r.file] = r.end
      /\ \A f \in DOMAIN disk \ {r.file} : f \in DOMAIN disk' /\ disk'[f] = disk[f]
  BY Writing
<1>2. ASSUME d.alone, NEW q \in d.results, q.end \in Kept
      PROVE  q.file \in DOMAIN disk' /\ disk'[q.file] = q.end
  <2>1. CASE q = r
    BY <1>1, <2>1
  <2>2. CASE q \in c.results
    <3>1. q.file \in DOMAIN disk \ {r.file} /\ disk[q.file] = q.end
      BY <1>2, <2>2 DEF OnDisk
    <3> QED BY <1>1, <3>1
  <2> QED BY <2>1, <2>2
<1> QED BY <1>2 DEF OnDisk

LEMMA ReadPageStep ==
  ASSUME SearchInv, NEW s \in Searcher, ReadPage(s)
  PROVE  SearchInv'
<1>1. Active(s)
  BY ActiveSearch DEF ReadPage
<1>2. PICK c \in Searching : c = search[s] /\ Sound(c) /\ OnDisk(c)
  BY <1>1, ActiveSearch
<1>3. c.pc = "pages" /\ c.at # NoUrl /\ begun' = begun
  BY <1>2 DEF ReadPage
<1>4. c.at \in Page
  BY <1>2, <1>3 DEF Sound, AttemptOK
<1>23. PICK final \in LeadsTo[c.at] : \E end \in PageEnds(c.at, final) :
        LET file == IF end \in Kept THEN <<c.tries, c.at>> ELSE NoUrl IN
        /\ Goes(s, [With(c, c.at, final, end, file) EXCEPT
                      !.cited = @ \cup Cites[final],
                      !.read = @ \cup {final}])
        /\ IF end \in Kept THEN Writes(file, end) ELSE UNCHANGED disk
  BY <1>2 DEF ReadPage
<1>5. PICK end \in PageEnds(c.at, final) :
        LET file == IF end \in Kept THEN <<c.tries, c.at>> ELSE NoUrl IN
        /\ Goes(s, [With(c, c.at, final, end, file) EXCEPT
                      !.cited = @ \cup Cites[final],
                      !.read = @ \cup {final}])
        /\ IF end \in Kept THEN Writes(file, end) ELSE UNCHANGED disk
  BY <1>23
<1>6. final \in Page /\ Cites[final] \subseteq Paper
  BY <1>4, SearchAssumption
<1>7. end \in Kept \/ end = "failed"
  BY DEF PageEnds, Kept, PageKept
<1>8. PICK file : file = IF end \in Kept THEN <<c.tries, c.at>> ELSE NoUrl
  OBVIOUS
<1>9. /\ <<c.tries, c.at>> \in File
      /\ \A q \in c.results : q.end \in Kept => q.file # <<c.tries, c.at>>
  BY <1>2, <1>3, FreshFile
<1>10. PICK w : w = With(c, c.at, final, end, file)
  OBVIOUS
<1>11. PICK d : d = [w EXCEPT !.cited = @ \cup Cites[final], !.read = @ \cup {final}]
  OBVIOUS
<1>12. Goes(s, d) /\ IF end \in Kept THEN Writes(file, end) ELSE UNCHANGED disk
  BY <1>5, <1>8, <1>10, <1>11
<1>13. PICK r : r = [url |-> c.at, final |-> final, end |-> end, file |-> file]
  OBVIOUS
<1>14. r.url = c.at /\ r.final = final /\ r.end = end /\ r.file = file
  BY <1>13
<1>15. /\ w \in Searching /\ w.pc = c.pc /\ w.left = c.left /\ w.tries = c.tries
       /\ w.at = NoUrl /\ w.read = c.read /\ w.alone = c.alone /\ w.cited = c.cited
       /\ w.results = c.results \cup {r}
  BY <1>4, <1>6, <1>7, <1>8, <1>9, <1>10, <1>13, WithFields
<1>16. /\ d \in Searching /\ d.pc = "pages" /\ d.left = c.left /\ d.tries = c.tries
       /\ d.at = NoUrl /\ d.alone = c.alone /\ d.results = c.results \cup {r}
       /\ d.read = c.read \cup {final} /\ d.cited = c.cited \cup Cites[final]
  <2>1. c.cited \cup Cites[final] \in SUBSET Paper /\ c.read \cup {final} \in SUBSET Page
    BY <1>6 DEF Searching
  <2>2. d = [w EXCEPT !.cited = c.cited \cup Cites[final], !.read = c.read \cup {final}]
    BY <1>11, <1>15
  <2>3. d \in Searching
    BY <1>15, <2>1, <2>2 DEF Searching
  <2>4. /\ d.pc = "pages" /\ d.left = c.left /\ d.tries = c.tries /\ d.at = NoUrl
        /\ d.alone = c.alone /\ d.results = c.results \cup {r}
    BY <1>3, <1>15, <2>2 DEF Searching
  <2>5. d.read = c.read \cup {final} /\ d.cited = c.cited \cup Cites[final]
    BY <1>15, <2>2 DEF Searching
  <2> QED BY <2>3, <2>4, <2>5
<1>17. \A q \in c.results : q.end \in Kept /\ Taken(c, q) => Taken(d, q)
  BY <1>3, <1>16 DEF Taken, Behind
<1>18. AttemptOK(d)
  BY <1>16 DEF AttemptOK
<1>19. LimitOK(d)
  <2>1. r.end # "skipped"
    BY <1>7, <1>14 DEF Kept, PageKept, PaperKept
  <2> QED BY <1>2, <1>3, <1>16, <2>1 DEF Sound, LimitOK
<1>20. CitedOK(d) /\ LandingsOK(d)
  BY <1>2, <1>16 DEF Sound, CitedOK, LandingsOK
<1>21. CASE end \in Kept
  <2>1. file = <<c.tries, c.at>> /\ Writes(file, end) /\ end \in Body
    BY <1>8, <1>12, <1>21 DEF Body
  <2>2. r.file[2] = r.url /\ r.file \in File
    BY <1>9, <1>14, <2>1
  <2>3. Taken(d, r)
    <3>1. r.file[1] = c.tries /\ c.tries \in Nat
      BY <1>14, <2>1 DEF Searching
    <3> QED BY <1>4, <1>14, <1>16, <3>1 DEF Taken, Behind
  <2>4. Numbered(d)
    BY <1>2, <1>9, <1>14, <1>16, <1>17, <1>21, <2>1, <2>2, <2>3, FileAdded DEF Sound
  <2>5. OnDisk(d)'
    BY <1>2, <1>9, <1>14, <1>16, <1>21, <2>1, <2>2, DiskWritten DEF SearchInv
  <2>6. DOMAIN disk' \subseteq File /\ disk' \in [DOMAIN disk' -> Body]
    BY <1>9, <2>1, Writing DEF SearchInv
  <2>7. Sound(d)
    BY <1>18, <1>19, <1>20, <2>4 DEF Sound
  <2> QED BY <1>1, <1>2, <1>3, <1>12, <1>16, <2>5, <2>6, <2>7, OneGoesOn
<1>22. CASE end \notin Kept
  <2>1. file = NoUrl /\ disk' = disk
    BY <1>8, <1>12, <1>22
  <2>2. Numbered(d)
    BY <1>2, <1>14, <1>16, <1>17, <1>22, <2>1, NoFileAdded DEF Sound
  <2>3. OnDisk(d)'
    BY <1>2, <1>14, <1>16, <1>22, <2>1, DiskStands
  <2>4. DOMAIN disk' \subseteq File /\ disk' \in [DOMAIN disk' -> Body]
    BY <2>1, Stays DEF SearchInv
  <2>5. Sound(d)
    BY <1>18, <1>19, <1>20, <2>2 DEF Sound
  <2> QED BY <1>1, <1>2, <1>3, <1>12, <1>16, <2>3, <2>4, <2>5, OneGoesOn
<1> QED BY <1>21, <1>22

LEMMA ToPapersStep ==
  ASSUME SearchInv, NEW s \in Searcher, ToPapers(s)
  PROVE  SearchInv'
<1>1. Active(s)
  BY ActiveSearch DEF ToPapers
<1>2. PICK c \in Searching : c = search[s] /\ Sound(c) /\ OnDisk(c)
  BY <1>1, ActiveSearch
<1>3. /\ c.pc = "pages" /\ c.at = NoUrl /\ UNCHANGED <<disk, begun>>
      /\ Goes(s, [c EXCEPT !.pc = "papers", !.tries = 0])
  BY <1>2 DEF ToPapers
<1>4. PICK d : d = [c EXCEPT !.pc = "papers", !.tries = 0]
  OBVIOUS
<1>5. d \in Searching
  BY <1>4 DEF Searching
<1>6. /\ d.pc = "papers" /\ d.tries = 0 /\ d.at = NoUrl /\ d.results = c.results
      /\ d.read = c.read /\ d.cited = c.cited /\ d.alone = c.alone
  BY <1>3, <1>4 DEF Searching
<1>7. Numbered(d)
  <2>1. \A q \in c.results : q.end \in Kept /\ Taken(c, q) => Taken(d, q)
    BY <1>3, <1>6, SearchAssumption DEF Taken
  <2> QED BY <1>2, <1>6, <2>1, NothingAdded DEF Sound
<1>8. AttemptOK(d) /\ LimitOK(d) /\ CitedOK(d) /\ LandingsOK(d)
  BY <1>2, <1>6 DEF Sound, AttemptOK, LimitOK, CitedOK, LandingsOK
<1>9. OnDisk(d)'
  BY <1>2, <1>3, <1>6, DiskStands
<1>10. DOMAIN disk' \subseteq File /\ disk' \in [DOMAIN disk' -> Body]
  BY <1>3, Stays DEF SearchInv
<1>11. Sound(d)
  BY <1>7, <1>8 DEF Sound
<1> QED BY <1>1, <1>2, <1>3, <1>4, <1>5, <1>6, <1>9, <1>10, <1>11, OneGoesOn

LEMMA TakePaperStep ==
  ASSUME SearchInv, NEW s \in Searcher, TakePaper(s)
  PROVE  SearchInv'
<1>1. Active(s)
  BY ActiveSearch DEF TakePaper
<1>2. PICK c \in Searching : c = search[s] /\ Sound(c) /\ OnDisk(c)
  BY <1>1, ActiveSearch
<1>3. /\ c.pc = "papers" /\ c.at = NoUrl /\ UNCHANGED <<disk, begun>>
      /\ \E paper \in (IF c.papers \subseteq Seen(c) THEN PapersOf(c) \ Seen(c)
                       ELSE c.papers \ Seen(c)) :
           Goes(s, IF c.tries >= PaperLimit(c)
                   THEN With(c, paper, NoUrl, "skipped", NoUrl)
                   ELSE [c EXCEPT !.tries = @ + 1, !.at = paper])
  BY <1>2 DEF TakePaper
<1>4. c.papers \subseteq Paper /\ PapersOf(c) \subseteq Paper /\ c.tries \in Nat
  BY DEF PapersOf, Searching
<1>5. PICK paper \in Paper :
        Goes(s, IF c.tries >= PaperLimit(c)
                THEN With(c, paper, NoUrl, "skipped", NoUrl)
                ELSE [c EXCEPT !.tries = @ + 1, !.at = paper])
  BY <1>3, <1>4
<1>6. paper # NoUrl /\ paper \notin Page /\ HtmlPage \subseteq Page
  BY SearchAssumption DEF HtmlPage
<1>7. DOMAIN disk' \subseteq File /\ disk' \in [DOMAIN disk' -> Body]
  BY <1>3, Stays DEF SearchInv
<1>8. CASE c.tries >= PaperLimit(c)
  <2>1. PICK d : d = With(c, paper, NoUrl, "skipped", NoUrl)
    OBVIOUS
  <2>2. PICK r : r = [url |-> paper, final |-> NoUrl, end |-> "skipped", file |-> NoUrl]
    OBVIOUS
  <2>3. r.url = paper /\ r.final = NoUrl /\ r.end \notin Kept /\ r.file = NoUrl
    BY <2>2 DEF Kept, PageKept, PaperKept
  <2>4. /\ d \in Searching /\ d.pc = "papers" /\ d.left = c.left /\ d.tries = c.tries
        /\ d.at = NoUrl /\ d.read = c.read /\ d.alone = c.alone /\ d.cited = c.cited
        /\ d.results = c.results \cup {r}
    BY <1>3, <2>1, <2>2, WithFields
  <2>5. Numbered(d)
    BY <1>2, <1>3, <2>3, <2>4, NoFileAdded DEF Sound, Taken, Behind
  <2>6. LimitOK(d)
    BY <1>2, <1>6, <2>3, <2>4 DEF Sound, LimitOK
  <2>7. AttemptOK(d) /\ CitedOK(d) /\ LandingsOK(d)
    BY <1>2, <2>4 DEF Sound, AttemptOK, CitedOK, LandingsOK
  <2>8. OnDisk(d)'
    BY <1>2, <1>3, <2>3, <2>4, DiskStands
  <2>9. Goes(s, d)
    BY <1>5, <1>8, <2>1
  <2>10. Sound(d)
    BY <2>5, <2>6, <2>7 DEF Sound
  <2> QED BY <1>1, <1>2, <1>3, <1>7, <2>4, <2>8, <2>9, <2>10, OneGoesOn
<1>9. CASE ~(c.tries >= PaperLimit(c))
  <2>1. PICK d : d = [c EXCEPT !.tries = @ + 1, !.at = paper]
    OBVIOUS
  <2>2. d \in Searching
    <3>1. c.tries + 1 \in Nat /\ paper \in Page \cup Paper \cup {NoUrl}
      BY <1>4
    <3> QED BY <2>1, <3>1 DEF Searching
  <2>3. /\ d.pc = "papers" /\ d.tries = c.tries + 1 /\ d.at = paper
        /\ d.results = c.results /\ d.read = c.read /\ d.cited = c.cited
        /\ d.alone = c.alone
    BY <1>3, <2>1 DEF Searching
  <2>4. Numbered(d)
    <3>1. \A q \in c.results : q.end \in Kept /\ Taken(c, q) => Taken(d, q)
      <4>1. TAKE q \in c.results
      <4>2. HAVE q.end \in Kept /\ Taken(c, q)
      <4>3. q.file \in File
        BY <1>2, <4>2 DEF Sound, Numbered
      <4>4. q.file[1] \in Nat
        BY <4>3 DEF File
      <4> QED BY <1>3, <1>4, <2>3, <4>2, <4>4 DEF Taken, Behind
    <3> QED BY <1>2, <2>3, <3>1, NothingAdded DEF Sound
  <2>5. AttemptOK(d)
    BY <1>4, <1>6, <2>3 DEF AttemptOK
  <2>6. LimitOK(d) /\ CitedOK(d) /\ LandingsOK(d)
    BY <1>2, <2>3 DEF Sound, LimitOK, CitedOK, LandingsOK
  <2>7. OnDisk(d)'
    BY <1>2, <1>3, <2>3, DiskStands
  <2>8. Goes(s, d)
    BY <1>5, <1>9, <2>1
  <2>9. Sound(d)
    BY <2>4, <2>5, <2>6 DEF Sound
  <2> QED BY <1>1, <1>2, <1>3, <1>7, <2>2, <2>3, <2>7, <2>8, <2>9, OneGoesOn
<1> QED BY <1>8, <1>9

LEMMA WritePaperStep ==
  ASSUME SearchInv, NEW s \in Searcher, WritePaper(s)
  PROVE  SearchInv'
<1>1. Active(s)
  BY ActiveSearch DEF WritePaper
<1>2. PICK c \in Searching : c = search[s] /\ Sound(c) /\ OnDisk(c)
  BY <1>1, ActiveSearch
<1>3. /\ c.pc = "papers" /\ c.at # NoUrl /\ begun' = begun
      /\ \E body \in PaperKept \cup {"other"} :
           /\ Writes(PaperFile(c), body)
           /\ Goes(s, [c EXCEPT !.pc = "checking", !.held = body])
  BY <1>2 DEF WritePaper
<1>4. PICK body \in PaperKept \cup {"other"} :
        /\ Writes(PaperFile(c), body)
        /\ Goes(s, [c EXCEPT !.pc = "checking", !.held = body])
  BY <1>3
<1>5. c.at \in Paper /\ body \in Body
  BY <1>2, <1>3 DEF Sound, AttemptOK, Body, Kept
<1>6. PICK d : d = [c EXCEPT !.pc = "checking", !.held = body]
  OBVIOUS
<1>7. d \in Searching
  BY <1>5, <1>6 DEF Searching
<1>8. /\ d.pc = "checking" /\ d.held = body /\ d.tries = c.tries /\ d.at = c.at
      /\ d.results = c.results /\ d.read = c.read /\ d.cited = c.cited
      /\ d.alone = c.alone
  BY <1>6 DEF Searching
<1>9. /\ PaperFile(c) \in File /\ PaperFile(d) = PaperFile(c)
      /\ \A q \in c.results : q.end \in Kept => q.file # PaperFile(c)
  BY <1>2, <1>3, <1>8, FreshFile DEF PaperFile
<1>10. /\ DOMAIN disk' \subseteq File /\ disk' \in [DOMAIN disk' -> Body]
       /\ PaperFile(c) \in DOMAIN disk' /\ disk'[PaperFile(c)] = body
       /\ \A f \in DOMAIN disk \ {PaperFile(c)} : f \in DOMAIN disk' /\ disk'[f] = disk[f]
  BY <1>4, <1>5, <1>9, Writing DEF SearchInv
<1>11. Numbered(d)
  <2>1. \A q \in c.results : q.end \in Kept /\ Taken(c, q) => Taken(d, q)
    BY <1>3, <1>8 DEF Taken, Behind
  <2> QED BY <1>2, <1>8, <2>1, NothingAdded DEF Sound
<1>12. AttemptOK(d)
  BY <1>2, <1>3, <1>5, <1>8 DEF Sound, AttemptOK
<1>13. LimitOK(d) /\ CitedOK(d) /\ LandingsOK(d)
  BY <1>2, <1>8 DEF Sound, LimitOK, CitedOK, LandingsOK
<1>14. OnDisk(d)'
  <2>1. d.alone => \A r \in d.results : r.end \in Kept =>
          r.file \in DOMAIN disk' /\ disk'[r.file] = r.end
    BY <1>2, <1>8, <1>9, <1>10 DEF OnDisk
  <2>2. PaperFile(d)' = PaperFile(d)
    BY DEF PaperFile
  <2> QED BY <1>8, <1>9, <1>10, <2>1, <2>2 DEF OnDisk
<1>15. Sound(d)
  BY <1>11, <1>12, <1>13 DEF Sound
<1> QED BY <1>1, <1>2, <1>3, <1>4, <1>6, <1>7, <1>8, <1>10, <1>14, <1>15, OneGoesOn

LEMMA CheckPaperStep ==
  ASSUME SearchInv, NEW s \in Searcher, CheckPaper(s)
  PROVE  SearchInv'
<1>1. Active(s)
  BY ActiveSearch DEF CheckPaper
<1>2. PICK c \in Searching : c = search[s] /\ Sound(c) /\ OnDisk(c)
  BY <1>1, ActiveSearch
<1>3. PICK done : done = [c EXCEPT !.pc = "papers"]
  OBVIOUS
<1>4. /\ c.pc = "checking" /\ begun' = begun
      /\ IF Mismatch(c.held)
         THEN /\ Goes(s, With(done, c.at, NoUrl, "failed", NoUrl))
              /\ Unlinks(PaperFile(c))
         ELSE /\ Goes(s, With(done, c.at, NoUrl, c.held, PaperFile(c)))
              /\ UNCHANGED disk
  BY <1>2, <1>3 DEF CheckPaper
<1>5. c.at \in Paper /\ c.held \in PaperKept \cup {"other"} /\ c.at # NoUrl
  BY <1>2, <1>4, SearchAssumption DEF Sound, AttemptOK
<1>6. /\ PaperFile(c) = <<c.tries, c.at>> /\ PaperFile(c) \in File
      /\ \A q \in c.results : q.end \in Kept => q.file # PaperFile(c)
  BY <1>2, <1>4, <1>5, FreshFile DEF PaperFile
<1>7. /\ done \in Searching /\ done.pc = "papers" /\ done.left = c.left
      /\ done.tries = c.tries /\ done.read = c.read /\ done.alone = c.alone
      /\ done.cited = c.cited /\ done.results = c.results
  <2>1. done \in Searching
    BY <1>3 DEF Searching
  <2>2. /\ done.pc = "papers" /\ done.left = c.left
        /\ done.tries = c.tries /\ done.read = c.read /\ done.alone = c.alone
        /\ done.cited = c.cited /\ done.results = c.results
    BY <1>3 DEF Searching
  <2> QED BY <2>1, <2>2
<1>8. PICK end, file : end = (IF Mismatch(c.held) THEN "failed" ELSE c.held)
                       /\ file = (IF Mismatch(c.held) THEN NoUrl ELSE PaperFile(c))
  OBVIOUS
<1>9. end \in Kept \cup {"skipped", "failed"} /\ file \in File \cup {NoUrl}
      /\ end # "skipped"
  BY <1>5, <1>6, <1>8 DEF Mismatch, Kept, PaperKept
<1>10. PICK d : d = With(done, c.at, NoUrl, end, file)
  OBVIOUS
<1>11. PICK r : r = [url |-> c.at, final |-> NoUrl, end |-> end, file |-> file]
  OBVIOUS
<1>12. r.url = c.at /\ r.final = NoUrl /\ r.end = end /\ r.file = file
  BY <1>11
<1>13. /\ d \in Searching /\ d.pc = "papers" /\ d.left = c.left /\ d.tries = c.tries
       /\ d.at = NoUrl /\ d.read = c.read /\ d.alone = c.alone /\ d.cited = c.cited
       /\ d.results = c.results \cup {r}
  <2>1. c.at \in Page \cup Paper /\ NoUrl \in Page \cup {NoUrl}
    BY <1>5
  <2>2. /\ d \in Searching /\ d.pc = done.pc /\ d.left = done.left
        /\ d.tries = done.tries /\ d.at = NoUrl /\ d.read = done.read
        /\ d.alone = done.alone /\ d.cited = done.cited
        /\ d.results = done.results \cup {r}
    BY <1>7, <1>9, <1>10, <1>11, <2>1, WithFields
  <2> QED BY <1>7, <2>2
<1>14. Goes(s, d)
  BY <1>4, <1>8, <1>10
<1>15. \A q \in c.results : q.end \in Kept /\ Taken(c, q) => Taken(d, q)
  BY <1>4, <1>13 DEF Taken, Behind
<1>16. AttemptOK(d) /\ CitedOK(d) /\ LandingsOK(d)
  BY <1>2, <1>13 DEF Sound, AttemptOK, CitedOK, LandingsOK
<1>17. LimitOK(d)
  BY <1>2, <1>9, <1>12, <1>13 DEF Sound, LimitOK
<1>18. CASE Mismatch(c.held)
  <2>1. end \notin Kept /\ file = NoUrl /\ Unlinks(PaperFile(c))
    BY <1>4, <1>8, <1>18 DEF Kept, PageKept, PaperKept
  <2>2. Numbered(d)
    BY <1>2, <1>12, <1>13, <1>15, <2>1, NoFileAdded DEF Sound
  <2>3. /\ DOMAIN disk' \subseteq File /\ disk' \in [DOMAIN disk' -> Body]
        /\ \A f \in DOMAIN disk \ {PaperFile(c)} : f \in DOMAIN disk' /\ disk'[f] = disk[f]
    BY <2>1, Unlinking DEF SearchInv
  <2>4. OnDisk(d)'
    <3>1. ASSUME d.alone, NEW q \in d.results, q.end \in Kept
          PROVE  q.file \in DOMAIN disk' /\ disk'[q.file] = q.end
      <4>1. q \in c.results
        BY <1>12, <1>13, <2>1, <3>1
      <4> QED BY <1>2, <1>6, <1>13, <2>3, <3>1, <4>1 DEF OnDisk
    <3> QED BY <1>13, <3>1 DEF OnDisk
  <2>5. Sound(d)
    BY <1>16, <1>17, <2>2 DEF Sound
  <2> QED BY <1>1, <1>2, <1>4, <1>13, <1>14, <2>3, <2>4, <2>5, OneGoesOn
<1>19. CASE ~Mismatch(c.held)
  <2>1. end \in Kept /\ end = c.held /\ file = PaperFile(c) /\ disk' = disk
    BY <1>4, <1>5, <1>8, <1>19 DEF Mismatch, Kept
  <2>2. Numbered(d)
    <3>1. r.file[1] = c.tries /\ r.file[2] = r.url /\ r.file \in File /\ c.tries \in Nat
      BY <1>6, <1>12, <2>1 DEF Searching
    <3>2. Taken(d, r)
      BY <1>13, <3>1 DEF Taken, Behind
    <3> QED BY <1>2, <1>6, <1>12, <1>13, <1>15, <2>1, <3>1, <3>2, FileAdded DEF Sound
  <2>3. OnDisk(d)'
    <3>1. ASSUME d.alone, NEW q \in d.results, q.end \in Kept
          PROVE  q.file \in DOMAIN disk' /\ disk'[q.file] = q.end
      <4>1. CASE q = r
        BY <1>2, <1>4, <1>12, <1>13, <2>1, <3>1, <4>1 DEF OnDisk
      <4>2. CASE q \in c.results
        BY <1>2, <1>13, <2>1, <3>1, <4>2 DEF OnDisk
      <4> QED BY <1>13, <4>1, <4>2
    <3> QED BY <1>13, <3>1 DEF OnDisk
  <2>4. DOMAIN disk' \subseteq File /\ disk' \in [DOMAIN disk' -> Body]
    BY <2>1, Stays DEF SearchInv
  <2>5. Sound(d)
    BY <1>16, <1>17, <2>2 DEF Sound
  <2> QED BY <1>1, <1>2, <1>4, <1>13, <1>14, <2>3, <2>4, <2>5, OneGoesOn
<1> QED BY <1>18, <1>19

LEMMA ToLandingsStep ==
  ASSUME SearchInv, NEW s \in Searcher, ToLandings(s)
  PROVE  SearchInv'
<1>1. Active(s)
  BY ActiveSearch DEF ToLandings
<1>2. PICK c \in Searching : c = search[s] /\ Sound(c) /\ OnDisk(c)
  BY <1>1, ActiveSearch
<1>3. /\ c.pc = "papers" /\ c.at = NoUrl /\ UNCHANGED <<disk, begun>>
      /\ PaperLimit(c) = 0 \/ PapersOf(c) \subseteq Seen(c)
      /\ Goes(s, [c EXCEPT !.pc = "landings", !.landings = Missed(c)])
  BY <1>2 DEF ToLandings
<1>4. PICK d : d = [c EXCEPT !.pc = "landings", !.landings = Missed(c)]
  OBVIOUS
<1>5. d \in Searching
  <2>1. Missed(c) \in SUBSET Landing
    BY DEF Missed
  <2> QED BY <1>4, <2>1 DEF Searching
<1>6. /\ d.pc = "landings" /\ d.at = NoUrl /\ d.results = c.results
      /\ d.read = c.read /\ d.cited = c.cited /\ d.alone = c.alone
  BY <1>3, <1>4 DEF Searching
<1>7. d.landings = Missed(c) /\ d.papers = c.papers /\ d.hasPdf = c.hasPdf
  BY <1>4 DEF Searching
<1>8. Seen(d) = Seen(c) /\ Met(d) = Met(c) /\ (HasArticle(d) <=> HasArticle(c))
  BY <1>6 DEF Seen, Met, HasArticle
<1>9. Numbered(d)
  <2>1. \A q \in c.results, l \in Missed(c) : q.url # HtmlOf[l]
    BY DEF Missed, Met, Seen
  <2>2. \A q \in c.results : Taken(d, q)
    BY <1>6, <1>7, <2>1 DEF Taken
  <2> QED BY <1>2, <1>6, <2>2, NothingAdded DEF Sound
<1>10. AttemptOK(d) /\ LimitOK(d)
  BY <1>2, <1>6 DEF Sound, AttemptOK, LimitOK
<1>11. CitedOK(d)
  <2>1. PaperLimit(d) = PaperLimit(c) /\ PapersOf(d) = PapersOf(c)
    BY <1>6, <1>7 DEF PaperLimit, PapersOf
  <2> QED BY <1>2, <1>3, <1>6, <1>8, <2>1 DEF Sound, CitedOK
<1>12. LandingsOK(d)
  <2>1. ASSUME ~HasArticle(c), NEW l \in Landing \cap Met(c), l \notin Missed(c)
        PROVE  Attempted(c, l)
    <3>1. HtmlOf[l] \in Met(c)
      BY <2>1 DEF Missed
    <3>2. PICK r \in c.results : HtmlOf[l] \in {r.url, r.final}
      BY <3>1 DEF Met, Seen
    <3>3. HtmlOf[l] \in HtmlPage /\ HtmlOf[l] # NoUrl
      BY SearchAssumption DEF HtmlPage
    <3>4. r.end # "skipped"
      BY <1>2, <3>2, <3>3 DEF Sound, LimitOK
    <3> QED BY <3>2, <3>4 DEF Attempted
  <2>2. \A l : Attempted(d, l) <=> Attempted(c, l)
    BY <1>6 DEF Attempted
  <2> QED BY <1>6, <1>7, <1>8, <2>1, <2>2 DEF LandingsOK
<1>13. OnDisk(d)'
  BY <1>2, <1>3, <1>6, DiskStands
<1>14. DOMAIN disk' \subseteq File /\ disk' \in [DOMAIN disk' -> Body]
  BY <1>3, Stays DEF SearchInv
<1>15. Sound(d)
  BY <1>9, <1>10, <1>11, <1>12 DEF Sound
<1> QED BY <1>1, <1>2, <1>3, <1>4, <1>5, <1>6, <1>13, <1>14, <1>15, OneGoesOn

LEMMA RescueStep ==
  ASSUME SearchInv, NEW s \in Searcher, Rescue(s)
  PROVE  SearchInv'
<1>1. Active(s)
  BY ActiveSearch DEF Rescue
<1>2. PICK c \in Searching : c = search[s] /\ Sound(c) /\ OnDisk(c)
  BY <1>1, ActiveSearch
<1>3. c.pc = "landings" /\ begun' = begun
  BY <1>2 DEF Rescue
<1>4. PICK l \in c.landings, end \in PageKept \cup {"failed"} :
        IF end = "failed"
        THEN /\ Goes(s, With([c EXCEPT !.landings = @ \ {l}], HtmlOf[l], HtmlOf[l], end, NoUrl))
             /\ UNCHANGED disk
        ELSE /\ Goes(s, With([c EXCEPT !.landings = @ \ {l}], HtmlOf[l], HtmlOf[l], end,
                             <<c.count + 1, HtmlOf[l]>>))
             /\ Writes(<<c.count + 1, HtmlOf[l]>>, end)
  BY <1>2 DEF Rescue
<1>5. PICK rest : rest = [c EXCEPT !.landings = @ \ {l}]
  OBVIOUS
<1>6. PICK url : url = HtmlOf[l]
  OBVIOUS
<1>7. /\ l \in Landing /\ url \in Page /\ url \in HtmlPage /\ url \notin Landing
      /\ c.count \in Nat /\ c.at = NoUrl /\ url # NoUrl
  <2>1. l \in Landing /\ c.count \in Nat
    BY DEF Searching
  <2>2. c.at = NoUrl
    BY <1>2, <1>3 DEF Sound, AttemptOK
  <2> QED BY <1>6, <2>1, <2>2, SearchAssumption DEF HtmlPage
<1>8. <<c.count + 1, url>> \in File
  BY <1>7 DEF File
<1>9. \A q \in c.results : q.end \in Kept => q.file # <<c.count + 1, url>>
  <2>1. ASSUME NEW q \in c.results, q.end \in Kept, q.file = <<c.count + 1, url>>
        PROVE  FALSE
    <3>1. q.url = url /\ q.file[1] = c.count + 1 /\ Taken(c, q)
      BY <1>2, <2>1 DEF Sound, Numbered
    <3>2. c.count + 1 <= c.count
      BY <1>3, <1>6, <3>1 DEF Taken
    <3> QED BY <1>7, <3>2
  <2> QED BY <2>1
<1>10. PICK file : file = IF end = "failed" THEN NoUrl ELSE <<c.count + 1, url>>
  OBVIOUS
<1>11. /\ end \in Kept \cup {"skipped", "failed"} /\ end # "skipped"
       /\ file \in File \cup {NoUrl} /\ (end # "failed" => end \in Kept)
       /\ (end = "failed" => end \notin Kept)
  BY <1>8, <1>10 DEF Kept, PageKept, PaperKept
<1>12. PICK d : d = With(rest, url, url, end, file)
  OBVIOUS
<1>13. PICK r : r = [url |-> url, final |-> url, end |-> end, file |-> file]
  OBVIOUS
<1>14. r.url = url /\ r.final = url /\ r.end = end /\ r.file = file
  BY <1>13
<1>15. /\ rest \in Searching /\ rest.pc = "landings" /\ rest.landings = c.landings \ {l}
       /\ rest.read = c.read /\ rest.alone = c.alone /\ rest.cited = c.cited
       /\ rest.results = c.results /\ rest.papers = c.papers
       /\ rest.hasPdf = c.hasPdf /\ rest.count = c.count
  <2>1. rest \in Searching
    <3>1. c.landings \ {l} \in SUBSET Landing
      BY DEF Searching
    <3> QED BY <1>5, <3>1 DEF Searching
  <2>2. /\ rest.pc = "landings" /\ rest.landings = c.landings \ {l}
        /\ rest.read = c.read /\ rest.alone = c.alone /\ rest.cited = c.cited
    BY <1>3, <1>5 DEF Searching
  <2>3. /\ rest.results = c.results /\ rest.papers = c.papers
        /\ rest.hasPdf = c.hasPdf /\ rest.count = c.count
    BY <1>5 DEF Searching
  <2> QED BY <2>1, <2>2, <2>3
<1>16. /\ d \in Searching /\ d.pc = "landings" /\ d.landings = c.landings \ {l}
       /\ d.at = NoUrl /\ d.read = c.read /\ d.alone = c.alone /\ d.cited = c.cited
       /\ d.results = c.results \cup {r} /\ d.papers = c.papers
       /\ d.hasPdf = c.hasPdf /\ d.count = c.count + 1
  BY <1>7, <1>11, <1>12, <1>13, <1>15, WithFields
<1>17. Goes(s, d)
  BY <1>4, <1>5, <1>6, <1>10, <1>12
<1>18. \A q \in c.results : q.end \in Kept /\ Taken(c, q) => Taken(d, q)
  <2>1. ASSUME NEW q \in c.results, q.end \in Kept, Taken(c, q),
               NEW m \in d.landings, q.url = HtmlOf[m]
        PROVE  q.file[1] <= d.count
    <3>1. q.file[1] \in Nat
      BY <1>2, <2>1 DEF Sound, Numbered, File
    <3>2. q.file[1] <= c.count
      BY <1>3, <1>16, <2>1 DEF Taken
    <3> QED BY <1>7, <1>16, <3>1, <3>2
  <2> QED BY <1>16, <2>1 DEF Taken
<1>19. AttemptOK(d) /\ LimitOK(d)
  BY <1>2, <1>11, <1>14, <1>16 DEF Sound, AttemptOK, LimitOK
<1>20. CitedOK(d)
  <2>1. PaperLimit(d) = PaperLimit(c) /\ PapersOf(d) = PapersOf(c)
    BY <1>16 DEF PaperLimit, PapersOf
  <2>2. Seen(c) \subseteq Seen(d)
    BY <1>16 DEF Seen
  <2> QED BY <1>2, <1>3, <1>16, <2>1, <2>2 DEF Sound, CitedOK
<1>21. LandingsOK(d)
  <2>1. HasArticle(c) => HasArticle(d)
    BY <1>16 DEF HasArticle
  <2>2. Met(d) = Met(c) \cup {url}
    BY <1>14, <1>16 DEF Met, Seen
  <2>3. Attempted(d, l)
    BY <1>6, <1>11, <1>14, <1>16 DEF Attempted
  <2>4. \A m : Attempted(c, m) => Attempted(d, m)
    BY <1>16 DEF Attempted
  <2> QED BY <1>2, <1>3, <1>7, <1>16, <2>1, <2>2, <2>3, <2>4 DEF Sound, LandingsOK
<1>22. CASE end = "failed"
  <2>1. file = NoUrl /\ disk' = disk
    BY <1>4, <1>10, <1>22
  <2>2. Numbered(d)
    BY <1>2, <1>11, <1>14, <1>16, <1>18, <1>22, <2>1, NoFileAdded DEF Sound
  <2>3. OnDisk(d)'
    BY <1>2, <1>11, <1>14, <1>16, <1>22, <2>1, DiskStands
  <2>4. DOMAIN disk' \subseteq File /\ disk' \in [DOMAIN disk' -> Body]
    BY <2>1, Stays DEF SearchInv
  <2>5. Sound(d)
    BY <1>19, <1>20, <1>21, <2>2 DEF Sound
  <2> QED BY <1>1, <1>2, <1>3, <1>16, <1>17, <2>3, <2>4, <2>5, OneGoesOn
<1>23. CASE end # "failed"
  <2>1. file = <<c.count + 1, url>> /\ Writes(file, end) /\ end \in Kept /\ end \in Body
    BY <1>4, <1>6, <1>10, <1>11, <1>23 DEF Body
  <2>2. r.file[1] = c.count + 1 /\ r.file[2] = r.url /\ r.file \in File
    BY <1>8, <1>14, <2>1
  <2>3. Taken(d, r)
    BY <1>7, <1>16, <2>2 DEF Taken
  <2>4. Numbered(d)
    BY <1>2, <1>9, <1>14, <1>16, <1>18, <2>1, <2>2, <2>3, FileAdded DEF Sound
  <2>5. OnDisk(d)'
    BY <1>2, <1>9, <1>14, <1>16, <2>1, <2>2, DiskWritten DEF SearchInv
  <2>6. DOMAIN disk' \subseteq File /\ disk' \in [DOMAIN disk' -> Body]
    BY <1>8, <2>1, Writing DEF SearchInv
  <2>7. Sound(d)
    BY <1>19, <1>20, <1>21, <2>4 DEF Sound
  <2> QED BY <1>1, <1>2, <1>3, <1>16, <1>17, <2>5, <2>6, <2>7, OneGoesOn
<1> QED BY <1>22, <1>23

LEMMA FindStep ==
  ASSUME SearchInv, NEW s \in Searcher, Find(s)
  PROVE  SearchInv'
<1>1. Active(s)
  BY ActiveSearch DEF Find
<1>2. PICK c \in Searching : c = search[s] /\ Sound(c) /\ OnDisk(c)
  BY <1>1, ActiveSearch
<1>3. /\ c.pc = "landings" /\ c.landings = {} /\ UNCHANGED <<disk, begun>>
      /\ Goes(s, [c EXCEPT !.pc = "found"])
  BY <1>2 DEF Find
<1>4. PICK d : d = [c EXCEPT !.pc = "found"]
  OBVIOUS
<1>5. d \in Searching
  BY <1>4 DEF Searching
<1>6. /\ d.pc = "found" /\ d.at = c.at /\ d.results = c.results /\ d.landings = {}
      /\ d.read = c.read /\ d.cited = c.cited /\ d.alone = c.alone
  BY <1>3, <1>4 DEF Searching
<1>7. d.papers = c.papers /\ d.hasPdf = c.hasPdf
  BY <1>4 DEF Searching
<1>8. Seen(d) = Seen(c) /\ Met(d) = Met(c) /\ (HasArticle(d) <=> HasArticle(c))
  BY <1>6 DEF Seen, Met, HasArticle
<1>9. Numbered(d)
  BY <1>2, <1>6, NothingAdded DEF Sound, Taken
<1>10. AttemptOK(d) /\ LimitOK(d)
  BY <1>2, <1>3, <1>6 DEF Sound, AttemptOK, LimitOK
<1>11. CitedOK(d)
  <2>1. PaperLimit(d) = PaperLimit(c) /\ PapersOf(d) = PapersOf(c)
    BY <1>6, <1>7 DEF PaperLimit, PapersOf
  <2> QED BY <1>2, <1>3, <1>6, <1>8, <2>1 DEF Sound, CitedOK
<1>12. LandingsOK(d)
  <2>1. \A l : Attempted(d, l) <=> Attempted(c, l)
    BY <1>6 DEF Attempted
  <2> QED BY <1>2, <1>3, <1>6, <1>8, <2>1 DEF Sound, LandingsOK
<1>13. OnDisk(d)'
  BY <1>2, <1>3, <1>6, DiskStands
<1>14. DOMAIN disk' \subseteq File /\ disk' \in [DOMAIN disk' -> Body]
  BY <1>3, Stays DEF SearchInv
<1>15. Sound(d)
  BY <1>9, <1>10, <1>11, <1>12 DEF Sound
<1> QED BY <1>1, <1>2, <1>3, <1>4, <1>5, <1>6, <1>13, <1>14, <1>15, OneGoesOn

LEMMA BeginSearchStep ==
  ASSUME SearchInv, NEW s \in Searcher, BeginSearch(s)
  PROVE  SearchInv'
<1>1. PICK pages \in SUBSET Page, papers \in SUBSET Paper, hasPdf \in BOOLEAN :
       search' = [t \in Searcher |->
         IF t = s
         THEN [pc |-> "pages", hasPdf |-> hasPdf, left |-> Expanded(pages),
               papers |-> papers, cited |-> {}, landings |-> {}, tries |-> 0,
               at |-> NoUrl, nested |-> 0, held |-> "none", results |-> {},
               count |-> 0, read |-> {},
               alone |-> \A u \in Searcher \ {s} : ~Active(u)]
         ELSE IF Active(t) THEN [search[t] EXCEPT !.alone = FALSE] ELSE NoSearch]
  BY DEF BeginSearch
<1>2. PICK alone \in BOOLEAN : alone = \A u \in Searcher \ {s} : ~Active(u)
  OBVIOUS
<1>3. PICK d : d = [pc |-> "pages", hasPdf |-> hasPdf, left |-> Expanded(pages),
               papers |-> papers, cited |-> {}, landings |-> {}, tries |-> 0,
               at |-> NoUrl, nested |-> 0, held |-> "none", results |-> {},
               count |-> 0, read |-> {}, alone |-> alone]
  OBVIOUS
<1>4. /\ search'[s] = d
      /\ \A t \in Searcher \ {s} : search'[t] =
           IF Active(t) THEN [search[t] EXCEPT !.alone = FALSE] ELSE NoSearch
      /\ DOMAIN search' = Searcher
      /\ search' = [t \in Searcher |-> search'[t]]
  BY <1>1, <1>2, <1>3
<1>5. /\ d.pc = "pages" /\ d.at = NoUrl /\ d.results = {} /\ d.read = {}
      /\ d.tries = 0 /\ d.alone = alone
  BY <1>3
<1>6. d \in Searching
  <2>1. Expanded(pages) \in SUBSET Page
    BY SearchAssumption DEF Expanded
  <2> QED BY <1>3, <2>1 DEF Searching
<1>7. Sound(d)
  <2>1. LimitOK(d)
    <3>1. IsFiniteSet(d.left \cap HtmlPage) /\ Cardinality(d.left \cap HtmlPage) \in Nat
          /\ Cardinality(d.left \cap HtmlPage) <= Cardinality(HtmlPage)
      BY HtmlFirst, FS_Subset, FS_CardinalityType
    <3>2. 0 + Cardinality(d.left \cap HtmlPage) <= MaxPages
      BY <3>1, HtmlFirst, SearchAssumption, FS_CardinalityType
    <3> QED BY <1>5, <3>2 DEF LimitOK
  <2>2. Numbered(d) /\ AttemptOK(d) /\ CitedOK(d) /\ LandingsOK(d)
    BY <1>5 DEF Numbered, AttemptOK, CitedOK, LandingsOK
  <2> QED BY <2>1, <2>2 DEF Sound
<1>8. OnDisk(search[s])' /\ Alone(s)' /\ Sound(search'[s])
  <2>1. OnDisk(search[s])'
    BY <1>4, <1>5 DEF OnDisk
  <2>2. Alone(s)'
    BY <1>2, <1>4, <1>5 DEF Alone, Active
  <2> QED BY <1>4, <1>7, <2>1, <2>2
<1>9. ASSUME NEW t \in Searcher \ {s}, Active(t)'
      PROVE  /\ OnDisk(search[t])' /\ Alone(t)' /\ Sound(search'[t])
             /\ search'[t] \in Searching
  <2>1. Active(t)
    BY <1>4, <1>9 DEF Active
  <2>2. PICK c \in Searching : c = search[t] /\ Sound(c)
    BY <2>1, ActiveSearch
  <2>3. PICK e : e = [c EXCEPT !.alone = FALSE]
    OBVIOUS
  <2>4. search'[t] = e
    BY <1>4, <2>1, <2>2, <2>3
  <2>5. e \in Searching /\ ~e.alone
    BY <2>3 DEF Searching
  <2>6. /\ e.pc = c.pc /\ e.hasPdf = c.hasPdf /\ e.left = c.left
        /\ e.papers = c.papers /\ e.cited = c.cited /\ e.landings = c.landings
    BY <2>3 DEF Searching
  <2>7. /\ e.tries = c.tries /\ e.at = c.at /\ e.held = c.held
        /\ e.results = c.results /\ e.count = c.count /\ e.read = c.read
    BY <2>3 DEF Searching
  <2>8. Numbered(e) /\ AttemptOK(e) /\ LimitOK(e)
    BY <2>2, <2>6, <2>7 DEF Sound, Numbered, Taken, Behind, AttemptOK, LimitOK
  <2>9. CitedOK(e) /\ LandingsOK(e)
    <3>1. Seen(e) = Seen(c) /\ Met(e) = Met(c) /\ (HasArticle(e) <=> HasArticle(c))
      BY <2>7 DEF Seen, Met, HasArticle
    <3>2. PaperLimit(e) = PaperLimit(c) /\ PapersOf(e) = PapersOf(c)
      BY <2>6 DEF PaperLimit, PapersOf
    <3>3. \A l : Attempted(e, l) <=> Attempted(c, l)
      BY <2>7 DEF Attempted
    <3> QED BY <2>2, <2>6, <2>7, <3>1, <3>2, <3>3 DEF Sound, CitedOK, LandingsOK
  <2> QED BY <2>4, <2>5, <2>8, <2>9 DEF OnDisk, Alone, Sound
<1>10. SearchTypeOK'
  <2>1. \A t \in Searcher : search'[t] \in Searching \cup {NoSearch}
    BY <1>4, <1>6, <1>9 DEF Active
  <2>2. search' \in [Searcher -> Searching \cup {NoSearch}]
    BY <1>4, <2>1
  <2> QED BY <2>2 DEF BeginSearch, SearchInv, SearchTypeOK
<1>11. \A t \in Searcher : Active(t)' =>
         Sound(search[t])' /\ OnDisk(search[t])' /\ Alone(t)'
  <2>1. \A t \in Searcher : Sound(search'[t]) => Sound(search[t])'
    BY DEF Sound, Numbered, Taken, Behind, AttemptOK, LimitOK, CitedOK, LandingsOK,
       Attempted, HasArticle, Met, Seen, PapersOf, PaperLimit
  <2> QED BY <1>8, <1>9, <2>1
<1> QED BY <1>10, <1>11 DEF SearchInv

LEMMA SearchInvInit ==
  SearchInit => SearchInv
<1> SUFFICES ASSUME SearchInit PROVE SearchInv
  OBVIOUS
<1>1. SearchTypeOK
  BY DEF SearchInit, SearchTypeOK
<1>2. \A s \in Searcher : ~Active(s)
  BY DEF SearchInit, Active
<1> QED BY <1>1, <1>2 DEF SearchInv

LEMMA SearchInvStep ==
  SearchInv /\ [SearchNext]_uvars => SearchInv'
<1> SUFFICES ASSUME SearchInv, [SearchNext]_uvars PROVE SearchInv'
  OBVIOUS
<1>1. CASE SearchNext
  <2>1. PICK s \in Searcher : Searches(s)
    BY <1>1 DEF SearchNext
  <2>2. CASE BeginSearch(s)
    BY <2>2, BeginSearchStep
  <2>3. CASE TakePage(s)
    BY <2>3, TakePageStep
  <2>4. CASE PageFails(s) \/ PaperFails(s)
    BY <2>4, FailsStep
  <2>5. CASE NamesAnother(s)
    BY <2>5, NamesAnotherStep
  <2>6. CASE ReadPage(s)
    BY <2>6, ReadPageStep
  <2>7. CASE ToPapers(s)
    BY <2>7, ToPapersStep
  <2>8. CASE TakePaper(s)
    BY <2>8, TakePaperStep
  <2>9. CASE WritePaper(s)
    BY <2>9, WritePaperStep
  <2>10. CASE CheckPaper(s)
    BY <2>10, CheckPaperStep
  <2>11. CASE ToLandings(s)
    BY <2>11, ToLandingsStep
  <2>12. CASE Rescue(s)
    BY <2>12, RescueStep
  <2>13. CASE Find(s)
    BY <2>13, FindStep
  <2>14. CASE Attach(s) \/ SearchRaises(s)
    BY <2>14, OneStops DEF Attach, SearchRaises
  <2> QED BY <2>1, <2>2, <2>3, <2>4, <2>5, <2>6, <2>7, <2>8, <2>9, <2>10, <2>11, <2>12,
             <2>13, <2>14 DEF Searches
<1>2. CASE UNCHANGED uvars
  BY <1>2 DEF uvars, SearchInv, SearchTypeOK, Active, Alone, OnDisk, PaperFile, Sound,
     Numbered, Taken, Behind, AttemptOK, LimitOK, CitedOK, LandingsOK,
     Attempted, HasArticle, Met, Seen, PapersOf, PaperLimit
<1> QED BY <1>1, <1>2

(* However many pages and PDFs there are and however they lead to each     *)
(* other: what discover_payload hands on has a file of its own for all it  *)
(* kept, an attempt at all it was told of, and one at the HTML of every    *)
(* arXiv landing if there is no article.                                   *)
THEOREM FoundIsWholeAlways == SearchSpec => []FoundIsWhole
<1>1. SearchSpec => []SearchInv
  BY SearchInvInit, SearchInvStep, PTL DEF SearchSpec
<1>2. SearchInv => FoundIsWhole
  BY FoundSearchIsWhole
<1> QED BY <1>1, <1>2, PTL

(* Every search, its results and the files on the disk keep their types.   *)
THEOREM SearchTypeCorrect == SearchSpec => []SearchTypeOK
<1>1. SearchInv => SearchTypeOK
  BY DEF SearchInv
<1> QED BY <1>1, SearchInvInit, SearchInvStep, PTL DEF SearchSpec
=============================================================================

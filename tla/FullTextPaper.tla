--------------------------- MODULE FullTextPaper ---------------------------
(* One paper on its way to its full text: the full-text, ResearchGate and   *)
(* Sci-Hub jobs of one parent item, the attachments they make through       *)
(* zotero-file-relay, and the clean-up of its source HTML.                  *)
(*                                                                          *)
(* An attachment exists in three places: in the library behind the relay    *)
(* (live until it is trashed), as a row of the local zotero.sqlite, which   *)
(* is all an inventory reads, and as a file of the local storage.  A worker *)
(* decides from the inventory it read when its job began.                   *)
EXTENDS Naturals, Sequences

CONSTANTS Worker,       \* threads, of one or of several containers, that drain,
                        \* scan or clean up
          Html,         \* source HTML documents a provider may return
          Size,         \* [Html -> Nat]: what _source_html_rank reads first
          Pdf,          \* the PDF of the paper
          None,
          MaxKeys,      \* bound: attachments of the parent item
          Row,          \* bound: Sci-Hub rows that differ in their signature
          MaxAttempts,  \* max_attempts of a job
          MaxMishaps,   \* bound: leases that run out
          MaxClaims,    \* bound: claims and clean-ups by hand, all together
          Elsewhere,    \* documents of source HTML the item may begin with
          EarlyRows     \* Zotero brings an attachment's row before its file

(* How an attachment came about, which its deduplication key begins with,   *)
(* and what is known of it.                                                  *)
Ways == {"elsewhere", "full-text-html", "full-text-pdf", "researchgate-pdf"}
Attachment == [dedupe : Ways \X (Html \cup {Pdf}), doc : Html \cup {Pdf},
               live : BOOLEAN, row : BOOLEAN, file : BOOLEAN]

ASSUME PaperAssumption ==
  /\ MaxKeys \in Nat /\ MaxMishaps \in Nat /\ MaxClaims \in Nat
  /\ MaxAttempts \in Nat \ {0}
  /\ Size \in [Html -> Nat] /\ EarlyRows \in BOOLEAN
  /\ Elsewhere \in Seq(Html)
  /\ None \notin Html \cup {Pdf} \cup Worker \cup Attachment

Key == 1..MaxKeys

(* An inventory fingerprint without its counts: has_pdf, has_source_html.   *)
FullText == {"full_text"} \X BOOLEAN \X BOOLEAN
Researchgate == {<<"researchgate">>}
Scihub == { <<"scihub", n>> : n \in Row }
Job == FullText \cup Researchgate \cup Scihub

VARIABLES att,      \* [Key -> None or what is known of the attachment]
          jobs,     \* [Job -> its row of metadata_jobs]
          at,       \* [Worker -> where its thread is]
          mishaps, claims
zvars == <<att, jobs, at, mishaps, claims>>

AbsentJob == [status |-> "absent", attempts |-> 0, holder |-> None, made |-> {}]

(* A drain thread: its job and attempt; of the inventory it read, whether   *)
(* there was a PDF (or it found one since) and the source HTML with and     *)
(* without a file; the HTML to attach, which is given up when another stays; *)
(* the trash requests to make and whether one failed; the attachment the    *)
(* relay named; the result so far and the attachments made.                 *)
Idle == [pc |-> "idle", job |-> None, attempt |-> 0,
         hasPdf |-> FALSE, present |-> {}, missing |-> {},
         html |-> None, todo |-> {}, errors |-> FALSE,
         key |-> 0, result |-> "none", made |-> {}]

-----------------------------------------------------------------------------
(* The inventory: rows of the local database, and whether their files are   *)
(* there.  A PDF counts by its row alone.                                    *)
Attached == { k \in Key : att[k] # None }
IsHtml(k) == att[k].doc \in Html
HtmlRows == { k \in Attached : IsHtml(k) /\ att[k].row }
HasPdf == \E k \in Attached : ~IsHtml(k) /\ att[k].row
Present == { k \in HtmlRows : att[k].file }
Missing == HtmlRows \ Present

(* The inventory as a worker keeps it.                                       *)
Inventory(r) == [r EXCEPT !.hasPdf = HasPdf, !.present = Present,
                          !.missing = Missing]

(* A source HTML a reader can open: in the library, in the database and on  *)
(* the disk.                                                                 *)
Valid(k) == k \in Present /\ att[k].live

(* _source_html_rank: the size of the file as it is now, then the rest of   *)
(* the tuple, for which the key stands.                                      *)
Outranks(i, j) ==
  LET size(k) == IF att[k] # None /\ att[k].file THEN Size[att[k].doc] ELSE 0
  IN  size(i) > size(j) \/ (size(i) = size(j) /\ i > j)

(* Mutant: the order is turned round and the smallest stays.                *)
KeepSmallest(present) ==
  { k \in present : \A j \in present \ {k} : Outranks(j, k) }

(* _source_html_keep_key, of the attachments whose file was there when the  *)
(* inventory was read.                                                       *)
KeepKey(present) ==
  { k \in present : \A j \in present \ {k} : Outranks(k, j) }

(* _should_trash_source_html                                                 *)
TrashList(present, missing) ==
  missing \cup IF KeepKey(present) = {} THEN {} ELSE present \ KeepKey(present)

-----------------------------------------------------------------------------
(* The queue, as far as this item goes.                                      *)
Holds(w) == LET j == at[w].job IN
  /\ jobs[j].status = "running" /\ jobs[j].holder = w
  /\ jobs[j].attempts = at[w].attempt

(* get_metadata_job_by_parent_scope looks through a skipped row; the key of  *)
(* a new one holds the signature of zotero.sqlite, and only for Sci-Hub the  *)
(* rows are told apart: of the others the new row takes the place of the old.*)
Known(j) == jobs[j].status \notin {"absent", "skipped"}

Queued(j) == [jobs EXCEPT ![j] = [AbsentJob EXCEPT !.status = "queued"]]

Step(w, r) == at' = [at EXCEPT ![w] = r]

(* Mutant: a report leaves the lease with its worker.                       *)
ReportKeepingOwner(w, status, made) ==
  /\ jobs' = IF ~Holds(w) THEN jobs
             ELSE [jobs EXCEPT ![at[w].job].status = status,
                               ![at[w].job].made = made]
  /\ Step(w, Idle)

(* The terminal call of a worker: fenced by the owner and the attempt.      *)
Report(w, status, made) ==
  /\ jobs' = IF ~Holds(w) THEN jobs
             ELSE [jobs EXCEPT ![at[w].job] =
                    [jobs[at[w].job] EXCEPT !.status = status, !.holder = None,
                                            !.made = made]]
  /\ Step(w, Idle)

Succeed(w, made) == Report(w, "succeeded", made)

Exhausted(w) == at[w].attempt >= MaxAttempts

RetryableFailure(w) ==
  Report(w, IF Exhausted(w) THEN "failed_final" ELSE "failed_retryable", {})

(* No PDF was found or attached: ResearchGate fails for good or for now ...  *)
ResearchgateFails(w, again) ==
  IF again THEN RetryableFailure(w) ELSE Report(w, "failed_final", {})

(* ... and Sci-Hub turns to the next candidate or, when none is left, is     *)
(* skipped unless trying again can help and is allowed.                      *)
ScihubFails(w, again) ==
  \/ UNCHANGED jobs /\ Step(w, [at[w] EXCEPT !.pc = "preflight", !.key = 0])
  \/ IF again /\ ~Exhausted(w) THEN RetryableFailure(w) ELSE Report(w, "skipped", {})

FallbackFails(w, again) ==
  IF at[w].job \in Researchgate THEN ResearchgateFails(w, again)
  ELSE ScihubFails(w, again)

Claim(w, j) ==
  /\ at[w].pc = "idle" /\ claims < MaxClaims /\ claims' = claims + 1
  /\ jobs[j].status \in {"queued", "failed_retryable"}
  /\ jobs' = [jobs EXCEPT ![j] =
                [jobs[j] EXCEPT !.status = "running", !.holder = w,
                                !.attempts = jobs[j].attempts + 1]]
  /\ LET r == [Idle EXCEPT !.job = j, !.attempt = jobs[j].attempts + 1] IN
     Step(w, IF j \in FullText THEN Inventory([r EXCEPT !.pc = "discover"])
             ELSE [r EXCEPT !.pc = "preflight"])
  /\ UNCHANGED <<att, mishaps>>

(* ensure_active: the heartbeat may have found the lease lost, or may not   *)
(* have looked yet; found lost, the work ends and nothing is written.       *)
LeaseFoundLost(w) ==
  /\ at[w].job # None /\ ~Holds(w)
  /\ at[w].pc \in {"discover", "trash", "pdf", "download"}
  /\ Step(w, Idle)
  /\ UNCHANGED <<att, jobs, mishaps, claims>>

(* A lease runs out and the job goes back to the queue.  Its worker may be  *)
(* dead, which is to take no further step, or slow, and go on until its     *)
(* next ensure_active or terminal call.                                      *)
Expire(j) ==
  /\ jobs[j].status = "running"
  /\ mishaps < MaxMishaps /\ mishaps' = mishaps + 1
  /\ jobs' = [jobs EXCEPT ![j] =
       [jobs[j] EXCEPT !.holder = None,
          !.status = IF jobs[j].attempts < MaxAttempts THEN "queued"
                     ELSE "failed_final"]]
  /\ UNCHANGED <<att, at, claims>>

-----------------------------------------------------------------------------
(* Scans of the library, and what Zotero itself does.                        *)

FullTextBacklogScan ==
  LET j == <<"full_text", HasPdf, Present # {}>> IN
  /\ claims < MaxClaims /\ ~(HasPdf /\ Present # {})
  /\ ~Known(j)
  /\ jobs' = Queued(j)
  /\ UNCHANGED <<att, at, mishaps, claims>>

(* get_metadata_job_by_parent_scope, in a transaction of its own, and then,  *)
(* as for the fallback of a full-text job, EnqueueScihub.                     *)
ScihubBacklogScan(w) ==
  /\ at[w].pc = "idle" /\ claims < MaxClaims /\ ~HasPdf
  /\ \A j \in Scihub : ~Known(j)
  /\ Step(w, [Idle EXCEPT !.pc = "insert"])
  /\ UNCHANGED <<att, jobs, mishaps, claims>>

(* Zotero enters the attachment into the local database, and may have to    *)
(* fetch its file later.                                                     *)
ZoteroSyncs(k) ==
  /\ k \in Attached /\ att[k].live /\ (att[k].file \/ EarlyRows)
  /\ \E file \in IF EarlyRows THEN {att[k].file, TRUE} ELSE {att[k].file} :
       att' = [att EXCEPT ![k] = [att[k] EXCEPT !.row = TRUE, !.file = file]]
  /\ UNCHANGED <<jobs, at, mishaps, claims>>

ZoteroDropsTrashed(k) ==
  /\ k \in Attached /\ ~att[k].live /\ att[k].row
  /\ att' = [att EXCEPT ![k] = [att[k] EXCEPT !.row = FALSE, !.file = FALSE]]
  /\ UNCHANGED <<jobs, at, mishaps, claims>>

-----------------------------------------------------------------------------
(* The relay.  It is asked again when an answer is lost, whether or not the *)
(* request was carried out, and knows a request by its deduplication key.   *)

Via(w) == IF at[w].job \notin FullText THEN "researchgate-pdf"
          ELSE IF at[w].html # None THEN "full-text-html" ELSE "full-text-pdf"

Doc(w) == IF at[w].html # None THEN at[w].html ELSE Pdf

(* Mutant: the key holds the attempt, so that a retry is another request.   *)
KeyOfAttempt(w) == <<Via(w), Doc(w), at[w].attempt>>

DeduplicationKey(w) == <<Via(w), Doc(w)>>

(* The external service: the attachment of that key, or a new one.          *)
RelayCreates(w, k) ==
  LET same == { i \in Attached : att[i].live /\ att[i].dedupe = DeduplicationKey(w) }
  IN IF same # {} THEN k \in same /\ UNCHANGED att
     ELSE /\ k \in Key \ Attached /\ \A i \in Key \ Attached : k <= i
          /\ att' = [att EXCEPT ![k] =
               [dedupe |-> DeduplicationKey(w), doc |-> Doc(w), live |-> TRUE,
                row |-> FALSE, file |-> FALSE]]

(* The result of attach: whether the job did what it could.                 *)
AttachOk(html, pdf) ==
  html = "ok" \/ pdf = "ok" \/ (html = "none" /\ pdf = "none")

Result(ok) == IF ok THEN "ok" ELSE "failed"

(* What follows an attachment, made or not: after the source HTML the PDF,  *)
(* after the PDF the fallback queues; a fallback job ends.  A failure of    *)
(* the relay or of the copy is a result for a full-text job, an exception    *)
(* for the others, and a row that cannot be written a result for these.      *)
AfterHtml(r, result) ==
  [Idle EXCEPT !.job = r.job, !.attempt = r.attempt, !.hasPdf = r.hasPdf,
               !.pc = "pdf", !.result = result, !.made = r.made]

AfterPdf(r, result) ==
  [r EXCEPT !.pc = "fallback", !.key = 0,
            !.result = Result(AttachOk(r.result, result))]

AttachEnds(w, ok) ==
  LET r == [at[w] EXCEPT !.made = IF ok THEN at[w].made \cup {at[w].key}
                                       ELSE at[w].made] IN
  IF at[w].job \notin FullText
  THEN IF ok THEN Succeed(w, r.made) ELSE RetryableFailure(w) \/ FallbackFails(w, TRUE)
  ELSE /\ UNCHANGED jobs
       /\ Step(w, IF at[w].html # None THEN AfterHtml(r, Result(ok))
                  ELSE AfterPdf(r, Result(ok)))

(* One request: carried out or not, answered or not; after a transient      *)
(* failure it is sent again, until the client has tried often enough.  A    *)
(* fallback job fails for good when the relay has no access configured, and *)
(* is skipped when the library has no binding.                               *)
Send(w) ==
  /\ at[w].pc = "send"
  /\ \/ \E k \in Key : RelayCreates(w, k)
                      /\ Step(w, [at[w] EXCEPT !.pc = "copy", !.key = k])
                      /\ UNCHANGED jobs
     \/ /\ UNCHANGED att \/ \E k \in Key : RelayCreates(w, k)
        /\ \/ UNCHANGED <<at, jobs>>
           \/ AttachEnds(w, FALSE)
     \/ /\ at[w].job \notin FullText /\ UNCHANGED att
        /\ \E status \in {"failed_final", "skipped"} : Report(w, status, {})
  /\ UNCHANGED <<mishaps, claims>>

(* sync_parent_attachment_local: the row of the database, left to Zotero    *)
(* when its desktop runs or a sibling has the file name.                    *)
RowWritten(k, row) ==
  [att EXCEPT ![k] = [att[k] EXCEPT !.file = TRUE, !.row = att[k].row \/ row]]

(* Mutant: an attachment whose file could not be written counts as made.    *)
CopyAlwaysOk(w) ==
  LET k == at[w].key IN
  /\ at[w].pc = "copy"
  /\ \/ \E row \in BOOLEAN : att' = RowWritten(k, row)
     \/ UNCHANGED att
  /\ AttachEnds(w, TRUE)
  /\ UNCHANGED <<mishaps, claims>>

(* write_parent_attachment_local_copy, then the row.  A copy that is there  *)
(* already is taken.  A fallback job fails when the row cannot be written, a *)
(* full-text job when OCR or translation cannot be asked for.               *)
Copy(w) ==
  LET k == at[w].key IN
  /\ at[w].pc = "copy"
  /\ \/ /\ \E row \in BOOLEAN : att' = RowWritten(k, row)
        /\ AttachEnds(w, TRUE)
     \/ /\ \E row \in BOOLEAN : /\ row => at[w].job \in FullText
                               /\ att' = RowWritten(k, row)
        /\ AttachEnds(w, FALSE)
     \/ UNCHANGED att /\ AttachEnds(w, FALSE)
  /\ UNCHANGED <<mishaps, claims>>

-----------------------------------------------------------------------------
(* The full-text job: discover, clean up and attach HTML, attach the PDF,   *)
(* queue the fallbacks, report.                                             *)

CleanUp(r) ==
  [r EXCEPT !.pc = "trash", !.todo = TrashList(r.present, r.missing),
            !.html = IF KeepKey(r.present) = {} THEN r.html ELSE None,
            !.present = {}, !.missing = {}]

(* Discovery, then attach and its clean-up up to the first trash request:   *)
(* what to keep is decided here from the inventory of the job's start.      *)
Discover(w) ==
  /\ at[w].pc = "discover"
  /\ \/ /\ \/ \E html \in Html : Step(w, CleanUp([at[w] EXCEPT !.html = html]))
           \/ Step(w, AfterHtml(at[w], "none"))
        /\ UNCHANGED jobs
     \/ RetryableFailure(w) \/ Report(w, "failed_final", {})
  /\ UNCHANGED <<att, mishaps, claims>>

(* One trash request of the clean-up; an error spoils the clean-up, whose   *)
(* other candidates are still tried.                                        *)
Trash(w) ==
  /\ at[w].pc = "trash"
  /\ \E k \in at[w].todo :
       /\ \E carried, answered \in BOOLEAN :
            /\ att' = IF carried /\ att[k] # None
                      THEN [att EXCEPT ![k] = [att[k] EXCEPT !.live = FALSE]]
                      ELSE att
            /\ Step(w, [at[w] EXCEPT !.todo = at[w].todo \ {k},
              !.errors = at[w].errors
                         \/ (at[w].job # None /\ ~(carried /\ answered))])
  /\ UNCHANGED <<jobs, mishaps, claims>>

(* The clean-up is over: a failed one attaches nothing, a kept source HTML  *)
(* stands for the new one.                                                  *)
AfterTrash(w) ==
  /\ at[w].pc = "trash" /\ at[w].todo = {}
  /\ Step(w, IF at[w].job = None THEN Idle
             ELSE IF at[w].errors THEN AfterHtml(at[w], "failed")
             ELSE IF at[w].html = None THEN AfterHtml(at[w], "ok")
             ELSE [at[w] EXCEPT !.pc = "send"])
  /\ UNCHANGED <<att, jobs, mishaps, claims>>

(* The PDF discovery found, if any: a paper that has one is asked for none  *)
(* (pdf_download_limit).                                                     *)
AttachPdf(w) ==
  /\ at[w].pc = "pdf"
  /\ \/ ~at[w].hasPdf /\ Step(w, [at[w] EXCEPT !.pc = "send", !.hasPdf = TRUE])
     \/ Step(w, AfterPdf(at[w], "none"))
  /\ UNCHANGED <<att, jobs, mishaps, claims>>

(* source-html-cleanup, the command of the operator, for this item.         *)
SourceHtmlCleanup(w) ==
  /\ at[w].pc = "idle" /\ claims < MaxClaims /\ claims' = claims + 1
  /\ TrashList(Present, Missing) # {}
  /\ Step(w, [CleanUp(Inventory(Idle)) EXCEPT !.hasPdf = FALSE])
  /\ UNCHANGED <<att, jobs, mishaps>>

AtReport(r) == [r EXCEPT !.pc = "report", !.hasPdf = FALSE]

(* A page only a browser can open is left to ResearchGate; without one      *)
(* Sci-Hub is asked, unless there was a PDF or one was found.               *)
EnqueueResearchgate(w) ==
  /\ at[w].pc = "fallback"
  /\ \E j \in Researchgate :
       jobs' \in IF Known(j) THEN {jobs} ELSE {Queued(j)} \cup
                  IF jobs[j].status = "absent" THEN {} ELSE {jobs}
  /\ Step(w, AtReport(at[w]))
  /\ UNCHANGED <<att, mishaps, claims>>

LookupScihub(w) ==
  /\ at[w].pc = "fallback"
  /\ Step(w, IF ~at[w].hasPdf /\ \A j \in Scihub : ~Known(j)
             THEN [at[w] EXCEPT !.pc = "insert"] ELSE AtReport(at[w]))
  /\ UNCHANGED <<att, jobs, mishaps, claims>>

(* enqueue_metadata_job: its key holds the signature of zotero.sqlite as it  *)
(* is now, and finds the row of that signature or makes a new one.           *)
EnqueueScihub(w) ==
  /\ at[w].pc = "insert"
  /\ \E j \in Scihub :
       jobs' = IF jobs[j].status = "absent" THEN Queued(j) ELSE jobs
  /\ Step(w, IF at[w].job = None THEN Idle ELSE AtReport(at[w]))
  /\ UNCHANGED <<att, mishaps, claims>>

FallbackRaises(w) ==
  /\ at[w].pc \in {"fallback", "insert"} /\ at[w].job # None
  /\ RetryableFailure(w)
  /\ UNCHANGED <<att, mishaps, claims>>

FinishFullText(w) ==
  /\ at[w].pc = "report"
  /\ IF at[w].result = "ok" THEN Succeed(w, at[w].made) ELSE RetryableFailure(w)
  /\ UNCHANGED <<att, mishaps, claims>>

-----------------------------------------------------------------------------
(* The ResearchGate and Sci-Hub jobs: look, download, look again, attach.   *)

Preflight(w) ==
  /\ at[w].pc = "preflight"
  /\ IF HasPdf THEN Succeed(w, {})
     ELSE UNCHANGED jobs /\ Step(w, [at[w] EXCEPT !.pc = "download"])
  /\ UNCHANGED <<att, mishaps, claims>>

(* attach_pdf_to_zotero_parent reads the inventory of its own.              *)
Reread(w) ==
  IF HasPdf THEN Succeed(w, {})
  ELSE UNCHANGED jobs /\ Step(w, [at[w] EXCEPT !.pc = "send"])

Download(w) ==
  /\ at[w].pc = "download"
  /\ \/ Reread(w)
     \/ \E again \in BOOLEAN : FallbackFails(w, again)
  /\ UNCHANGED <<att, mishaps, claims>>
-----------------------------------------------------------------------------
Work(w) ==
  \/ Discover(w) \/ AttachPdf(w) \/ Trash(w) \/ AfterTrash(w) \/ Send(w) \/ Copy(w)
  \/ EnqueueResearchgate(w) \/ LookupScihub(w) \/ EnqueueScihub(w)
  \/ FallbackRaises(w) \/ FinishFullText(w) \/ Preflight(w) \/ Download(w)
  \/ \E j \in Job : Claim(w, j)

PaperNext ==
  \/ \E w \in Worker : Work(w) \/ LeaseFoundLost(w) \/ ScihubBacklogScan(w)
                    \/ SourceHtmlCleanup(w)
  \/ \E j \in Job : Expire(j)
  \/ FullTextBacklogScan
  \/ \E k \in Key : ZoteroSyncs(k) \/ ZoteroDropsTrashed(k)

(* The item is new, or has source HTML from elsewhere, whose files may      *)
(* never have come to this machine.                                         *)
PaperInit ==
  /\ \E n \in {0, Len(Elsewhere)} : \E file \in [1..n -> BOOLEAN] :
       att = [k \in Key |-> IF k > n THEN None
                ELSE [dedupe |-> <<"elsewhere", Elsewhere[k]>>, doc |-> Elsewhere[k],
                      live |-> TRUE, row |-> TRUE, file |-> file[k]]]
  /\ jobs = [j \in Job |-> AbsentJob]
  /\ at = [w \in Worker |-> Idle]
  /\ mishaps = 0 /\ claims = 0

PaperSpec == PaperInit /\ [][PaperNext]_zvars
-----------------------------------------------------------------------------
(* Types of the state of one paper: a job is held exactly while it runs, and *)
(* only known attachments are trashed or copied.                            *)
PaperTypeOK ==
  /\ att \in [Key -> {None} \cup Attachment]
  /\ mishaps \in 0..MaxMishaps
  /\ \A j \in Job :
       /\ jobs[j].attempts \in 0..MaxAttempts /\ jobs[j].made \subseteq Attached
       /\ jobs[j].status = "running" <=> jobs[j].holder \in Worker
  /\ \A w \in Worker :
       /\ \A k \in at[w].todo : k \in Attached /\ IsHtml(k)
       /\ at[w].pc = "copy" => at[w].key \in Attached

(* The clean-ups of several workers, each from an inventory of its own and  *)
(* of its own age, never remove the last source HTML a reader can open      *)
(* (source_html_maintenance.py: duplicates go, the largest stays).          *)
HtmlKept ==
  [][ (\E k \in Key : Valid(k)) => (\E k \in Key : Valid(k))' ]_zvars

(* What a succeeded job reports as attached is in the library with its file *)
(* on the disk, whatever became of its lease and its retries; a source HTML *)
(* may have given way to another.                                           *)
Delivered ==
  \A j \in Job : jobs[j].status = "succeeded" =>
    \A k \in jobs[j].made :
      IF att[k].live THEN att[k].file ELSE IsHtml(k) /\ \E i \in Key : Valid(i)

(* A document is attached once for each way it is found, although requests  *)
(* are sent again, jobs retried and leases lost (relay_client.py).          *)
OneCopyPerSource ==
  \A i, k \in Attached :
    att[i].live /\ att[k].live /\ att[i].doc = att[k].doc
    /\ att[i].dedupe[1] = att[k].dedupe[1] => i = k
=============================================================================

# A verification model of the Zotero ingest worker

The modules in this directory model the parts of `zotero_ingest_worker` where
several threads, processes and lifetimes meet: the job queues in SQLite and the
workers that drain them, the ingest runs that decide what is drained, the papers,
files and directories those workers publish, and the commands that repair them.
TLC checks the modules on small instances; TLAPS proves most of the properties
for instances of any size.

Paths below are relative to `src/zotero_ingest_worker/` unless they start with
`src/`. `PROJECT.json` maps each definition to the lines it models and lists
the hazards, each with the line where it bites and the properties that cover it.

1. The system
2. The modules
3. The runs
4. Where code and comments part
5. What is proved
6. What is only model-checked, and what is not modelled
7. Plan

## 1. The system

Two containers (an ingest worker that serves the controller API, an OCR worker)
and a number of scripts share a SQLite file, the storage directory of Zotero with
its database, article package directories, and a relay that talks to the Zotero
library. There is no lock service and no message queue. Every store method opens
a connection of its own (`state.py`, `_connect`, `busy_timeout` 30 s) and runs one
transaction, or two.

| component | state | operations | module |
|---|---|---|---|
| metadata job queue (`state.py`, `metadata_jobs`) | a row per document version and job type: status, attempts, lease owner and expiry; an event table | enqueue, sweep of expired leases, orphan sweep, lease, reports, heartbeat, retry, cancel | MetadataQueue |
| drain workers (`metadata_processor.py`) | per thread: the leased job, a heartbeat thread, a "lease lost" flag; per drain: a slot counter | sweep, lease, probe, handle, check lease, write to Zotero, report | MetadataDrain, LeaseQueue |
| handlers of full-text, ResearchGate and Sci-Hub jobs, scans, clean-up of source HTML | the attachments of an item in the library, the database and the storage | discover, trash, attach, copy, enqueue fallbacks | FullTextPaper |
| handlers of enrich and arXiv jobs (`metadata_processor.py`, `local_attachment_sync.py`) | the parent on the server, the relay's memory, the mirror in `zotero.sqlite` | ensure a parent, patch, write the mirror, attach a sibling | EnrichItem |
| embedding (`full_text_attachment.py`) | an HTML file, its assets, snapshots | fingerprint, list, read, compare, rewrite, publish | EmbeddedHtml |
| local attachments (`local_attachment_sync.py`, `full_text_attachment.py`) | a file of the storage, claims, backups | claim by rename, check, link, restore | LocalCopy |
| article packages (`article_standard.py`) | staging, package and backup directories | recover, stage, publish by two renames, roll back | ArticlePackage |
| ingest runs (`full_run.py`, `full_runs`) | a row per run; per process: active run, stop event, controller and heartbeat thread | start, take over a dead run, heartbeat, stop, finish | FullRun |
| ingest run loop (`full_run.py`, `full_run_plan.py`) | summaries read, idle cycles, "backlog scanned" | intake, read five summaries, drain, wait, count idle cycles | IngestLoop |
| drain script (`src/scripts/drains/full_text_compact.py`) | a coordinator with reserved capacity and totals; per thread a batch | reserve, drain a batch, complete, record; the dynamic supervisor | CompactDrain |
| OCR and HTML job queues (`state.py`) | like the metadata queue, fenced by owner only; deferrals | lease, report, heartbeat, defer, requeue | FileJobQueue |
| event history (`state.py`) | event tables, result columns, time of the next maintenance | prune in batches, compact | StateHistory |
| repolish command (`src/scripts/bulk_repolish_source_html.py`) | results file, copies of originals | hash, polish, upload, put in place, enter the row, resume | Repolish |
| audit clean-up (`src/scripts/source_html_audit_cleanup.py`) | claims and the quarantine | trash, mark, claim by rename, copy, publish, remove, undo | StorageQuarantine |
| search for sources (`html_sources.py`, `pdf_sources.py` of the metadata library, `full_text_article.py`) | per search: pages and PDFs left, attempts, results; a directory per item | probe pages in order, follow to other pages, write and check PDFs, ask for arXiv HTML | SourceSearch |
| saved pages (`html_sources.py`) | files known by URL, a number, a byte count, stylesheets being saved one within another | reuse, download, rewrite, write | SnapshotAssets |
| requests to providers (`safe_http.py`, `provider_http.py` of the metadata library) | per process: a throttle with the last slot and the silence of each host; per thread a request | look up, wait for a slot, dial, redirect, announce a silence | ProviderHttp |
| browser download with policy and proxy (`src/scripts/providers/…`, `browser_network_policy.py`, `safe_connect_proxy.py`) | a browser context, its requests, a proxy | guard, go online, decide, look up, dial, download, tear down | BrowserDownload |

What is hard about it:

* **Time of check, time of use.** A store method reads its clock, and some
  methods read rows, before the transaction that acts on them gets the write
  lock. A worker decides from the inventory its job began with. A path is looked
  at and then renamed or removed.
* **Leases.** A worker may be slow rather than dead. Its lease expires, the job
  goes to somebody else, and then it writes and reports.
* **Lost answers.** A relay request is sent again after a timeout although the
  first one may have been carried out; the relay remembers replies.
* **Crashes.** A process dies with jobs leased, with a run claimed and no
  controller yet, between two renames, with a folder under a claim name.
* **Decisions from several reads.** A run takes itself to be complete from five
  summaries read in five transactions, while handlers create new jobs. A source
  HTML and its assets are read one file after another while others write them.
* **Shared limits.** The threads of the drain script share one limit and two
  thresholds through three lock sections per batch. All threads of a process share
  a throttle per host and sleep outside its lock. Stylesheets that are saved one
  within another share a number and a byte count.
* **Shared directories.** A search that lost its job goes on writing where the next
  search of the item writes.

What makes each component correct is what its properties say; they are listed
with the theorems in section 5.

## 2. The modules

```
LeaseQueue <--- implemented by --- MetadataDrain --- extends ---> MetadataQueue
FullRun   IngestLoop   CompactDrain
FullTextPaper   EnrichItem   EmbeddedHtml   LocalCopy   ArticlePackage
FileJobQueue   StateHistory
Repolish   StorageQuarantine   BrowserDownload
SourceSearch   SnapshotAssets   ProviderHttp

MCMetadataQueue    MetadataQueue, EnrichItem, Repolish, StorageQuarantine,
                   BrowserDownload, ProviderHttp
MCSharedState      FileJobQueue, StateHistory, ArticlePackage, LocalCopy, EmbeddedHtml
MCMetadataDrain    MetadataDrain           MCFullRun      FullRun
MCFullTextDrain    FullTextPaper, CompactDrain, SourceSearch, SnapshotAssets
MCIngestLoop       IngestLoop              MCEnrichItem, MCFullTextPaper

MetadataQueueProofs   MetadataQueue, MetadataDrain
FullRunProofs         FullRun, IngestLoop
SharedStateProofs     FileJobQueue, StateHistory, LocalCopy, EmbeddedHtml
CommandProofs         BrowserDownload, StorageQuarantine, Repolish, EnrichItem, ProviderHttp
FullTextPaperProofs   FullTextPaper, CompactDrain, SnapshotAssets, SourceSearch
FiniteSums            facts about least numbers and sums over finite sets

ArticlePackageInvariant       the inductive invariant of ArticlePackage
ArticlePackageProofs          types, structure, ages, and a call by itself
ArticlePackageOverlapProofs   two calls that overlap, and the theorems
```

`MC*.tla` give model values, symmetry, views and named bounds; each `.cfg` is one
run. Where an MC module extends several components that share no state, a variable
`area` says which one moves: the state space is then the sum of theirs and not
the product, and nothing is lost, since no action of one reads the other.

**MetadataQueue.** One action per transaction. A method that reads before it
writes is two actions: the first stores in `calls[c]` what thread `c` has seen, the
second is the transaction (`SweepSelect`/`SweepUpdate`, `ReapSelect`/`ReapUpdate`,
`EnqueueLookup`/`EnqueueInsert`/`EnqueueConflict`, `ReportBegin`/`ReportAccepted`/
`ReportDiscarded`). `lease_next_metadata_job` is a sweep followed by a claim whose
clock lies anywhere between the call and the commit. `AbandonCall` is a thread that
dies, or a store error: SQLite rolls back. `trail` keeps of the event table what
can be compared with the row; `granted` remembers every lease token ever returned,
so that `Next` lets any thread present any of them at any time: the worst callers
there can be. `recover_orphaned_metadata_jobs` has no caller here but the tests; it
is an operation of the store, and no drain performs it.

**MetadataDrain, LeaseQueue.** The steps of the queue with the bookkeeping of the
drains conjoined: `LeaseStart` ... `ReportStale` follow `_drain_leased_job`, `Beat*`
follow `_heartbeat_metadata_job_until_stopped`. The handlers are one: look at the
lost-lease flag, then write a stretch of up to `MaxStretch` times without another look,
again and again (`CheckLease`, `WriteZotero`, `StretchEnds`), then report. A stretch is
what the code does behind one look: enrichment sends a patch, which the relay client may
send three times (`relay_client.py:84`), and updates the mirror
(`metadata_processor.py:1264-1316`); an attachment is created, copied to the storage and
entered in the mirror (`full_text_attachment.py:293-380`, `586-667`). A heartbeat thread
that is inside its call when the job ends lives on (the join gives up after a second),
and may hit the next claim; the worker's next lease is granted while the late call is
open, its next probe is not (`ProbeSend` is in this a little stricter than the code,
where a call may outlast both). `Crash` ends a process with all its threads. `LeaseQueue`
has no clock, lease, attempt or budget: a job is claimed by one worker at a time and
an outcome is the report of the holder of the latest claim. `ReportsComeFromHolder`
is `Abstract!Spec` under the refinement mapping in `MetadataDrain`. `PromptReread`
names the assumption that `lease_next` returns within the lease.

**FullRun.** A manager per process, a controller and a heartbeat thread per run;
time is the age of a row's heartbeat. `start()` is `Claim` (the immediate
transaction, under the lock) and `StartThread` or `StartThreadFails`; `stop()` is
`StopRequest`, `StopCompare` and `StopSet`, separate because no lock is held.
Nothing is assumed of how long a cycle works or when a `start()` falls between the steps
of a `stop()`.
`LateControllerIsLast` and `StopReachesItsRun` say what holds all the same: two
controllers work together only while one of them, which has lost its heartbeat and its
row, is in its last cycle; and a run that nobody asked to stop is stopped only if it
was started between the two steps of a `stop()` of an earlier run (`raced`). The
stronger promises are `OneController` and `StopsOnlyOnRequest`, which section 4 refutes.
That a working heartbeat thread
beats within the stale time is a fact of the constants (every 30 s, waits at most
30 s for the database).

**IngestLoop.** The loop of `_run` over five queues with every drain enabled. A run has
its `idle_cycles_to_complete` and the types whose drains refuse it (`options`):
`_drain_queue` returns before its sweep and its first lease when `require_relay`, its
default, meets an empty `ZOTERO_RELAY_URL` (`RelayMissing`, `DrainRefused`; the arXiv
drain only with `arxiv_html_attach`). A job
is queued, running under a lease that is renewed or has lapsed, or settled. Each
summary is a read of its own. Other processes lease, report, enqueue fallback jobs
and die meanwhile. Intake by others and the operator's retries are left out: after
them the queues are not idle whatever the run has read, so `CompleteIsQuiet` would
say nothing about the loop.

**CompactDrain.** The single loop, the threads of the parallel pool and the dynamic
supervisor, over one `coord` and a slot per thread. Reserving, giving back and
recording are separate actions, because each takes the lock for itself. The queue is
two numbers that other processes change (`QueueChanges`). A batch that raises ends
its thread, or in the dynamic pool the supervisor once it collects the future.

**FullTextPaper.** One parent item. An attachment exists in the library (live until
trashed), as a row of `zotero.sqlite`, and as a file; an inventory reads rows and
files. A worker's record is what its handler has in local variables: the inventory of
the start of its job, the list to trash, what the relay answered. A relay request may
be carried out or not whatever the worker hears. Scans, the operator's clean-up,
lapsed leases and Zotero's sync run beside the workers. The death of a worker is that
it takes no further step. `EarlyRows` lets Zotero enter rows before it has fetched
their files.

**EnrichItem.** Enrich and arXiv handlers on one PDF: the parent's versions on the
server, the relay's remembered replies, the mirror and its version, with the user and
Zotero Desktop changing both sides. Any thread may try at any time, as after a lapsed
lease; what the providers find is any value.

**EmbeddedHtml.** `past` is the sequence of what was on disk, so that "one moment" can
be said. A fingerprint (bytes, inode, change time) never comes back once a file has
been written again, hence it is the number of the write. Writers replace files, or
the package directory that holds them, at any time, and snapshots can be damaged.

**LocalCopy.** Three operations that write one file of the storage, beside each other
and Zotero. A file stands for its device and inode, `Content` gives its bytes. Claims
and staging copies have names nobody else uses, so steps on them are merged with
their neighbours.

**ArticlePackage.** A tree stands for its device and inode. Recovery, staging,
promotion by two renames, verification, rollback and the owned removal through a
claim are followed step by step; `shutil.rmtree` is two steps, the tear and the
removal of the path. Contents are one bit, complete or not. Every look, rename and
removal can fail. A failed look makes a backup, the package or a tree about to be
moved seem to be missing, foreign or incomplete (`Misread*`), since
`_article_package_tree_complete` and `_path_device_inode` swallow the error; a failed
rename ends the call (`RecoveryFails`); in the promotion both lead to the rollback
(`ReadFails`), which has failures of its own (`UndoFails`, `RollbackFails`), and a
removal fails before or after it tore the tree (`RemovalFails`, `TidyFails`).
`hindered` remembers the calls in whose recovery or rollback a look or a rename failed,
`unrolled` that a rollback could not remove the tree it had published: the two things
that the properties except, because the code does then what they exclude (section 4).

**FileJobQueue.** Both tables with the same lease protocol. Reports are fenced by the
owner and not by the attempt; the workers are programs outside this repository, of
which the module assumes that an owner is one sequential worker. Watched files and
problem documents have no caller and are left out.

**StateHistory.** Events, the maintenance that every queue transaction does when it is
due, the same on request, and compaction from rows read before the write lock. One
event table stands for the four that are pruned by the same statement.

**Repolish, StorageQuarantine, BrowserDownload.** The three commands, each as
processes that may be killed between any two steps, run twice, and beside Zotero, the
user or the pages a browser restores. The relay of `Repolish` compares the expected
version and hash with the newest version (it is not in this repository). Polishing is
deterministic and changes nothing the second time. In `BrowserDownload` a name may
answer another address each time, and the policy is asked for redirected requests
too, as Playwright's routing does.

**SourceSearch.** What `FullTextPaper` sees as the outcome of a search. `TakePage` to
`ReadPage` are `download_html_sources` with the page that another one names in its
place (`NamesAnother`); `TakePaper` to `CheckPaper` write a PDF, look at it and remove
it again; `Rescue` asks for the HTML of arXiv landings that no attempt was made at.
The places to look at, where a URL leads and what a page names are constants or any
value; what makes a page the article is any verdict. A searcher may be overtaken by
the next one in the same directory (`alone` remembers whether it was).

**SnapshotAssets.** `SnapshotAssetDownloader.fetch` calls itself for what a stylesheet
refers to; `stack` is the page and the sheets open within each other. A sheet has its
number and its bytes counted when it is opened and is known only when it is closed.

**ProviderHttp.** Every request to a provider: `Resolve` with all the addresses of the
name, `TakeSlot`, `Wake` for the loop of `HostThrottle.wait` with its sleep outside
the lock, `DialPinned`, and `Finish`, `Redirect` or `Refuse`; `Report` is
`provider_http_event`, which registers the silence a second time. `hushed` keeps the
latest silence asked for.

## 3. The runs

| run | shows |
|---|---|
| `queue_one_job` | `TypesOK`; `TrailWithinBudget`, `LiveLeaseKept`, `SettledStaysSettled` of the queue; `MirrorQuotesServer` (EnrichItem), `RecordedIsDone` (Repolish), `FolderKept` (StorageQuarantine), `ReachedIsAllowed` (BrowserDownload), `RequestsSound` (ProviderHttp) |
| `shared_state` | `SharedTypeOK`; `LeasesWithinBudget`, `FencedReports` (FileJobQueue); `ResultIsNewest`, `NewestEventsKept` (StateHistory); `NeverLost`, `CallRepairs`, `SupersededStaysGone` (ArticlePackage); `FileKept` (LocalCopy); `SentIsWhole` (EmbeddedHtml) |
| `drain_workers` | `DrainTypeOK`, `OneWorkerPerLease`, `OneLateStretch`, and the refinement `ReportsComeFromHolder` |
| `full_run` | `FullRunTypeOK`, `OneActiveRun`, `LateControllerIsLast`, `StopReachesItsRun`, `FinishedStaysFinished`, and the liveness of `StopHonoured` and `AbandonedRunReplaced` |
| `ingest_loop` | `IngestTypeOK`, `CompleteIsQuiet`, and the liveness of `RunEnds` |
| `full_text_drain` | `DrainTypesOK`; `Delivered`, `OneCopyPerSource`, `HtmlKept` (FullTextPaper); `PoolWithinBounds` (CompactDrain); `SnapshotWhole` (SnapshotAssets); `FoundIsWhole` (SourceSearch) |
| `drain_reread`, `full_run_long_drain`, `full_run_stop_race`, `ingest_dead_worker`, `enrich_fills`, `paper_early_rows` | end in a counterexample, see section 4 |

`TrailWithinBudget` is `AuditTrailReplays` and `BudgetKept`, `SentIsWhole` is
`SentIsOneMoment` and `SentStandsAlone`: the event table and the budget, what is sent and
that it stands alone, are each one promise to one reader. Section 5 also has them apart.

### Why the bounds are enough

*Queue* (1 job, 2 threads, 2 owners, budget 2, lease 1 tick, clock to 2, 3 attempts).
Rows do not read each other except in `lease_next` and on the unique key, so one job
with two threads and two owners has every race of a single row. With a lease of one
tick and a clock to 2, a lease can be granted, expire, be granted again and expire
once more. A budget of 2 has an attempt that is not the last and one that is; with a
reset the attempt numbers come a second time. `FewLeases` limits the old tokens that
lie about at a time. The theorems lift these bounds; that racing inserts leave one row
per key with any number of jobs is one of them (`OneRowPerKeyAlways`).

*Handlers and commands.* Two threads, two attempts, each request sent up to twice,
three versions, one deed of the user (EnrichItem): a lost answer, a race and a stale
mirror. Two processes, two starts and one foreign change (Repolish). Two commands, two
troubles and a folder that is made again (StorageQuarantine). The page's request and
two of the browser's own (BrowserDownload).

*Requests.* Two threads on two hosts, one with a gap and one without, two seconds,
silences of one second, one redirect: both threads sleep for one slot and wake
together, and a silence is announced while the other sleeps. `FewRequests` lets
two be under way only where one of them is a plain request for an article, and has
those of the arXiv page, the translation server and the mirror only before time has
passed and a server has refused one.

*Drains.* Two workers, in two drains or in one, are one that loses the lease and one
that gets it. Three claims are the first, one by the other worker, and one by the
first again, the case in which its own late thread meets its own new lease. Three
writes per handler in stretches of at most two are a stretch before the loss, one in
which it happens, and one too many that the next look prevents; by the theorem the
length of a stretch does not matter. `MCView` leaves out of the fingerprint what no step
of a drain reads and none of the properties depends on. Workers, and drains, are alike,
so `MCSymmetry` exchanges them.

*Shared state.* Three package writers: two overlap and a third repairs. `OneTrouble`
keeps overlap and failure apart: of calls that overlapped none fails or dies, because
without it the properties are false (see section 4). Two troubles (`TwoTroubles`),
failing looks, renames or removals or one of them a death: two lose the last tree in a
rollback, and one brings a replaced tree back, so that without the exceptions `unrolled`
and `hindered` TLC finds the properties violated. (It takes a third for `unrolled` to
matter to `SupersededStaysGone`; with a crash and three failures, too, the properties
hold, in a run of this area alone.) Two callers, a foreign file and one death
(LocalCopy). Two embedders, an image and a stylesheet, two writes, a damaged snapshot
while the files are written once (`SpoiltOnlyEarly`). Two files race their inserts while
nothing else has happened; then one row, of a keyed file, is worked on
(`EnqueuedEarly`). It has a budget of 2, four claims and one deferral: a deferral gives
back one of the attempts, all of them are used up, and a lease beyond the budget would
still be granted within the bounds. The lease is one tick and the clock goes to 2, so
that a lease expires, is swept and granted again to the same owner while a report of the
first is open. Two entities, four events, two batches of two events: a batch that has
read its keep clause once deletes more than one event, and of either entity; two of the
events are reports with a result (`FewReports`), one that a compaction reads and one
that overtakes it.

*Runs and loop.* Two processes and two runs have a takeover and its return;
`AbandonedRunReplaced` therefore says "or no run_id is left". Two jobs are a
full-text job and a fallback it creates, or two that keep one or two queues busy, with two
slots per drain. A run of one idle cycle ends as soon as it has counted it; one of two
counts on after a sleep, during which the intake comes nearer, and with an intake every two
polls it is just in time (`RunEnds`, section 4).

*Paper and script.* Two workers, two documents of different size, three attachments,
two attempts, one lapsed lease, two Sci-Hub rows (`FewScihubRows`); the item may begin
with both documents elsewhere, with or without their files. Two threads, batches of
two, a limit of 3 or a threshold of 1, two jobs in the queue, four jobs leased: a limit
that a batch does not divide and a threshold that both threads reach at once. A script
is given one of its limits at a time; the proof has them all.

*Search and saved pages.* Two searches of one item; two of the four pages are
probed: an abstract of arXiv and its HTML, a summary that may be redirected to the
abstract and names a PDF and the article, and the article. A limit of one PDF of two.
`MaxNested` stands for Python's recursion limit: a page that names another one is
followed by a call within the call. The second search finds at most one file and is
small (`SecondSearchIsSmall`), which is what two that overlap need to write the same
file. Two stylesheets that import each other, one of them itself, and an image; three files,
two units of bytes, and one level of sheets within sheets: each limit is reached
before the others somewhere.

`CHECK_DEADLOCK FALSE` is set where the bounds on clock, attempts and faults stop the
model or the modelled program ends. `FullRun` (a process can always restart) and
`IngestLoop` (which stutters once complete) are checked for deadlock.

### Fairness

Safety needs none. `FullRun` assumes that the threads of a living process go on,
that the work of a cycle ends, that time passes, and, for `AbandonedRunReplaced`, that
each manager is asked for a run again and again (there is no timer in the code: a dead
run is found when somebody calls `start`). Crashes, store errors and stop requests
are never obliged to happen. `IngestLoop` assumes that the loop goes on, handlers
end and the leases of dead workers lapse; nobody else has to drain. `RunEnds` excepts
executions in which a worker is dead again and again, which is what
`ingest_dead_worker` is about.

## 4. Where code and comments part

Each of these is a run that ends in a counterexample; `PROJECT.json` quotes the
comment, document or test that says otherwise.

1. **A lease read back** (`drain_reread`). `lease_next_metadata_job` commits the lease
   and returns a second read of the row (`state.py:1694`). A worker that stops between
   the two for longer than its lease gets the owner and attempt of whoever leases the
   job next.
2. **A run that loses its heartbeat does not stop in time** (`full_run_long_drain`). The
   loop logs that it stops the run "before its ownership can expire"
   (`full_run.py:378`), but only sets the stop event; a drain in progress goes on.
3. **A stop for one run ends the next** (`full_run_stop_race`). `stop()` compares and
   sets without the lock (`full_run.py:126-127`).
4. **Waiting for nobody** (`ingest_dead_worker`). A type is drained only while none of
   its jobs is running (`full_run_plan.py:46`), and expired leases of a type are swept
   only by a drain of it. A worker that dies leaves the run "waiting for active
   metadata jobs".
5. **A full field is filled** (`enrich_fills`). `sync_ensured_parent_local` writes the
   stem of the file name over the title the parent has in the mirror, also under
   `emptyFieldsOnly` (`local_attachment_sync.py:1093`).
6. **The only source HTML is trashed** (`paper_early_rows`). The clean-up trashes what
   had no file when the inventory was read, without looking again
   (`source_html_maintenance.py:66`); where Zotero enters an attachment before it has
   fetched the file, that is the one a reader could open.

Met while modelling, and not runs of their own:

*Queue, drains, runs.*
* `RunEnds` fails when `(idle_cycles_to_complete - 1) * poll_seconds` reaches
  `intake_interval_seconds`: every intake makes the Sci-Hub backlog due, and its
  scan resets the idle count (`full_run.py:236`, `278`). With `IntakeEvery = 1` and two
  idle cycles TLC finds the run that never ends; `ingest_loop` has the shortest interval
  with which this cannot happen.
* Without `ZOTERO_RELAY_URL` the drains return at once with `ok: False` and leave their
  jobs queued (`metadata_processor.py:769-823`). The loop takes the queue for ready
  again, resets its idle count and starts the refused drain without a pause, for ever
  (`full_run.py:265-279`), unless others drain the queue. `RunEnds` excepts it by its
  last disjunct.
* `last_intake = 0.0` is compared with a monotonic clock (`full_run.py:202`, `233`),
  so the first intake is skipped on a host that has been up for less than the
  interval. `IngestInit` allows for it.
* A late heartbeat of a finished job (`metadata_processor.py:1030`) carries the
  clock of its call: it can shorten the next lease of the same owner and attempt
  number after a reset, and never lengthen it beyond `LeaseBounded`.
* A controller whose heartbeat failed records "stopped by request";
  `StopReachesItsRun` and `StopsOnlyOnRequest` allow it. `start()` adopts a fresh row whose process has
  died, and starts nothing, until the row is stale.
* In the drain script the capacity of a batch that raises is given back although
  some of its jobs were handled, so `--limit` may be exceeded by them (`spilled`);
  the other threads go on draining after one raises.

*Papers and mirror.*
* Two full-text jobs of one parent, each with the inventory of its start, can both
  create a source HTML, although `src/README.md:135-137` says a duplicate is skipped.
  The deduplication prefix differs between the full-text and the fallback jobs, so
  one PDF may be attached twice, once for each way (`OneCopyPerSource` counts by way).
* A skipped Sci-Hub row is looked through and may be enqueued again once the
  signature of `zotero.sqlite` has changed.
* Errors of the providers are swallowed, so an outage of all of them ends an enrich
  job as skipped and a full-text job as succeeded, "unresolved"; the retryable flag of
  the events is never read.
* A write to the mirror may overwrite a value the user has not synced, and sets
  `synced = 1`, so that a local edit of another field is never uploaded. The relay's
  remembered reply can move the version in the mirror backwards.
* A failing `local_parent_sync` makes an enrich job end as skipped, "no_parent_item".
* The deduplication key of an arXiv sibling holds the mtime of the HTML file that each
  attempt writes again, so a retry after a lost answer, or a second attempt, can
  create a second sibling.
* `canonical_article_html_url` may make `fetch_html_source` call itself without bound
  (thieme-connect.de, `html_sources.py`); only Python's recursion limit ends it
  (`MaxNested`).
* The HTML of an arXiv landing that was left out for the page limit has a result,
  `skipped`, and is not asked for again at the end. `HtmlFirst` assumes that an item does
  not come with more arXiv pages than are probed; they are probed first.
* Two searches that overlap write to one directory. `FoundIsWhole` says what is in the
  files only of a search that was alone.
* The output directory of a full-text job is the same for every attempt and
  `write_bytes` is not atomic: a slow worker may rewrite a file another attaches.

*Files and packages.*
* A writer that recorded the old owner can move a package that was published a moment
  ago to its own backup and not put it back: the package is then absent, although
  the call that published it said ok, until the next call's recovery. Three calls in
  overlap, or an overlap with a crash or a failed read, can destroy every complete
  tree; hence the bound `OneTrouble`.
* A rollback swallows a failing removal of the tree it has published
  (`article_standard.py:582-585`). That tree is torn and still there, so the `elif` below
  (602-608) removes the backup: a read that fails at 570 and this removal leave a
  call by itself with a ruin for a package and no backup. `unrolled` excepts it from
  `NeverLost`, `CallRepairs` and `SupersededStaysGone`; nothing else is excepted from
  `NeverLost`.
* `_article_package_tree_complete` returns False when a read fails (645, 685-730). A
  recovery that misreads a complete package so claims and removes it and restores the newest
  backup it can read, which may be one that an earlier write had replaced and could not
  remove; one that misreads every backup leaves the package as it is. `hindered` excepts
  both from `CallRepairs` and `SupersededStaysGone`.
* After its check `_unlink_owned_regular_file` can remove a foreign file that was
  saved in between; `FileKept` excepts the step from "unlinking".
* A file without references is sent as it is at fingerprint time, not as it was read;
  `SentStandsAlone` is about embedded files. A half-written file counts as a version.
  A failed read-back removes a snapshot another embedder reuses.

*Commands.*
* A resumed repolish without `--skip-unchanged`, or a second process, writes the
  polished file over the copy of the original in `storage_backups`. A file saved
  between the hash and `os.replace` is overwritten. After a crash between
  `os.replace` and the row's transaction, `--skip-unchanged` records "unchanged"
  although the row is stale (Zotero's sync repairs it); without it, and once Zotero has
  pulled the new version, the resume fails on the version for ever.
* The audit clean-up quarantines orphan folders from a possibly old report without
  looking again whether a row has appeared; `mark_local_attachment_deleted` checks no
  version; a run with the same output root gets the relay's remembered answer
  after the user has restored the item; a killed command leaves the folder under its
  hidden claim name.
* The proxy's `aclose` works on a snapshot of its handlers that misses a task created
  but not started; from Python 3.12.1 on `server.wait_closed()` waits for connections that
  are cancelled only afterwards (the Dockerfile uses 3.11, and the browser is closed
  first). A half-closed connection cancels the other direction.

## 5. What is proved

TLAPS checks every theorem below for all values of the constants, from the named
assumption of the module (`QueueAssumption` and so on) and from nothing else but
what the table says. A bound in a guard (`MaxTime`, `MaxClaims`, ...) is a constant
like the others: any number will do, so the theorems hold of every finite execution.

| module | theorem | property |
|---|---|---|
| MetadataQueueProofs | `TypeCorrect`, `LeaseFieldsAlwaysAgree`, `LeaseAlwaysBounded` | types; owner and expiry exactly while running; no lease longer than one lease time |
| | `TrailWithinBudgetAlways` from `BudgetAlwaysKept`, `AuditTrailAlwaysReplays`; `OneRowPerKeyAlways` | `TrailWithinBudget`; one row per dedupe key |
| | `SettledAlwaysStaysSettled`, `LiveLeaseAlwaysKept` | `SettledStaysSettled`, `LiveLeaseKept` |
| | `DrainTypeCorrect`, `OneLateStretchAlways` | `DrainTypeOK`, `OneLateStretch` |
| | `OneWorkerPerLeaseAlways`, `DrainImplementsLeaseQueue` (with `PromptReread`) | `OneWorkerPerLease`, `ReportsComeFromHolder` |
| FullRunProofs | `FullRunTypeCorrect`, `OneActiveRunAlways`, `FinishedAlwaysStaysFinished` | `FullRunTypeOK`, `OneActiveRun`, `FinishedStaysFinished` |
| | `LateControllerAlwaysLast`, `StopReachesItsRunAlways` | `LateControllerIsLast`, `StopReachesItsRun` |
| | `IngestTypeCorrect`, `CompleteIsQuietAlways` | `IngestTypeOK`, `CompleteIsQuiet` |
| SharedStateProofs | `FileTypeCorrect`, `OneRowPerFileAlways`, `LeasesWithinBudgetAlways`, `FencedReportsAlways` | types, one row per file version, `LeasesWithinBudget`, `FencedReports` |
| | `ResultIsNewestAlways`, `NewestEventsKeptAlways` | `ResultIsNewest`, `NewestEventsKept` |
| | `LocalTypeCorrect`, `FileKeptAlways` | types, `FileKept` |
| | `EmbedTypeCorrect`, `SentIsWholeAlways` from `SentIsOneMomentAlways`, `SentStandsAloneAlways` | types, `SentIsWhole` |
| ArticlePackageOverlapProofs | `PackageTypeCorrect`, `NeverLostAlways`, `CallRepairsAlways`, `SupersededGoneAlways` | types, `NeverLost`, `CallRepairs`, `SupersededStaysGone` |
| FullTextPaperProofs | `PaperTypeCorrect`, `HtmlKeptAlways` and `DeliveredAlways` (without `EarlyRows`), `OneCopyPerSourceAlways` (the item did not begin with two copies of one document) | types, `HtmlKept`, `Delivered`, `OneCopyPerSource` |
| | `CompactTypeCorrect`, `PoolWithinBoundsAlways` | types, `PoolWithinBounds` |
| | `SnapshotTypeCorrect`, `SnapshotWholeAlways` | types, `SnapshotWhole` |
| | `SearchTypeCorrect`, `FoundIsWholeAlways` (with `HtmlFirst`, `NoFile`) | types, `FoundIsWhole` |
| CommandProofs | `ReachedIsAllowedAlways`, `FolderKeptAlways`, `RecordedIsDoneAlways`, `MirrorQuotesServerAlways` | `ReachedIsAllowed`, `FolderKept`, `RecordedIsDone`, `MirrorQuotesServer` |
| | `HttpTypeCorrect`, `RequestsSoundAlways` | types, `RequestsSound` |

### The arguments

*Metadata queue.* `StepChange` shows that whatever step is taken, every row stays or
changes in one of eight ways; each row invariant is an induction over these. The
inductive invariant `QueueInv` adds "an absent row has no attempts" and `SweepInPast`:
the clock a sweep has read is not ahead of the present. The last makes
`LiveLeaseKept` inductive: a sweep returns a row that had expired at its own time, so it
has expired now, also when the sweep was slow.

*Drains.* A step of a worker is a step of the store with bookkeeping conjoined, so the
row facts of the queue hold here too. `DrainInv` adds which call each thread is in
(`CallsOf`), that the token it holds was granted (`HoldsOf`), and, with `PromptReread`,
that a token in hand is the worker's own and that of the newest claim (`OwnLease`). The
refinement is then shown row by row: a step of the drain is, for each job, a step of the
abstract queue or none; the four kinds of step that change an abstract row are a claim,
a release, an outcome and an operator's retry.

*Ingest runs.* `RunInv` ties the four places a run lives in to each other. Rows: the
controller of a run that is not over has an active or an interrupted row. Threads: a run
with a working heartbeat thread is not stale. Work: a controller either has a working
heartbeat and an active row, which no claim can take from it, or has lost its heartbeat
and been signalled; of two controllers at work one is therefore of the second kind. Stops: a
set signal on an active row was asked for, follows a lost heartbeat, or came from a `stop()`
that was between its steps when the run started (`raced`). Claims: a claimed run is
fresh, has no thread yet and no second claimant.

*Run loop.* `ReadIsQuiet`: if every summary read so far was clear, every queue read so far
is quiet, and stays so. Others create only fallback jobs, and only from full-text jobs;
the fallback queues come after the full-text queue in `ReadOrder`, so once the full-text
queue was read as clear nothing can create a job in a queue that was read. With the order
reversed (the mutant `FallbacksFirst`) the invariant is false.

*OCR and HTML queues.* As for the metadata queue, `RowChange` lists the ways a row and its
ledger can change. `LeasesWithinBudget` needs that deferrals are counted against leases.
`FencedReports` needs `HoldAgrees`, which ties the owner of a running row to the one worker
of that name that remembers the lease: since an owner is sequential, the owner alone is
fence enough.

*Histories.* `ResultIsNewest` is inductive with the types. For `NewestEventsKept` the
newest event of an entity that a batch removes had `keep` newer events, none of which the
batch may remove, so the newest events stay; that several batches keep what one batch
keeps is shown by the least number of batches for which it would fail. The log is finite
because `written` bounds the ids.

*Local files.* `CallOK`: a caller that has not claimed yet has nothing at its claim, and
from the link on its claim holds nothing or the file whose owner it recorded. A foreign
file at a claim is therefore never removed but put back or left.

*Article packages.* The theorems are about any number of calls and of earlier packages, under
`OneTrouble`: two calls may overlap while a third waits, and a call that overlaps another
neither fails nor dies. A call by itself may meet any number of failing looks, renames and
removals, and die. The assumption on `Earlier` is that at least two packages, all
different, were published before. `PackageInv` has four parts.
`Structure`: a tree is in one place (`OnePlace`), a call holds a claim only between the rename
and what follows it (`ClaimHeld`), nobody else has seen a tree that is not published (`Fresh`),
and a backup name is used by its own call only, and only after it has moved the package
(`BackupFree`).
`Dated`: trees are built one after another, so each new one is newer than all there are.
`OneCall`, for a call nobody overlapped: what it read is still so (`Solo`), whatever earlier
calls left when they failed or died; and the package, or the tree that takes its place, is
newer than every complete tree that was replaced (`SoloOrdered`, `Heir`), which is why choosing
the newest backup never brings a replaced one back. Both are given up for a call whose
recovery or rollback met a failure (`hindered`). Of it `Astray` remains: it may take an
older tree for the newest, but before it takes a complete tree away there is another one at
a backup (`Spare`), which is enough for `NeverLost`. When a rollback could not remove its
tree (`unrolled`), `Structure` and `Dated` remain.
`TwoCalls`: what `x` may still rely on beside `y` (`Both`), clause by clause for what `x` is
doing: recovering, removing, sweeping, promoting, rolling back. For example the package may be
absent only if a third name or one of the two has a complete tree and will not remove it
(`Gap`), and a sweep has something to remove only while the package is complete or the other
call holds a complete one for a moment (`SweepSafe`). `StayGone` says of every path a tree can
be put back from that it holds no tree that a write replaced, or is about to have replaced
because it has published its own. Most clauses exclude states that no
execution reaches, but from which a step of one call would break what the other relies on.
While nothing has failed, a call by itself is in `TwoRun` with every call that has not begun,
so a second call may start at any moment.
The proof gives every action an effect, its changes field by field, and has one lemma per action
and part; in the second module `x` moves beside `y` and the symmetry of `TwoRun` gives the rest.

*Embedding.* A version seen at two moments was there all the time between them
(`NeverBack`), because a written file gets a fingerprint it never had. An embedder has seen
every file before its cut and sees it again after it (`SeenBy`), so each was there at the
cut (`ThereAtCut`), the one moment the property asks for. That the embedded file stands
alone is decided when its references are rewritten, and what was read does not change.

*Papers.* For every key on a worker's list to trash, a better source HTML stands or the
key never was one a reader could open (`TodoOK`, `Beaten`, `NeverHere`). Workers rank by
size while files come and go; `Beats` ranks by the documents alone and does not change, and
the lemmas of the ranking relate the two. A step that removes a readable HTML therefore
leaves a better one (`RankingGoesOn`). Deduplication keys and documents agree
(`AttachmentOK`), from which `OneCopyPerSource` follows whatever the relay was asked twice.

*Drain script.* With a limit, `worked + Held = spilled + reserved + Out`: what is reserved is
held by batches under way or was used by others, and the jobs of a batch under way are
`Out` (`Capacity`). As `Out <= Held`, the jobs worked on are at most the limit and what was
spilled. `BatchIsReserved` follows: no batch gives back more than is reserved, so the
`RuntimeError` of `complete_batch` is never raised. For the thresholds, `Within`: the
failures counted and those that batches under way may still add stay below the threshold
and one batch per thread, because a batch is begun only while no threshold is reached.
These are sums over the threads; `FiniteSums` supplies what is needed of them.

*Commands.* Browser: no request is asked before the policy is installed (`GuardedFirst`), a
request that passed was allowed for its host, and the proxy dials one of the addresses it
looked up itself, all public. Quarantine: every folder is whole in the storage or under a
claim, or has a whole published copy (`Safe`); a command that removes or undoes owns what it
removes (`Owns`), and no two commands own the same (`OwnersApart`). Repolish: while nothing
foreign happened the library holds the first file and then the polished one, and the file,
the row and every process agree with where they are in that order (`Alone`). Enrich: replies
in hand or remembered by the relay quote a version the server had (`Quoted`), and old
versions are never changed (`PastStands`).

*Requests.* `SentOn` says of a request under way what it has met so far, `TrailSound` with
what a redirect may rely on: the addresses pinned for the next connection are ones the
asker may reach, the key is carried only while every URL is the first one. `Hushed`
ties the throttle to its history: the silence it keeps is the latest that was
announced. A slot is then given only past both, since the loop looks again under the
lock after every sleep.

*Saved pages.* The files counted and not yet written are those of the sheets that are
open, each once (`FramesOK`), so what a sheet names when it is closed was written
before, and no sheet that is open is entered again. The bytes counted are the sum of the
files' sizes (`BytesOK`); a sheet that grows moves both or neither.

*Search.* An attempt's number is above that of every file of the same kind, so a file's name, its
number and URL, is new when it is written and no later result of the search takes it
(`Numbered`). Every PDF that a page read named is cited and has a result when the
search leaves the papers (`CitedOK`). By `HtmlFirst` the attempts made and the arXiv HTML still
left are at most the limit while any of it is left (`LimitOK`), so none of it is skipped.
The contents of the directory are compared only while the search is alone (`OnDisk`),
and one that is alone makes every other write impossible.

*Finite induction.* The induction theorems of the library take an operator as a parameter,
which the installed provers cannot instantiate. `FiniteSums` goes around this: a nonempty
set of naturals has a least member (`LeastNumber`), proved from the finiteness of the
numbers below one of its members, and each fact about sums, like each fact about repeated
pruning, is shown by looking at the least counterexample.

## 6. What is only model-checked, and what is not modelled

Only model-checked:

* Liveness: `StopHonoured`, `AbandonedRunReplaced`, `RunEnds`. The prover has neither
  fairness nor ENABLED.
* `TypesOK`, `SharedTypeOK` and `DrainTypesOK` join the type invariants of the components
  an MC module puts side by side. For MetadataQueue, FileJobQueue, EmbeddedHtml, LocalCopy,
  ArticlePackage, FullTextPaper, CompactDrain, SourceSearch, SnapshotAssets and ProviderHttp
  these are theorems of their own; for StateHistory,
  EnrichItem, Repolish, StorageQuarantine and BrowserDownload they are parts of the inductive
  invariants.
* The six runs of section 4 are counterexamples and have nothing to prove.

Not modelled:

* Page heuristics, text transformation (`src/zoteropdf2md/`), the rules of the HTML audit,
  the verdict whether a page or a PDF is the article, the lookups of the providers
  and the choice between their answers: pure functions of pages and answers, which the
  models leave open.
* Option and configuration parsing; routing of the service; bounded reads.
* Readers of the Zotero database beyond the inventory and the parent of a PDF.
* Of the libraries under `src/repositories/`, all but the requests, the search for sources, the
  saved pages and what the metadata policy lets into a patch.
* The stability counters of watched files (`state.py:217-286`): nothing in this repository
  calls them.
* Three calls that publish one package at once, or two of which one fails or dies: `OneTrouble`
  leaves them out, and section 4 says what they can destroy. A claim that can neither be
  removed nor looked at or put back afterwards (`article_standard.py:1096-1104`).
* A source HTML file that is rewritten between two clean-ups: `FullTextPaper` ranks a
  document by a size of its own, the code by size and mtime as they are then
  (`source_html_maintenance.py:207-218`).
* Dry runs, inline (data, blob) requests of the browser, forwarding of
  bytes in the proxy.

## 7. Plan

| what | why |
|---|---|
| the PDF cycle of the drain script, the scans' limits and filters | stages that follow one another over the same queue |
| failures in calls that overlap on a package, and a claim that cannot be put back | `OneTrouble` leaves them out, and what then survives has not been found |
| files that change their rank between two clean-ups | `HtmlKept` is about documents whose size and time stay |

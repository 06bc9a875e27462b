# OS-Scanner: TLA+ models and proofs

OS-Scanner inspects endpoints and reports on them. An agent on each endpoint runs authorized scan
jobs, keeps the results in a local SQLite database, and delivers them through a durable outbox; a
cloud control plane issues the jobs, accepts the evidence, runs vulnerability tools over it with a
pool of workers, and publishes one report per scan. This directory models the parts whose
correctness depends on the order of steps of several processes, on crashes, and on leases and
retries, and the pipeline in which one scan decides what its evidence is worth; it proves what it
can of them for every number of processes, rows, attempts, sections and answers.

## 1. The system

| Part | State it keeps | Operations | How it interacts |
| --- | --- | --- | --- |
| Agent loop (`app/orchestrator/agent.py`) | none durable | `run_once`: rotate credentials, upload, sync policies, fetch a job, execute, upload | calls every endpoint part, in that order |
| Scan lifecycle (`app/orchestrator/scanner.py`, `app/storage/jobs.py`, `results.py`, `snapshots.py`) | `scan_jobs`, `scan_results`, inventory snapshots | create, stage updates, the completing transaction, failure, reconciliation of stored results and of missing FAILED statuses | enqueues uploads in its transactions |
| Durable outbox (`app/storage/upload_queue.py`, `app/transport/worker.py`) | `upload_queue`: status, attempts, lease, causal links | enqueue, claim, mark succeeded or failed, full resync, requeue, purge | filled by the lifecycle, drained by workers over HTTP, emptied by retention |
| Retention (`app/storage/maintenance.py`, `results.py`) | report files, the tables above | purge uploads, prune scans, prune reports | must not remove what the outbox needs |
| HTTP transport (`app/transport/client.py`) | none | request with in-request retries | gives the outbox one of four outcomes |
| Credentials (`app/enrollment`, `cloud_service/postgres.py`) | local keyring or file; `scanner_credentials` | enroll, rotate with an overlap | authenticates every request |
| Policies (`app/policies`) | installed and active documents | validate, install, activate | activation requests a scan |
| Scheduling (`app/scheduling`) | triggers in memory | startup, policy, periodic | hands jobs to the agent loop |
| Local audit (`app/storage/audit.py`) | hash chain | append, verify | written inside other transactions |
| Cloud scan records (`cloud_service/postgres.py`, `repository.py`) | `scanner_scans` | create, claim/dispatch, expire, ingest, status, reject | driven by agents and administrators |
| Inventory synchronization (`reconstruct_inventory`, `app/storage/snapshots.py`) | one current snapshot per endpoint | full, delta, unchanged | refusals (409/412) start the outbox's full resync |
| Cloud analysis (`cloud_service/worker.py`, `analysis.py`, `postgres.py`) | `scanner_analysis_tasks`, final reports | claim, complete, fail, reconcile, finalize | fed by ingestion |
| Collectors (`app/orchestrator/collector_pipeline.py`, `app/collectors`) | the bundle of one scan | native checks, osquery, OpenSCAP, OSV, dep-scan, Amass, under one deadline | its observed sections decide what the snapshot may replace |
| External tools (`app/tools`) | a result cache | one adapter per tool over one process runner | their states and records go into the bundle |
| Normalization and SBOM (`app/normalization`, `app/sbom`) | none | records, security controls, merged vulnerabilities | rejected rows make a check PARTIAL |
| Analysis and reporting (`app/analyzers`, `app/orchestrator/deep_scan.py`, `app/reporting`) | none | drift verdict, readiness, one report over several scans | reads the bundles' results |
| Policy rules, models, CLI, HTTP layer, dashboard, packaging | none shared | pure functions, I/O, rendering | - |

What is hard, and what makes each part correct:

* **Outbox.** Two processes (the service and the `upload` command) may drain one table. Leases run
  out under a worker that is still waiting for an answer; answers are lost after the cloud
  committed; rows are requeued by an operator, replaced by full resyncs, and purged by retention,
  while later rows of the endpoint's stream wait behind them through foreign keys that SQLite sets
  to NULL on delete. Correct means: one owner per lease, no more attempts than were granted, nothing
  marked delivered that the cloud did not commit, nothing sent before what it depends on, no row
  forgotten, and no snapshot removed that a resync still needs.
* **Cloud analysis.** Any number of workers claim with leases; a task may be taken over while its
  worker still runs; the report is computed outside any transaction from what was read before.
  Correct means: only the latest attempt decides, a task ends once, one report is published once and
  is of what the tasks ended with, and accepted evidence is reported in the end.
* **Scan lifecycle and dispatch.** The cloud hands out a job under a lease, may hand it out again
  while its first execution or its evidence is still under way, and expires it; the endpoint dies
  between transactions and is upgraded while it is down; answers are lost after a commit. Correct
  means: the cloud's evidence is the endpoint's one stored result, nothing is produced after the
  authorization ended, an ended job's status is never forgotten, every job leaves the dispatcher,
  and every stored result arrives or shows the operator why not.
* **Inventory synchronization.** The endpoint sends differences against a snapshot that the cloud
  may not have: documents are lost, pruned, refused for their base, replaced by full resyncs, and
  the cloud's database may be restored to an older state. Correct means: what the cloud accepts for
  a scan is what the scans up to it observed, an unobserved section is neither lost nor invented, a
  document is never refused for its form, and the inventory moves forward.
* **Credentials, policies, the loop.** A rotation's answer may be lost after the cloud committed it,
  the process may die before the save, and an operator's command rotates the same credential. The
  assigned policies live in a cache, in the running agent and in a configured file. Correct means:
  only faults beyond the promised ones lock the endpoint out, a saved credential never goes back, a
  restart runs the policy that ran before, a revoked one stays revoked, and a requested scan is
  taken up once the scheduler is polled.
* **The pipeline.** Some thirty checks, sixty queries and five tools answer, answer in part, answer
  too late, or raise, and several of them contribute to one section. Correct means: a section is
  authoritative only if no source whose answer it needs fell short, a verdict rests on controls that
  were delivered, a report that calls itself complete hides no failure, and merging loses no
  vulnerability.

## 2. Modules

| Module | What it is |
| --- | --- |
| `DurableOutbox` | The abstract specification: messages queued, delivered, forgotten; what waits for what; what the cloud has |
| `UploadQueue` | The outbox: table, workers, the lifecycle transactions that fill it, the retention that empties it; implements `DurableOutbox` |
| `UploadQueueProofs` | Theorems about the rows, leases and attempts of `UploadQueue`, checked by TLAPS |
| `UploadStreamProofs` | Theorems about its causal streams, resyncs and retention, and the refinement; uses the module above |
| `MCUploadQueue` | Constants for TLC |
| `ReportPromise` | The abstract specification: each task ends once, one report of those outcomes |
| `AnalysisTasks` | The cloud tables and workers; implements `ReportPromise` |
| `AnalysisTasksProofs` | Theorems about `AnalysisTasks`, checked by TLAPS |
| `MCAnalysisTasks` | Constants for TLC |
| `ScanDispatch` | The cloud's scan rows of one endpoint: authorize, dispatch, expire, accept |
| `ScanLifecycle` | `ScanDispatch` composed with the endpoint's agent, job table and outbox |
| `ScanLifecycleProofs` | Theorems about `ScanLifecycle`, checked by TLAPS |
| `MCScanLifecycle` | Constants for TLC |
| `CredentialRotation` | One endpoint credential: cloud generations, the stored record, the calls of its rotators |
| `PolicyAssignment` | The policy cache, the running policy, the configured file, the cloud's assignments |
| `AgentLoop` | `run_once` and the scheduler, composed with the two modules above |
| `AgentLoopProofs` | Theorems about `AgentLoop`, checked by TLAPS |
| `MCAgentLoop` | Constants for TLC |
| `InventorySync` | Snapshots, their differences, the documents queued, the inventory the cloud rebuilds |
| `InventorySyncProofs` | Theorems about `InventorySync`, checked by TLAPS |
| `MCInventorySync` | Constants for TLC |
| `ToolOutcomes` | The five tool adapters over the process runner: which state, which records, what is missing |
| `NativeReads` | What a native check may answer, from its commands, files and directories |
| `EvidenceSections` | Which checks and queries fill which section and which security control |
| `VulnerabilityMerge` | The merge of vulnerability records by their shared identifiers |
| `Collection` | The collector pipeline of one scan, built on the four modules above |
| `DeepScan` | A request of one or more scans: verdict, terminal results, the deep report |
| `DeepScanProofs` | Theorems about the bundle and the verdicts of `DeepScan`, checked by TLAPS |
| `DeepReportProofs` | Theorems about what a scan covers and the deep report; uses the module above |
| `MCDeepScan` | Constants for TLC |

### UploadQueue and the code

`rows` is the table `upload_queue`; an id is FREE until AUTOINCREMENT reaches it and GONE after a
DELETE. `pred`, `superseder` and `resyncFor` are the three causal foreign keys of migration
`causal_upload_delivery`. `Unlinked` is their ON DELETE SET NULL. `worker[w]` is the stack of
`UploadWorker.run_once` between two storage calls. `record` and `latest` are the scans whose result
and snapshot are stored locally; `accepted` is what the (external) cloud has committed.

| Action | Code |
| --- | --- |
| `CompleteScan` | the transaction at the end of `ScanOrchestrator.execute`: result, snapshot and both uploads |
| `ReconcileScan` | `execute` on a scan with a stored result |
| `FailScan` | the FAILED status of a scan that failed, and `reconcile_terminal_statuses` |
| `RejectJob` | `ScannerAgent._reject` |
| `Claim` | `claim_uploads(limit=1)`: expiry, the causal join, the order, the lease |
| `Request` | the HTTP request: an answer, with or without a commit in the cloud |
| `Settle` | the `mark_*` call or `schedule_full_resync`, under the lease check |
| `Requeue`, `Purge`, `PruneScan` | `requeue_dead_upload`, `purge_succeeded_uploads`, `prune_completed_scan_records` |
| `Crash`, `Tick` | a worker dies; time passes |

Every storage operation is one IMMEDIATE transaction and so one step. Payloads, HTTP headers,
metadata and audit rows are left out. A lease token is the number of the claim, which is as unique
as the code's UUID. The last tick of the clock stands for every later instant, so that backoff and
leases always end. `claims` and `granted` are history variables: no guard of the code reads them,
except that a claim makes its token from the first. `_backfill_causal_links` (rows of an older
schema) is left out: it finds no work in a table that `enqueue_upload` filled. `ConstantsAssumption`
says that a scan has an endpoint: `_causal_group` finds the identifier in every result and status,
whose documents carry it.

`DurableOutbox` forgets rows, leases, attempts and keys. Its messages are the documents; a message
and its full resync are one, since they carry the same evidence. `Original`, `QueuedIn`,
`DeliveredIn`, `BehindIn` and `Committed` are the mapping: a message is queued while the row under its own key is
unresolved, delivered once that row or its replacement succeeded, and waits for the message of the
row's predecessor while that one is unresolved. Enqueuing is `Queue` or, for the two uploads of a
completed scan, `QueueBoth`; a request is `Commit` or nothing new; `Settle` is `Deliver` when it resolves a
message, be it by an "ok" or because a refused upload's resync is delivered already; a claim, a retry,
a dead letter, a resync, a requeue and a crash change nothing; the purge is `Forget`. A new message may wait for
nothing although others of its stream are queued: it is linked behind the newest row, which may be
a delivered resync (the fork of section 4).

### AnalysisTasks and the code

`scan` and `task` are the rows of `scanner_scans` and `scanner_analysis_tasks`; `worker[w]` is the
stack of `AnalysisWorker.run_once` between two repository calls, `pc` naming the next one.

| Action | Code |
| --- | --- |
| `Ingest`, `RecordRejection` | `ingest_scan` and `record_rejection`, as far as they touch states and tasks |
| `Claim`, `Poll`, `Reconcile` | `run_once`: the rotation over kinds, `claim_analysis_task`, then `next_scan_ready_for_finalization` |
| `Analyze` | `_load_scan_input` and `analyze_tool`, external: a result, a transient or a permanent failure |
| `Store`, `Fail` | `complete_analysis_task` and `_fail_task`, with the `StateConflict` of a lost lease |
| `Merge`, `Write`, `Refuse` | `finalize_ready_scan` up to its write, `finalize_scan_report`, `finalize_scan_report_failure` |
| `Crash`, `Restart` | a worker process ends, and is restarted |
| `TimePasses`, `LeaseOutrun` | a delay or an abandoned lease ends; a lease ends under a live worker |

Reports are abstracted to the outcomes they were built from. When no tool has a completion time the
report contains the clock of the worker that built it; this is `builtBy`, and it is what makes two
workers' reports of the same outcomes differ. The order of several claimable rows of one kind is
left open: the code takes the oldest that no other transaction has locked (SKIP LOCKED).
Notifications are advisory and left out.

### ScanDispatch, ScanLifecycle and the code

`scans` holds the rows of `scanner_scans` of one endpoint (every query names the endpoint); `jobs`,
`result` and `outbox` are the endpoint's `scan_jobs` with their `scan_history`, `scan_results` and
`upload_queue`; `agent.pc` names the next transaction of `_cmd_agent`, `run_once` or `execute`.

| Action | Code |
| --- | --- |
| `Authorize` | `platform_create_scan` and `create_scan_job` |
| `StartAgent`, `Repair`, `NoteRepair`, `EnterLoop` | `_cmd_agent`: `reconcile_terminal_statuses`, whose enqueue and history event are two transactions |
| `Poll`, `PollUnanswered` | `CloudJobSource.fetch` and `claim_next_job`, whose response may be lost |
| `RefuseJob`, `Decline` | `_reject` of a malformed document; `execute` on an ended authorization or a missing policy |
| `Accept`, `Run`, `Complete`, `Return` | `execute`: budget and job row, RUNNING, the completing transaction, the metrics after it |
| `Reconcile`, `ReconcileFails` | `execute` on a job whose result is stored |
| `Fail`, `FailSilently`, `QueueFailure`, `NoteFailure` | its exception path: the FAILED job, its status, the history event |
| `Crash`, `Upgrade` | the process dies; a newer release is installed while it is down |
| `Deliver`, `DeliverUnanswered`, `Refused`, `GiveUp`, `Requeue` | the upload worker against `ingest_scan`, `record_scan_status`, `record_rejection`; full resync, exhausted attempts, the operator |

The outbox here is the one of `UploadQueue` without leases, attempts and purges: a row can be sent
when what it is linked behind has been delivered or replaced by a delivered resync. A document is
reduced to the fields in which two documents of one scan can differ and which the cloud compares,
the status and the scanner's version. One clock serves both sides. `Poll(rows)` reads those rows no
other transaction has locked. The states WAITING of the dispatcher are left out, since
`platform_create_scan` never delays a job.

### AgentLoop, CredentialRotation, PolicyAssignment and the code

`stage` is where `run_once` is. `stored` is the credential record of the endpoint, `generation` and
`until` are the cloud's rows of `scanner_credentials`, `call[p]` is the stack of `rotate` in a
process. `cache` is `policy_documents`, `active` its active identity, `policy` the policy of the running
agent, `file` the configured local policy.

| Action | Code |
| --- | --- |
| `Start` | `_cmd_agent`: the local policy, the registry from the cache, the scheduler |
| `Maintain`, `Rotating`, `Rotated` | credential maintenance in `run_once`, `EnrollmentService.rotate` |
| `Begin`, `Answered`, `Lost`, `Save`, `Forget` | one call: the request, the cloud's commit, an answer that is lost or retried under the same key, the local save, a process that ends |
| `PolicyOffline`, `PolicyKept`, `PolicyInstalled` | policy synchronization and `install_policy_assignment` |
| `FetchJob`, `FetchNothing`, `Poll`, `Scan`, `Wake` | job fetching, `CooperativeScanScheduler.poll`, execution, the wait |
| `SigHup`, `Crash`, `Command` | the signal handler, the end of the process, the `rotate-credential` command |
| `Outside` | what changes between iterations: the assignment, a damaged cache row, the edited file |

### InventorySync and the code

`seen` is what each scan observed, `snaps` is `inventory_snapshots` with the payloads, `rows` is the
endpoint's stream of `upload_queue`, and `accepted` is the cloud's history, whose last entry is the
current snapshot. A document is a full inventory, a difference or "unchanged", with the hashes it
names; the hash of an inventory is taken as the inventory.

| Action | Code |
| --- | --- |
| `Scan` | the snapshot part of the completing transaction: `save_scan_result`, `store_snapshot`, `snapshot_upload_payload` |
| `Reconcile` | the result of a stored scan is queued again |
| `Deliver` | an upload the cloud takes: `reconstruct_inventory`, with the answer lost or not |
| `Conflict` | a 409 or 412: `schedule_full_resync`, or a dead letter |
| `Requeue`, `Purge`, `Prune` | the operator; `purge_succeeded_uploads`; `prune_completed_scan_records` |
| `Restore`, `Expire` | the cloud's database set back to an earlier state; the end of a scan's authorization |

### DeepScan, Collection and the code

`stage` is where `CollectorPipeline._endpoint` is; `observed`, `incomplete`, `statuses`, `posture`
and `advisories` are the bundle. `heard`, `told` and `dropped` are history, kept apart from what the
pipeline makes of it: the states that each source which was asked answered with for each section it
tells of (each inventory check, the other native categories, osquery and the tools are the sources);
the control values that some source delivered; and the sections of which native rows were discarded.

| Action | Code |
| --- | --- |
| `NativeStage`, `NativeRaises` | the native adapter's inventory and posture, their normalization, the contributor rule |
| `OsquerySkipped`, `OsqueryStage`, `OsqueryRaises` | query selection, the runner, the rejected rows |
| `OpenScapSkipped`, `OpenScapStage` | the benchmark |
| `OsvSkipped`, `OsvStage`, `DepScanSkipped`, `DepScanStage` | the vulnerability tools over directories and SBOMs |
| `Merge`, `TooManyRecords` | `merge_vulnerabilities` and the limits of the result |
| `DeadlinePasses` | the scan's timeout, wherever the pipeline is |
| `AttackSurface` | the discovery scan |
| `Analyze`, `AnalysisRaises`, `RecordTerminal`, `NextScan` | the rest of `execute` as `run_deep_scan` sees it, and its terminal results |
| `BuildReport`, `ReportLost` | the deep report's readiness, completeness and status; a refused or unwritten report |

A check is its answer (complete, partial with or without rows, absent, refused, late), never its
text. The tables of `EvidenceSections` are those of the code: every check of the three adapters,
every query of the registry and every scan type. `NativeReads` says which answers a check has, from
the commands it runs, their alternatives and the files the Linux readers open. Records are counted
no further than "some were lost", except the vulnerabilities, which `VulnerabilityMerge` merges.


## 3. What the runs check

Each run is a `.cfg` over an `MC` module. Deadlock checking is off where the system may stop: in the
outbox and the inventory once every id is used and every row is delivered, and in the pipeline once
a request has its report.

| Run | Instance | Properties | What it shows |
| --- | --- | --- | --- |
| `queue_workers` | 1 scan, 2 workers, 3 rows, 3 ticks, lease of 1 tick, fairness | `TypeOK`, `LeaseExclusive`, `DeliveredIsAccepted`, `AttemptBudget`, `LeaseFencing`, `EventuallySettled` | two workers racing, crashing and outliving leases on the same rows; no upload is stranded silently |
| `queue_streams` | 2 scans of one endpoint (symmetric), 1 worker, 6 rows | `CausalDelivery`, `OneRecoveryGeneration`, `NoCircularWait`, `ResyncSourceKept`, `ImplementsOutbox` | the causal stream with resyncs, requeues, purges and pruning; the refinement of `DurableOutbox` |
| `analysis` | 1 scan, 2 workers that run both tools, 2 attempts, 3 faults, fairness | `TypeOK`, `LatestAttemptDecides`, `ReportMatchesState`, `AttemptsPerFault`, `KeepsPromise`, `ReportIsFinal`, `EvidenceIsReported` | takeovers, late answers and racing finalizers; every accepted scan is reported or rejected |
| `life_faults` | 2 jobs of which one is malformed, 1 crash, 1 upgrade, 4 ticks after the first | `TypeOK`, `EvidenceIsStored`, `EndedIsQueued`, `NoLateResult`, `ResultIsFinal` | cloud and endpoint agree through crashes, redispatch, expiry, refusals and requeues |
| `life_live` | 2 jobs, 1 crash, fairness | `JobsEnd`, `EvidenceArrives` | jobs leave the dispatcher; results arrive or leave a dead letter |
| `life_failure` | 1 job, fairness | `FailureDelivered` (violated) | a FAILED status without evidence is never delivered |
| `life_grace` | 1 job | `GraceHonoured` (violated) | evidence is refused within the upload grace |
| `agent_loop` | service and command, 3 policies of 2 contents, 3 ticks, fairness | `TypeOK`, `LockedOutOnlyByFaults`, `RestartRestores`, `RevokedStaysRevoked`, `StoredNeverGoesBack`, `RequestIsTakenUp` | access survives what the retries are for, a restart restores the policies, a requested scan is taken up as long as the scheduler is polled |
| `inventory_sync` | 3 sections of which one is telemetry, 2 values, 3 scans, 6 rows, 1 restore, retention | `ReportedAsObserved`, `NeverMalformed`, `SetBackOnlyByRestore` | what is accepted shows what was observed; no document is refused for its content |
| `inventory_order` | 4 scans, 7 rows, 1 restore, no retention | `NeverSetBack` (violated) | a restored cloud, a forked stream: an older inventory replaces a newer one |
| `pipeline` | 9 requests over all scan types and platforms, 3 settings, 2 controls, 5 checks that vary | `TypeOK`, `AuthoritativeIsAnswered`, `SuccessCoversNative`, `DriftNeedsEvidence`, `CompleteHidesNothing`, `AdvisoriesMerged` | what a result or a deep report declares authoritative, complete or conforming was answered by some source and by every one that binds, and every control it judges was delivered |
| `pipeline_users` | 1 Windows request, 2 checks that vary | `DroppedRowsNotAuthoritative` (violated) | accounts stay authoritative after rows of them were discarded |

Why these bounds are enough. Three rows are a scan's result, its status and the full resync of the
result (or a rejection); a race over a lease needs two workers and one row, and with two attempts
each row passes through a retry and a dead letter. Three ticks give a
lease that is live, expired, and expired while another one is live. Six rows are two results, two
statuses and both resyncs, in which the resync of the first result meets uploads that were queued
before it and after it. One endpoint is enough because streams of different endpoints share nothing
but the workers; the two scans are interchangeable there (same endpoint, neither fails), so permuting them
is sound. Requeues after a dead letter are in `queue_streams`; `queue_workers` has the retries
before it. In the analysis, two workers and three faults let both tasks be taken over and both
workers be overtaken in one scan's life; scans share nothing but the workers, which take any scan's
task. In the lifecycle, a job of three ticks with a timeout of two is redispatched while it is still
valid, cut short by its deadline, and expired; the outbox then holds a result, a status and a resync
of one job and the rejection or the result of the other, in one stream.

In the agent loop a credential lives three ticks and is renewed two before its end, with an overlap
of one: there is one iteration in which a lost answer can be retried, one in which the old
credential is only just accepted, and one after it. Three generations let each rotator be overtaken
by the other, and six are more than the clock and the command can use, so that the bound never
keeps the service from rotating; with two attempts per call, one lost answer has to be survived and a
second one need not be. Three identities are a local policy and two that replace each other, the second content is
what an assignment may put under an identity that is taken. For the inventory, three scans are a
baseline, a difference on it and a difference on that; the observations differ in a section that is
found, found empty, and not looked at, and in telemetry; six rows leave room for each scan's resync.
Four scans are the fewest in which a fork behind a resync has two branches with a scan on each. In
the pipeline the tables are the code's whole tables; what is bounded is which checks and queries vary
(`MCVaried`: `users` and, on Windows, `local_users`, which share a section; `sudo_configuration` and
`screen_sharing`, posture checks of Linux and macOS; `pending_reboot`, a patch check that tells a
control, optional evidence on Linux), while every other check and query answers in full. The two
controls of the baseline are `secure_boot_enabled`, which osquery and, but for Linux, a native check tell, and
`selinux_enabled`, which only a native check of Linux tells: either may stay unknown while the other
is known. Every tool may end in each of its states.

The names of the bounds are `MaxUploads`, `MaxTime`, `MaxGranted` (outbox), `MaxFaults` (analysis),
`MaxTime` and `MaxCrashes` (lifecycle), `MaxGeneration`, `MaxManual`, `MaxLost`, `MaxBroken`
(credential), `MaxCorrupt` (policies), `MaxTime` (agent loop), `MaxScans`, `MaxRows`,
`MaxRestores` (inventory), `Varied` and `Found` (pipeline).

Every property has a mutant: a named operator next to the definition it replaces that changes it as
a plausible bug would (a dropped lease comparison, a lease token that is not renewed, a resync that
joins the end of the stream, a report that is written over another one, a retry under a new key, a
contributor rule that forgets a source). TLC finds each property violated under its mutant.

## 4. Where the code and its documents disagree

Shown by runs:

* **A FAILED status cannot be delivered** (`life_failure`). A scan that fails has no evidence, and
  `validate_scan_status` refuses a status that precedes evidence. The row becomes a dead letter, and
  requeueing it does not help; later uploads of the endpoint wait behind it. The docstring at
  `scanner.py:405` promises durable eventual delivery.
* **The upload grace ends early** (`life_grace`). `claim_next_job` marks dispatched jobs EXPIRED at
  their deadline, and evidence is accepted for DISPATCHED jobs only, so the seven days of
  `SCAN_UPLOAD_GRACE_SECONDS` end at the endpoint's next poll.
* **An older inventory replaces a newer one** (`inventory_order`). `enqueue_upload` links a new
  upload behind the newest row of the stream. After `schedule_full_resync` that row is the
  replacement of an older upload, so what was queued behind the replaced row and what is queued
  later are two branches; the later one may be accepted first, and the earlier one then arrives as a
  full resync without a base. `docs/cloud-api.md:364` says the uploads are serialized by endpoint.
  It takes a cloud whose database went back: otherwise `SetBackOnlyByRestore` holds, and so does
  `CausalDelivery` (nothing overtakes what it is linked behind).
* **Discarded accounts are taken as gone** (`pipeline_users`). On Windows the users section has two
  native sources. When rows of the first are discarded, the second makes the section authoritative
  all the same. `docs/workflow.md:183-184` says that such a section is not authoritative. The same
  goes for rows discarded from any check outside the inventory category, `local_users` itself
  included: only the inventory checks become PARTIAL by it.

Seen while modelling, without a run of their own (the model has what the code does):

* **Refused vulnerability reports are taken as none.** A dep-scan run that refused one of its reports is
  PARTIAL and its records are lost (`depscan/adapter.py:958`); the pipeline counts PARTIAL as observed
  (`collector_pipeline.py:946`), so the section replaces the last-known one. The comment at
  `collector_pipeline.py:404-407` says that a partial contributor must not do that. `AuthoritativeIsAnswered`
  makes this one exception (`Accepted`); `PartialNotAuthoritative` states the comment, and TLC finds it
  violated in the instance of `pipeline`.
* **A requested scan may wait for ever.** `run_once` polls the scheduler only when it fetched no cloud
  job (`agent.py:251`), so a cloud that has a job in every iteration starves local triggers.
  `docs/workflow.md:66-67` says that a local trigger cannot wait forever, because the cloud operations
  are bounded; what is not bounded is how many jobs follow each other. `LocalTriggerNotForever` states
  it, and TLC finds it violated in the instance of `agent_loop`; hence the condition of
  `RequestIsTakenUp` (section 5).
* A worker of the analysis ends when its lease was taken over: `fail_analysis_task` raises
  `StateConflict` where nothing catches it, while `worker.py:413` says the loop runs until it is asked
  to stop. The restart policy of the container hides it.
* An upgraded agent may not start. A status contains the scanner's version, its idempotency key does
  not; if the process dies between the enqueue and the history event, the next release queues other
  content under the same key, and the exception leaves `_cmd_agent` (`cli.py:477`) at every start.
  `scanner.py:405` says that repeating the call is safe.
* A completed scan becomes FAILED when the store fails after the result is stored but inside
  `execute`, which the comment at `scanner.py:518` rules out (`StoreFaults`).
* A tool that hangs may use all that is left of the scan's time. The pipeline then ends with the
  deadline and the native evidence collected before it is lost, where `docs/workflow.md:200` and
  `docs/teaching-guide.md:39` keep what was collected.
* Amass output that is cut at the byte limit is SUCCESS; `docs/architecture.md:173` says that
  truncated output is a failure.
* Records rejected by the normalization of optional sections are only warned about, and the Linux
  parsers skip a malformed line of the package or account database without a word.
* The deep report refuses a child that finished more than five minutes after the deadline.
* The canonical assessment falls back to OBSERVED where a section has no collector state
  (`assessment.py:495-515`; compare `docs/UI_LOCAL_WORKFLOW.md:434-436`).
* Without `scheduling.enabled` an activated policy requests no scan (`cli.py:507-515`;
  `docs/operations.md:382-383` says it does).
* The rotation keeps its promise only if the overlap outlasts a call with its retries and the margin
  the time between two iterations (`RotationAhead`, section 6). `cloud_service/config.py:72` admits an
  overlap of 0, with which the stored credential is refused from the cloud's commit until the save and
  a lost answer cannot be replayed; `app/enrollment/service.py:56` admits a margin of 0, with which the credential
  has expired when it is due. TLC finds both.
* When the active cached row does not validate, the agent starts with its local policy and makes that
  one active; the rows of the cloud, revoked ones too, are then usable again. `RevokedStaysRevoked`
  is therefore stated for caches that validate.

`docs/architecture.md:194` lists analysis attempts among what is bounded. `claim_analysis_task` adds
an attempt to an expired task without looking at the limit, which is compared in `_fail_task`, where
a worker that died does not come. What holds, and is checked and proved, is `AttemptsPerFault`.

## 5. Fairness

*Outbox.* `run_once` is called by the agent's loop for as long as it lives, and the clock advances:
weak fairness of `Tick`, and per worker of `Claim`, of some `Request` and of `Settle`. Nothing is
assumed of the answers, of crashes (a worker may crash at every request), of the operator or of
retention. `EventuallySettled` therefore has an escape, the halted stream: the code leaves a stream
behind a dead letter for the operator on purpose.

*Analysis.* `run_forever` polls, a worker that ended is restarted
(`docker-compose.cloud.yml`, `restart: unless-stopped`), and delays and abandoned leases end: weak
fairness of `Work(w)` for every worker and of `TimePasses`. Nothing is assumed of the tools, which
may fail every time. Crashes are bounded by `MaxFaults`, since a task that always kills its worker
is never reported (section 4).

*Lifecycle.* The clock advances; the agent is one sequential process whose loop goes on and which
the service manager restarts (`deployment`), so one weak fairness over its start, poll and execution
steps is enough; uploads are tried while one is due. Nothing is assumed of crashes, answers,
administrators or operators. `EvidenceArrives` has the same escape as `EventuallySettled`, a dead
letter.

*Agent loop.* A process that is down is started again by its service manager, its loop goes on, and
an operator's command comes to an end: weak fairness of `Start`, `Loop` and `Command`. Nothing is
assumed of answers, crashes, signals or assignments, nor of the cloud, which may have a job at every
iteration. `RequestIsTakenUp` therefore has a condition, that the scheduler is polled again and again
(`[]<>(stage = "poll")`): `run_once` polls only in an iteration in which the cloud handed out no job,
and without the condition the request may wait for ever (section 4). What it says is
that the startup and periodic triggers never starve the request. It ends with a crash, since the
scheduler's triggers are in memory only.

The inventory and the pipeline have safety properties only: what makes their steps happen is the
fairness of the outbox and of the lifecycle.

Weak fairness is enough everywhere: an enabled step of a loop stays enabled until that loop takes
it or another step makes its purpose moot.

## 6. What is proved

TLAPS checks the theorems below for every value of the constants allowed by the modules'
assumptions: any number of scans, workers, rows, attempts, ticks, faults, policies, settings and
requests.

| Theorem | States |
| --- | --- |
| `UploadQueueProofs!TypeCorrect` | `Spec => []TypeOK` |
| `UploadQueueProofs!AttemptsBounded` | `Spec => []AttemptBudget` |
| `UploadQueueProofs!LeasesExclusive` | `Spec => []LeaseExclusive` |
| `UploadQueueProofs!DeliveriesAccepted` | `Spec => []DeliveredIsAccepted` |
| `UploadStreamProofs!StreamInvariance` | the inductive invariant of the streams |
| `UploadStreamProofs!CausalDeliveryCorrect` | `Spec => []CausalDelivery` |
| `UploadStreamProofs!OneRecoveryCorrect` | `Spec => []OneRecoveryGeneration` |
| `UploadStreamProofs!NoCircularWaitCorrect` | `Spec => []NoCircularWait` |
| `UploadStreamProofs!ResolutionFinal` | `Spec => ResolutionIsFinal`: what is delivered stays so, and only that is deleted |
| `UploadStreamProofs!ResyncSourceCorrect` | `Spec => []ResyncSourceKept` |
| `UploadStreamProofs!LeasesFenced` | `Spec => LeaseFencing` |
| `UploadStreamProofs!OutboxInvariance` | the inductive invariant of the refinement |
| `UploadStreamProofs!OutboxImplemented` | `Spec => ImplementsOutbox`: the refinement of `DurableOutbox` |
| `UploadStreamProofs!EvidenceBeforeStatus` | `Spec => []StatusAfterEvidence`: no terminal status before its evidence |
| `AnalysisTasksProofs!TypeCorrect` | `Spec => []TypeOK` |
| `AnalysisTasksProofs!LatestAttemptCorrect` | `Spec => []LatestAttemptDecides` |
| `AnalysisTasksProofs!ReportMatchesStateCorrect` | `Spec => []ReportMatchesState` |
| `AnalysisTasksProofs!ReportIsFinalCorrect` | `Spec => ReportIsFinal` |
| `AnalysisTasksProofs!PromiseKept` | `Spec => KeepsPromise`: the refinement of `ReportPromise` |
| `AnalysisTasksProofs!AttemptsPerFaultCorrect` | `Spec => []AttemptsPerFault` |
| `ScanLifecycleProofs!TypeCorrect` | `Spec => []TypeOK` |
| `ScanLifecycleProofs!EvidenceCorrect` | `Spec => []EvidenceIsStored` |
| `ScanLifecycleProofs!ResultInTime` | `Spec => NoLateResult` |
| `ScanLifecycleProofs!ResultFinal` | `Spec => ResultIsFinal`, assuming `~StoreFaults` |
| `ScanLifecycleProofs!EndedQueued` | `Spec => []EndedIsQueued`, assuming `~StoreFaults` |
| `AgentLoopProofs!AgentInvariant` | the inductive invariant of the composed loop |
| `AgentLoopProofs!TypeCorrect` | `Spec => []TypeOK` |
| `AgentLoopProofs!StoredForward` | `Spec => StoredNeverGoesBack` |
| `AgentLoopProofs!RestartRestored` | `Spec => []RestartRestores` |
| `AgentLoopProofs!RevokedCorrect` | `Spec => []RevokedStaysRevoked` |
| `AgentLoopProofs!AccessInvariant` | the inductive invariant of the access, assuming `RotationAhead` |
| `AgentLoopProofs!AccessKept` | `Spec => []LockedOutOnlyByFaults`, assuming `RotationAhead` |
| `InventorySyncProofs!SyncInvariant` | the inductive invariant of snapshots and documents |
| `InventorySyncProofs!ReportedCorrect` | `Spec => []ReportedAsObserved` |
| `InventorySyncProofs!NeverMalformedCorrect` | `Spec => []NeverMalformed` |
| `InventorySyncProofs!OrderInvariant` | the inductive invariant of the stream without a restore |
| `InventorySyncProofs!OrderKept` | `Spec => SetBackOnlyByRestore` |
| `DeepScanProofs!DeepInvariant` | the inductive invariant of a request |
| `DeepScanProofs!TypeCorrect` | `Spec => []TypeOK` |
| `DeepScanProofs!AuthorityEarned` | `Spec => []AuthoritativeIsAnswered` |
| `DeepScanProofs!DriftEarned` | `Spec => []DriftNeedsEvidence` |
| `DeepReportProofs!CoverInvariant` | the inductive invariant of collection and report |
| `DeepReportProofs!SuccessCovers` | `Spec => []SuccessCoversNative` |
| `DeepReportProofs!CompleteCorrect` | `Spec => []CompleteHidesNothing` |

*Outbox.* `AttemptBudget` is not inductive: a claim adds a lease and an attempt, and a requeue sets
the attempts back. `SoundRow` strengthens it to `claims + limit <= granted + attempts` together
with `attempts <= limit`, and `TypeInv` says every row is sound and every worker that is not idle
holds an id and a key. `LeaseInv` is what exclusion and delivery need: a busy worker's token is at
most the row's number of claims, two busy workers on one row have different tokens, the key in hand
is the row's key, an answer "ok" in hand is of a committed key, and so is every delivered row. Most
operations only have to be shown to keep keys, claims and deliveries (`Keeps`); the claim and the
delivery mark are the two that do more.

*Streams.* None of the causal properties is inductive alone, since a link is harmless only while the
row it leads to exists. `Streams` joins them: ids are handed out in order (`FreeAbove`); a link leads
to an older row that exists, and that of a resync to one older than the row it replaces
(`LinkedBack`); what replaces a dead row is its live full resync (`ReplacedOnce`), and a resync is
never replaced (`RecoveryIsLast`); an id without a row has no links; nothing is leased or delivered
before what it is linked behind (`Causal`). There are four kinds of steps with a lemma each: a row is
appended; statuses of rows that nothing replaced change (`Moved`: leases, retries, dead letters,
requeues); a resync takes the place of a dead row; resolved rows are deleted and the links to them
become null, as the foreign key says. `ResolutionIsFinal` comes with them (`Resolves`); it is stated in
`UploadStreamProofs`, and TLC checks what it says of messages as part of the refinement. For `ResyncSourceKept` it is enough
that whatever queues a result is of a scan whose record is stored (`Sourced`).

*Refinement of the outbox.* The mapping speaks of messages where the code has rows, so the proof needs to know
that the rows of a message agree. `Letters` says that a key is queued once; that a row's group and
that of its predecessor are the stream of its message; that a row was only replaced when it was its
turn (`ReplacedInTurn`); and that a full resync which is not delivered still replaces its original
(`HasOriginal`; a delivered one may outlive it in the table). It is inductive on top of `Streams`:
`ReplacedOnce` makes the original of an undelivered resync a dead, unresolved row, which no purge takes. The hard step is
the request, because it is no transaction: the lease may be long over, the row taken by another
worker, delivered, or purged. `InTurn` says that what any worker has in its hands is either a message the cloud has or a row
that is there and behind nothing unresolved. It stays so since links are only kept or nulled (`LinksKept`), what is resolved stays
resolved (`Resolves`), and what is resolved is committed (`ResolvedCommitted`, from `LeaseInv`). Given that
invariant, `OutboxStep` has three kinds of steps: those that leave queued messages and their order alone
(`Quiet`), those that resolve exactly the rows of one message (`Answered`), and those that insert a
row for a new one, where `NewRowIsTail` shows that a scan's status is linked behind its own result.

*Evidence before its status.* The cloud refuses a terminal status of a scan whose evidence it does not
have (`validate_scan_status`), and a refused status is never resynchronised, so the order matters more
here than for any other pair. `StatusAfterEvidence` is about every scan, not about one row and its link:
`EvidenceFirst` says that while the cloud lacks the evidence, the status is not delivered, is in the
outbox when the result is, and is linked behind exactly that result (`Paired`); and that only results
have a full resync, so the status has no second row which could be free. What a worker has
in its hands cannot then be the status (`RequestAfterEvidence`, from `InTurn`). This is about the
result and status of a completed scan; the failure status of a scan without evidence is sent alone, and is what
the run `life_failure` is about. No run has this property; `EvidenceFirst` is inductive on top of the invariants above.

*Analysis.* `TypeInv` adds to the types that a worker running a task has a scan and a tool, and one
finalizing has a scan. `LatestAttemptDecides` is inductive with it: a claim changes the attempt and
the owner together, and every later write compares the owner. For the reports, `DraftInv` says that
a worker about to write has seen both tasks ended and that what it has seen is still so, which holds
because an ended task never changes again (`EndedStays`), and this needs `ReportMatchesState`, since
ingestion would otherwise recreate tasks. The refinement maps a task to its outcome and a row's
report to the outcomes it is of; `TaskStep` and `ScanStep` summarize what any step may do to the
rows, and each summary maps to `End`, `Publish` or a stutter. For the attempts, `LimitInv` counts a
crash or lost lease before the claim it permits: a running task whose lease can be taken has fewer
attempts than `MaxAttempts + faults`.

*Lifecycle.* `StoredInv` is inductive. `EvidenceIsStored` speaks of the cloud and the result table,
which meet only through the outbox, so `OutboxIsStored` says that every result in the outbox, full
resyncs included, is the stored one. A job is only completed while it has no stored result
(`HandsInv`: what the agent knows of the job in hand between two transactions), so completing it
contradicts no row already queued or accepted. `HandsInv` also keeps the budget within the deadline,
which is all that `NoLateResult` needs. The outbox enters the proofs through `Holds` (some row is of
this scan, this kind and this document) and one lemma for each way of changing it: enqueuing,
marking a row, and a refusal.

`ResultFinal` and `EndedQueued` assume that the store does not fail under `execute` (section 4
says what happens otherwise). With a stored result a job can then only be reconciled
(`FinalInv`). For the history, `HistoryInv` says that a verdict in a job's history has its status in
the outbox, that a job without a result has no other verdict there than FAILED, and, of the two
transactions of a repair or a failure, that between them the status is in the outbox already.

*Agent loop.* `StoredNeverGoesBack` needs to know what an answer in hand is worth. `CredentialInv`
says that what the cloud made for a call is its newest generation, is not stored yet, and is known
to one call only; so a save always moves forward, however the service and the command interleave.
`LockedOutOnlyByFaults` is a race against two clocks, the expiry and the overlap, and holds only under
`RotationAhead`: the margin covers a poll interval and is shorter than a credential's life, the
overlap outlasts a call, and the bound on the generations is not met before the clock stops. The
defaults (24 hours, 30 days, 5 minutes) and the run satisfy it; section 4 says what happens otherwise.
`AccessInv` says, as long as no fault outlived the retries: what is made for a call lives a whole life
from now and the generation it superseded is still accepted (`CallsCurrent`), so that a retry finds
the remembered answer; a generation that is not stored is known to a call under way; the losses
account for all attempts of a call but the last (`LossesCounted`); the service makes at most one
generation a tick (`FewGenerations`); and maintenance, once begun, ends with a credential that
outlives the next interval (`RenewedInTime`), be it the service's or the command's.

For the policies, `PolicyInv` joins `RestartRestores` with `AssignedIsActive` (the cloud's active
row is an assigned one, and cloud rows are there only under a cloud assignment).
`RevokedStaysRevoked` follows: what runs is what a restart would load, and a restart considers
assigned rows only.

*Inventory.* `SyncInv` says of the snapshots that each is a baseline or differs from a stored earlier
one by its recorded changes, and shows what was last observed; and of every document, queued or
accepted, that its parts fit the hash it names (`Fits`) and that this hash shows what was last
observed up to its scan. `DifferenceApplies` (a difference applied to the inventory it was taken from
gives the other one), `NoDifference` and the lemmas about the merge with what was not observed are the
algebra of the model's operators; with them both properties follow whatever is lost, pruned or
restored, since `reconstruct_inventory` either has the named base or refuses. The order of the
inventories is another matter and needs the whole stream: while nothing was restored, `OrderInv` says
that the cloud accepted the scans one by one, that each document builds on the scan before it, that a
row is accepted only after its predecessor, and that the only full resyncs are those of expired scans,
which are never delivered (`ResyncsInVain`). So no document that can be accepted finds its base
missing, nothing is overtaken, and only a restore forks the stream.

*Pipeline.* `AuthoritativeIsAnswered` relates what the code keeps (observed and incomplete sections)
to what was answered, which `heard` records whatever the pipeline makes of it. A source *binds* when it
shares a section with others and none may make up for it: the posture, patch and persistence
categories and the vulnerability scanners (`Binding`). `BundleSound` says, at every stage before the
last, that some source answered an observed section with accepted states only (`ObservedSound`); that a section
for which a binding source fell short is incomplete (`IncompleteSound`), so that the last stage
takes it off the observed ones; that a partial report on vulnerabilities has left a PARTIAL among the
states (`PartialShown`); and that every known control was delivered with its value (`Delivered`). For the
native stage the contributor rule has to be compared with what the checks tell of: every category a
check feeds is among its section's contributors (`FeedsContribute`), so a category that is short leaves
its sections incomplete (`ShortIsIncomplete`), and a composite section that is added was
answered by a contributor (`CompositeBacked`). `DriftNeedsEvidence` follows from the same invariant:
the verdict reads the security section only when it is observed, `Delivered` carries every known
control back to a source, and no control is known otherwise. `PartialShown` is what
`CompleteHidesNothing` needs where `AuthoritativeIsAnswered` excepts the vulnerability scanners: a
complete report names no degraded state, so none of them was partial.

The report's properties go the other way: from no failure to evidence. `CoverBundle` says that
while every state named so far is SUCCESS or a lawful SKIPPED (`Clean`), nothing is incomplete and,
after the native stage, every section of the scheduled native categories is observed; and that
what is observed some contributor delivered. It rests on one lemma per stage: a shortfall of any
check, query or tool gets a state that is not clean. `ResultCovers` carries this into the results, a
scan that was cut off being failed and not clean, and `ReportEarned` says that the report is the last
step and complete only on `Complete` evidence.

Assumptions: only the `ASSUME`s of the modules. `CredentialAssumption`, `PolicyAssumption` and
`LoopAssumption` say that bounds are naturals, that lives, attempts and intervals are at least one,
and what a document and an assignment are; `CollectionAssumption` and
`DeepScanAssumption` that settings, jobs and requests have the fields that the configuration's
models give them. `ConstantsAssumption`, `DispatchAssumption` and
`LifecycleAssumption` say that bounds are naturals, that attempt limits, timeouts and validities are
at least one, that a scan has an endpoint, that there is a finite number of jobs and a first release, and that FAILED is a
verdict; `InventoryAssumption` what an observation is, `NullAssumption` that no inventory is `None`
(the null a missing hash is compared with); `NoneAssumption` and `ReportsAssumption` that `None` and `Refused` are no identifier, no
document and no report.

## 7. What is only model-checked, and what is not modelled

Only model-checked:

* the liveness properties `EventuallySettled`, `EvidenceIsReported`, `JobsEnd`, `EvidenceArrives` and
  `RequestIsTakenUp`, which are outside the prover's reach;
* `AdvisoriesMerged`: the merge is a fold over a sequence, and what a fold computes needs an
  induction that the prover does not have.

Every other property of a passing run, invariant or action property, is a theorem. Two of them rest on
their theorem where the instance has no room: the requeues in `AttemptBudget` (`queue_workers` has
`MaxGranted` = `MaxAttempts`) and, in `ImplementsOutbox`, the late request of a second worker
(`queue_streams` has one). `AccessKept` needs
`RotationAhead`, and `ResultFinal` and `EndedQueued` need `~StoreFaults`; the others need nothing but
the modules' assumptions.

Taken as given: SQLite and PostgreSQL transactions are atomic and durable, an IMMEDIATE transaction
or a row lock excludes the others, and the declared foreign keys are enforced; a hash names its
inventory.

Not modelled, with the reasons in `PROJECT.json`: payload contents and sizes; HTTP, its in-request
retries and the cloud's HTTP layer; metadata and audit rows written next to the modelled columns, and
the local audit chain; notifications over Redis (advisory by design); the in-memory repository of the
tests; the text of commands and the parsers' fields; the option building of the tool adapters and the
osquery result cache; the merge of records other than vulnerabilities and the CycloneDX export; the
evaluation of policy rules and the risk score; the canonical assessment and the rendering of reports;
the dashboard and packaging. Of the lifecycle: scans that the endpoint schedules itself (the cloud
does not know them), the batch limit of 100 of the reconciliation and of 256 rows of a poll, the
reconciliation that the `upload` command runs, and the policy's provenance in a status.
`PeriodicScheduler`, which nothing in the agent builds, is left out of the scheduling.

## 8. What could come next

1. Local scheduling and the `upload` command's reconciliation in `ScanLifecycle`, with the proofs of
   `StoredInv` and `HistoryInv` extended to them.
2. An abstract specification of the composed lifecycle: one result per authorized job, delivered
   once accepted, over `DurableOutbox` in place of the outbox of `ScanLifecycle`.
3. The audit chain.

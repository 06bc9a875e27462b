--------------------------- MODULE ScanLifecycle ---------------------------
(***************************************************************************)
(* The life of a scan: ScanDispatch composed with the endpoint that polls, *)
(* executes and reports.  The endpoint is one agent process                *)
(* (orchestrator/agent.py, orchestrator/scanner.py) over its SQLite tables *)
(* scan_jobs, scan_results, scan_history and upload_queue.  The agent may  *)
(* die between any two transactions, and a newer release may be installed  *)
(* while it is down.                                                       *)
(*                                                                         *)
(* The outbox is UploadQueue's without leases and attempts: a row is sent  *)
(* when what it is linked behind has been delivered, by the agent's loop   *)
(* or by the upload command, and the cloud's answer is that of             *)
(* ScanDispatch.                                                           *)
(***************************************************************************)
EXTENDS ScanDispatch, Sequences

CONSTANTS
    Refusable,      \* jobs that load_job_json does not accept
    StoreFaults,    \* may the store fail when execute reads it outside its transactions?
    MaxCrashes,     \* bound: crashes of the agent
    GivesUp         \* may an upload exhaust its attempts?

ASSUME LifecycleAssumption ==
    /\ Refusable \subseteq Scans
    /\ StoreFaults \in BOOLEAN
    /\ GivesUp \in BOOLEAN
    /\ MaxCrashes \in Nat

VARIABLES
    jobs,           \* [Scans -> Job], rows of scan_jobs and of scan_history
    result,         \* [Scans -> Documents or None], rows of scan_results
    outbox,         \* sequence of Upload, rows of upload_queue by upload_id
    agent,          \* Agent, the process
    release,        \* the installed scanner version
    crashes         \* crashes so far

endpoint == <<jobs, result, outbox, agent, release, crashes>>
vars == <<scans, now, jobs, result, outbox, agent, release, crashes>>

-----------------------------------------------------------------------------
(* Data                                                                    *)

(* verdict is result_status; queued holds the verdicts of the history      *)
(* events TERMINAL_STATUS_QUEUED.                                          *)
Job ==
    [ status  : {"ABSENT", "QUEUED", "RUNNING", "COMPLETED", "FAILED"},
      verdict : Verdicts \cup {None},
      queued  : SUBSET Verdicts ]

Ended == {"COMPLETED", "FAILED"}

(* behind is the predecessor's position, by the superseder's; 0 is NULL.   *)
Upload ==
    [ scan     : Scans,
      kind     : {"result", "status", "rejection"},
      document : Documents,
      resync   : BOOLEAN,
      behind   : Nat,
      by       : Nat,
      state    : {"PENDING", "SUCCEEDED", "DEAD"} ]

(* pc names the next transaction.  until is the end of the execution       *)
(* budget.                                                                 *)
Agent ==
    [ pc    : {"down", "repairing", "repaired", "idle", "fetched", "created",
               "reconciling", "running", "stored", "failed", "reported"},
      scan  : Scans \cup {None},
      until : Nat ]

Becomes(pc, s) == agent' = [pc |-> pc, scan |-> s, until |-> 0]
Goes(pc) == agent' = [agent EXCEPT !.pc = pc]
At(pc, s) == agent.pc = pc /\ agent.scan = s

-----------------------------------------------------------------------------
(* The outbox                                                              *)

(* Idempotency keys: a result's is of the scan and its snapshot, a         *)
(* status's of the scan and its verdict.                                   *)
SameKey(u, v) ==
    /\ u.scan = v.scan /\ u.kind = v.kind /\ u.resync = v.resync
    /\ u.kind = "status" => u.document.verdict = v.document.verdict

(* enqueue_upload raises when the key was used for other content.          *)
Clashes(u) == \E i \in DOMAIN outbox : SameKey(outbox[i], u) /\ outbox[i].document # u.document

StreamTail(box) ==
    LET causal == {i \in DOMAIN box : box[i].kind # "rejection"}
        newest == {i \in causal : \A j \in causal : j <= i}
    IN  IF newest = {} THEN 0 ELSE CHOOSE i \in newest : TRUE

NewUpload(s, kind, document) ==
    [ scan |-> s, kind |-> kind, document |-> document, resync |-> FALSE,
      behind |-> 0, by |-> 0, state |-> "PENDING" ]

Enqueued(box, u) ==
    IF \E i \in DOMAIN box : SameKey(box[i], u) THEN box
    ELSE Append(box, [u EXCEPT !.behind = IF u.kind = "rejection" THEN 0 ELSE StreamTail(box)])

StatusOf(s, verdict) == NewUpload(s, "status", [verdict |-> verdict, release |-> release])
ResultOf(s, document) == NewUpload(s, "result", document)

Delivered == {i \in DOMAIN outbox : outbox[i].state = "SUCCEEDED"}

Resolved == {0} \cup Delivered \cup {i \in DOMAIN outbox : outbox[i].by \in Delivered}

Sendable(i) == i \in DOMAIN outbox /\ outbox[i].state = "PENDING" /\ outbox[i].behind \in Resolved

-----------------------------------------------------------------------------
LifecycleInit ==
    /\ DispatchInit
    /\ jobs = [s \in Scans |-> [status |-> "ABSENT", verdict |-> None, queued |-> {}]]
    /\ result = [s \in Scans |-> None]
    /\ outbox = <<>>
    /\ agent = [pc |-> "down", scan |-> None, until |-> 0]
    /\ release = 0
    /\ crashes = 0

(* The platform issues jobs and time passes whatever the endpoint does.    *)
Authorize(s) == Issue(s) /\ UNCHANGED endpoint

Tick ==
    /\ now < MaxTime
    /\ now' = now + 1
    /\ UNCHANGED <<scans, endpoint>>

-----------------------------------------------------------------------------
(* The start of the service: reconcile_terminal_statuses, then the loop.   *)

StartAgent ==
    /\ agent.pc = "down"
    /\ Becomes("repairing", None)
    /\ UNCHANGED <<scans, now, jobs, result, outbox, release, crashes>>

Unreported == {s \in Scans : jobs[s].status \in Ended /\ jobs[s].queued = {}}

(* The status is queued under the release that runs now.  A clash escapes  *)
(* to the command, which ends.                                             *)
Repair(s) ==
    /\ agent.pc = "repairing"
    /\ s \in Unreported
    /\ LET u == StatusOf(s, jobs[s].verdict) IN
        \/ ~Clashes(u) /\ outbox' = Enqueued(outbox, u) /\ Becomes("repaired", s)
        \/ Clashes(u) /\ Becomes("down", None) /\ UNCHANGED outbox
    /\ UNCHANGED <<scans, now, jobs, result, release, crashes>>

HistoryOf(s, verdict) == jobs' = [jobs EXCEPT ![s].queued = @ \cup {verdict}]

NoteRepair(s) ==
    /\ At("repaired", s)
    /\ HistoryOf(s, jobs[s].verdict)
    /\ Becomes("repairing", None)
    /\ UNCHANGED <<scans, now, result, outbox, release, crashes>>

EnterLoop ==
    /\ agent.pc = "repairing"
    /\ Unreported = {}
    /\ Becomes("idle", None)
    /\ UNCHANGED <<scans, now, jobs, result, outbox, release, crashes>>

-----------------------------------------------------------------------------
(* The poll.  rows are those that no other transaction has locked; the     *)
(* response may be lost after the cloud has committed.                     *)

Poll(rows) ==
    /\ agent.pc = "idle"
    /\ scans' = AfterPoll(rows)
    /\ \/ \E s \in Scans : Oldest(rows, s) /\ Becomes("fetched", s)
       \/ (\A s \in Scans : ~Oldest(rows, s)) /\ UNCHANGED agent
    /\ UNCHANGED <<now, jobs, result, outbox, release, crashes>>

PollUnanswered(rows) ==
    /\ agent.pc = "idle"
    /\ scans' = AfterPoll(rows)
    /\ UNCHANGED <<now, endpoint>>

RefuseJob(s) ==
    /\ At("fetched", s)
    /\ s \in Refusable
    /\ outbox' = Enqueued(outbox, NewUpload(s, "rejection", [verdict |-> "FAILED", release |-> 0]))
    /\ Becomes("idle", None)
    /\ UNCHANGED <<scans, now, jobs, result, release, crashes>>

-----------------------------------------------------------------------------
(* execute                                                                 *)

(* The authorization has ended, or the job's policy is not installed:      *)
(* only a local audit event.                                               *)
Decline(s) ==
    /\ At("fetched", s)
    /\ s \notin Refusable
    /\ Becomes("idle", None)
    /\ UNCHANGED <<scans, now, jobs, result, outbox, release, crashes>>

BudgetOfTimeout(s) == now + Timeout    \* mutant: the deadline does not cut the budget

Budget(s) ==
    LET limit == now + Timeout
    IN  IF limit < scans[s].deadline THEN limit ELSE scans[s].deadline

AcceptAgain(s) ==    \* mutant: no look for a stored result
    /\ At("fetched", s)
    /\ s \notin Refusable
    /\ now < scans[s].deadline
    /\ jobs' = IF jobs[s].status = "ABSENT" THEN [jobs EXCEPT ![s].status = "QUEUED"] ELSE jobs
    /\ agent' = [pc |-> "created", scan |-> s, until |-> Budget(s)]
    /\ UNCHANGED <<scans, now, result, outbox, release, crashes>>

Accept(s) ==
    /\ At("fetched", s)
    /\ s \notin Refusable
    /\ now < scans[s].deadline
    /\ jobs' = IF jobs[s].status = "ABSENT" THEN [jobs EXCEPT ![s].status = "QUEUED"] ELSE jobs
    /\ agent' = [ pc |-> IF result[s] = None THEN "created" ELSE "reconciling",
                  scan |-> s, until |-> Budget(s) ]
    /\ UNCHANGED <<scans, now, result, outbox, release, crashes>>

Run(s) ==
    /\ At("created", s)
    /\ jobs' = [jobs EXCEPT ![s].status = "RUNNING"]
    /\ Goes("running")
    /\ UNCHANGED <<scans, now, result, outbox, release, crashes>>

(* The result, both uploads and the end of the job in one transaction.     *)
Finished(s, document) ==
    /\ outbox' = Enqueued(Enqueued(outbox, ResultOf(s, document)), StatusOf(s, document.verdict))
    /\ jobs' = [jobs EXCEPT ![s] =
                  [ status |-> "COMPLETED", verdict |-> document.verdict,
                    queued |-> @.queued \cup {document.verdict} ]]

Complete(s) ==
    /\ At("running", s)
    /\ now < agent.until
    /\ \E v \in Verdicts :
        LET document == [verdict |-> v, release |-> release] IN
        /\ ~Clashes(StatusOf(s, v))
        /\ result' = [result EXCEPT ![s] = document]
        /\ Finished(s, document)
    /\ Becomes("stored", s)
    /\ UNCHANGED <<scans, now, release, crashes>>

(* The metrics are read from the store before execute returns.             *)
Return(s) ==
    /\ At("stored", s)
    /\ Becomes("idle", None)
    /\ UNCHANGED <<scans, now, jobs, result, outbox, release, crashes>>

(* A job that was dispatched again after its result was stored.            *)
Reconcile(s) ==
    /\ At("reconciling", s)
    /\ ~Clashes(StatusOf(s, result[s].verdict))
    /\ Finished(s, result[s])
    /\ Becomes("idle", None)
    /\ UNCHANGED <<scans, now, result, release, crashes>>

ReconcileFails(s) ==
    /\ At("reconciling", s)
    /\ Becomes("idle", None)
    /\ UNCHANGED <<scans, now, jobs, result, outbox, release, crashes>>

(* Any exception of a scan: a collector, the budget, the disk, the store.  *)
MayFail(s) ==
    \/ At("created", s)
    \/ At("running", s)
    \/ StoreFaults /\ At("stored", s)
    \/ StoreFaults /\ At("fetched", s) /\ s \notin Refusable /\ now < scans[s].deadline

FailAndNote(s) ==    \* mutant: the history event is written with the failure
    /\ MayFail(s)
    /\ jobs[s].status # "ABSENT"
    /\ jobs' = [jobs EXCEPT ![s] =
                  [status |-> "FAILED", verdict |-> "FAILED", queued |-> @.queued \cup {"FAILED"}]]
    /\ Becomes("failed", s)
    /\ UNCHANGED <<scans, now, result, outbox, release, crashes>>

Fail(s) ==
    /\ MayFail(s)
    /\ jobs[s].status # "ABSENT"
    /\ jobs' = [jobs EXCEPT ![s].status = "FAILED", ![s].verdict = "FAILED"]
    /\ Becomes("failed", s)
    /\ UNCHANGED <<scans, now, result, outbox, release, crashes>>

(* The store is not usable either, and nothing is written.                 *)
FailSilently(s) ==
    /\ MayFail(s)
    /\ Becomes("idle", None)
    /\ UNCHANGED <<scans, now, jobs, result, outbox, release, crashes>>

QueueFailure(s) ==
    /\ At("failed", s)
    /\ LET u == StatusOf(s, "FAILED") IN
        \/ ~Clashes(u) /\ outbox' = Enqueued(outbox, u) /\ Becomes("reported", s)
        \/ Becomes("idle", None) /\ UNCHANGED outbox
    /\ UNCHANGED <<scans, now, jobs, result, release, crashes>>

NoteFailure(s) ==
    /\ At("reported", s)
    /\ HistoryOf(s, "FAILED")
    /\ Becomes("idle", None)
    /\ UNCHANGED <<scans, now, result, outbox, release, crashes>>

Crash ==
    /\ agent.pc # "down"
    /\ crashes < MaxCrashes
    /\ crashes' = crashes + 1
    /\ Becomes("down", None)
    /\ UNCHANGED <<scans, now, jobs, result, outbox, release>>

Upgrade ==
    /\ agent.pc = "down"
    /\ \E r \in Releases : r > release /\ release' = r
    /\ UNCHANGED <<scans, now, jobs, result, outbox, agent, crashes>>

-----------------------------------------------------------------------------
(* Delivery                                                                *)

Answer(u) ==
    CASE u.kind = "result" -> IngestAnswer(scans[u.scan], u.resync)
      [] u.kind = "status" -> StatusAnswer(scans[u.scan], u.document)
      [] OTHER -> "ok"

Committed(u) ==
    [scans EXCEPT ![u.scan] =
        CASE u.kind = "result" -> Ingested(@, u.document, u.resync)
          [] u.kind = "status" -> StatusRecorded(@, u.document)
          [] OTHER -> Rejected(@)]

Deliver(i) ==
    /\ Sendable(i)
    /\ Answer(outbox[i]) = "ok"
    /\ scans' = Committed(outbox[i])
    /\ outbox' = [outbox EXCEPT ![i].state = "SUCCEEDED"]
    /\ UNCHANGED <<now, jobs, result, agent, release, crashes>>

(* Committed, and the answer lost: the row is sent again.                  *)
DeliverUnanswered(i) ==
    /\ Sendable(i)
    /\ Answer(outbox[i]) = "ok"
    /\ scans' = Committed(outbox[i])
    /\ UNCHANGED <<now, endpoint>>

(* schedule_full_resync for a result that was refused the first time; any  *)
(* other refusal is a dead letter.                                         *)
AfterRefusalAtTail(i) ==    \* mutant: the full resync joins the end of the stream
    LET u == outbox[i] IN
    IF u.kind = "result" /\ ~u.resync
    THEN Append([outbox EXCEPT ![i].state = "DEAD", ![i].by = Len(outbox) + 1],
                [u EXCEPT !.resync = TRUE, !.behind = StreamTail(outbox)])
    ELSE [outbox EXCEPT ![i].state = "DEAD"]

AfterRefusal(i) ==
    LET u == outbox[i] IN
    IF u.kind = "result" /\ ~u.resync
    THEN Append([outbox EXCEPT ![i].state = "DEAD", ![i].by = Len(outbox) + 1],
                [u EXCEPT !.resync = TRUE])
    ELSE [outbox EXCEPT ![i].state = "DEAD"]

(* A difference may also disagree with the cloud's inventory.              *)
Disagrees(u) == u.kind = "result" /\ ~u.resync /\ scans[u.scan].upload = None

Refused(i) ==
    /\ Sendable(i)
    /\ Answer(outbox[i]) = "conflict" \/ Disagrees(outbox[i])
    /\ outbox' = AfterRefusal(i)
    /\ UNCHANGED <<scans, now, jobs, result, agent, release, crashes>>

(* The attempts are exhausted.                                             *)
GiveUp(i) ==
    /\ GivesUp
    /\ Sendable(i)
    /\ outbox' = [outbox EXCEPT ![i].state = "DEAD"]
    /\ UNCHANGED <<scans, now, jobs, result, agent, release, crashes>>

Requeue(i) ==
    /\ i \in DOMAIN outbox
    /\ outbox[i].state = "DEAD" /\ outbox[i].by = 0
    /\ outbox' = [outbox EXCEPT ![i].state = "PENDING"]
    /\ UNCHANGED <<scans, now, jobs, result, agent, release, crashes>>

-----------------------------------------------------------------------------
Serve == StartAgent \/ EnterLoop \/ \E s \in Scans : Repair(s) \/ NoteRepair(s)

Execute(s) ==
    \/ RefuseJob(s) \/ Decline(s) \/ Accept(s) \/ Run(s) \/ Complete(s) \/ Return(s)
    \/ Reconcile(s) \/ ReconcileFails(s) \/ Fail(s) \/ FailSilently(s)
    \/ QueueFailure(s) \/ NoteFailure(s)

Send(i) == Deliver(i) \/ Refused(i)

Next ==
    \/ Tick \/ Crash \/ Upgrade \/ Serve
    \/ \E s \in Scans : Authorize(s) \/ Execute(s)
    \/ \E rows \in SUBSET Waiting : Poll(rows) \/ PollUnanswered(rows)
    \/ \E i \in DOMAIN outbox : Send(i) \/ DeliverUnanswered(i) \/ GiveUp(i) \/ Requeue(i)

Spec == LifecycleInit /\ [][Next]_vars

(* The agent is one sequential process: its loop goes on, and the service  *)
(* manager starts it again.  Uploads are tried for as long as one is due.  *)
(* Nothing is assumed of scans, answers, administrators or operators.      *)
Fairness ==
    /\ WF_vars(Tick)
    /\ WF_vars(Serve \/ Poll(Waiting) \/ \E s \in Scans : Execute(s))
    /\ WF_vars(\E i \in DOMAIN outbox : Send(i))

FairSpec == Spec /\ Fairness

-----------------------------------------------------------------------------
(* Safety                                                                  *)

(* The types of all rows of both sides and of the agent's memory.          *)
TypeOK ==
    /\ scans \in [Scans -> ScanRecord]
    /\ now \in 0 .. MaxTime
    /\ jobs \in [Scans -> Job]
    /\ result \in [Scans -> Documents \cup {None}]
    /\ outbox \in Seq(Upload)
    /\ agent \in Agent
    /\ release \in Releases
    /\ crashes \in 0 .. MaxCrashes

(* What the cloud has accepted as evidence is the result that the endpoint *)
(* has stored, and a terminal status is of that evidence: through failed   *)
(* attempts, repeated dispatches, replays and upgrades (ingest_scan,       *)
(* validate_scan_status).                                                  *)
EvidenceIsStored ==
    \A s \in Scans :
        /\ scans[s].upload # None => scans[s].upload = result[s]
        /\ scans[s].status # None => scans[s].status = result[s]

QueuedStatus(s, verdict) ==
    \E i \in DOMAIN outbox :
        outbox[i].scan = s /\ outbox[i].kind = "status" /\ outbox[i].document.verdict = verdict

(* terminal_scan_jobs leaves out every job that has any history event      *)
(* TERMINAL_STATUS_QUEUED, of whichever status and attempt: such a job's   *)
(* own status is in the outbox whenever the process died.                  *)
EndedIsQueued ==
    \A s \in Scans :
        jobs[s].status \in Ended /\ jobs[s].queued # {} => QueuedStatus(s, jobs[s].verdict)

(* No evidence is produced after the authorization has ended: the          *)
(* execution budget is cut at the job's deadline and checked in the        *)
(* completing transaction (execute, _require_execution_time).              *)
NoLateResult ==
    [][\A s \in Scans : result'[s] # result[s] => now < scans[s].deadline]_vars

(* A stored result is authoritative: no repeated dispatch, crash or        *)
(* upgrade replaces it or turns its job into another one (execute).        *)
ResultIsFinal ==
    [][\A s \in Scans :
        result[s] # None => result'[s] = result[s] /\ jobs'[s].status = "COMPLETED"]_vars

(* The upload grace: a result is not refused for good before the grace     *)
(* after its deadline is over (SCAN_UPLOAD_GRACE_SECONDS).                 *)
GraceHonoured ==
    \A i \in DOMAIN outbox :
        outbox[i].kind = "result" /\ outbox[i].state = "DEAD" /\ outbox[i].by = 0
            => now > scans[outbox[i].scan].deadline + UploadGrace

-----------------------------------------------------------------------------
(* Liveness                                                                *)

(* Every authorized job leaves the dispatcher: it expires, is rejected, or *)
(* its evidence arrives (claim_next_job).                                  *)
JobsEnd ==
    \A s \in Scans :
        scans[s].state \in {"QUEUED", "DISPATCHED"}
            ~> scans[s].state \notin {"QUEUED", "DISPATCHED"}

DeadLetter == \E i \in DOMAIN outbox : outbox[i].state = "DEAD" /\ outbox[i].by = 0

(* A stored result reaches the cloud, or a dead letter shows the operator  *)
(* why not; it does not wait silently (run_once of the upload worker).     *)
EvidenceArrives ==
    \A s \in Scans : result[s] # None ~> scans[s].upload # None \/ DeadLetter

(* A queued FAILED status is delivered in the end                          *)
(* (reconcile_terminal_statuses: "durable eventual delivery").             *)
FailureDelivered ==
    \A s \in Scans :
        QueuedStatus(s, "FAILED") /\ jobs[s].status = "FAILED"
            ~> scans[s].status # None \/ jobs[s].status # "FAILED"
=============================================================================

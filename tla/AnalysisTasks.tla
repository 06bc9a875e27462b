--------------------------- MODULE AnalysisTasks ---------------------------
(***************************************************************************)
(* The cloud's analysis of accepted evidence: the tables scanner_scans and *)
(* scanner_analysis_tasks, the transactions that change them               *)
(* (cloud_service/postgres.py) and the workers that claim, run, retry and  *)
(* finalize (cloud_service/worker.py).  Every transaction is one step; a   *)
(* worker holds in memory what it read and may be overtaken, outlive its   *)
(* lease, or die between any two of them.                                  *)
(*                                                                         *)
(* The tools and the merge of their results are external: a tool run       *)
(* succeeds, fails for now, or fails for good.                             *)
(***************************************************************************)
EXTENDS Integers

CONSTANTS
    Scans,          \* scans created and dispatched to an endpoint
    Unmergeable,    \* outcomes of the tools whose results build_final_report refuses for good
    Workers,        \* worker processes, by worker_id
    KindsOf,        \* [Workers -> SUBSET Tools]: WorkerSettings.kinds
    MaxAttempts,    \* WorkerSettings.max_attempts
    MaxFaults,      \* bound: crashes and leases that end under a live worker
    Refused,        \* the report of finalize_scan_report_failure
    None            \* SQL NULL

Tools == {"OSV", "DEPSCAN"}
Terminal == {"SUCCEEDED", "FAILED"}

ASSUME ConstantsAssumption ==
    /\ Unmergeable \subseteq [Tools -> Terminal]
    /\ KindsOf \in [Workers -> (SUBSET Tools) \ {{}}]
    /\ MaxAttempts \in Nat \ {0}
    /\ MaxFaults \in Nat
    /\ None \notin Scans \cup Workers \cup Tools

VARIABLES
    scan,           \* [Scans -> Scan], rows of scanner_scans
    task,           \* [Scans -> [Tools -> Task]], rows of scanner_analysis_tasks
    worker,         \* [Workers -> Worker], what a worker has in its hands
    faults          \* faults so far

vars == <<scan, task, worker, faults>>

-----------------------------------------------------------------------------
(* Data                                                                    *)

(* ready: the row's time has come, available_at for a waiting task and     *)
(* lease_expires_at for a running one.  endedBy: the attempt that stored   *)
(* the result or the last error of a task that has ended.                  *)
Task ==
    [ state    : {"ABSENT", "PENDING", "RUNNING", "RETRY"} \cup Terminal,
      attempts : Nat,
      leasedBy : Workers \cup {None},
      ready    : BOOLEAN,
      endedBy  : Nat ]

Absent == [state |-> "ABSENT", attempts |-> 0, leasedBy |-> None, ready |-> FALSE, endedBy |-> 0]
Pending == [Absent EXCEPT !.state = "PENDING", !.ready = TRUE]

Open == [state |-> "OPEN", attempt |-> 0]
Outcomes == [state : Terminal, attempt : Nat]

Outcome(t) ==
    IF t.state \in Terminal THEN [state |-> t.state, attempt |-> t.endedBy] ELSE Open

(* A report is of the tools' outcomes.  When no tool has a completion time *)
(* it carries the clock of the worker that built it, so that two workers'  *)
(* reports differ.                                                         *)
Report == [of : [Tools -> Outcomes], builtBy : Workers \cup {None}]

ASSUME ReportsAssumption == None \notin Report /\ Refused \notin Report /\ None # Refused

MergedReport(w, results) ==
    [ of |-> results,
      builtBy |-> IF \A k \in Tools : results[k].state = "FAILED" THEN w ELSE None ]

(* refusal: a rejection was recorded under its idempotency key.            *)
Scan ==
    [ state   : {"DISPATCHED", "ANALYZING", "COMPLETE", "REJECTED"},
      refusal : BOOLEAN,
      report  : Report \cup {None, Refused} ]

(* pc names the next storage call or tool run; via tells from where        *)
(* finalize_ready_scan was called.                                         *)
Worker ==
    [ pc      : {"idle", "polled", "analyzing", "storing", "failing", "merging",
                 "writing", "refusing", "stopped"},
      scan    : Scans \cup {None},
      kind    : Tools \cup {None},
      attempt : Nat,
      failure : {"transient", "permanent", None},
      via     : {"success", "failure", "reconcile", None},
      draft   : Report \cup {None},
      turn    : Tools ]

Other(k) == CHOOSE o \in Tools : o # k

(* Back to the loop of run_forever; only the rotation index is kept.       *)
Loop(w, pc) ==
    [ pc |-> pc, scan |-> None, kind |-> None, attempt |-> 0, failure |-> None,
      via |-> None, draft |-> None, turn |-> worker[w].turn ]

FirstTurn(w) == IF "OSV" \in KindsOf[w] THEN "OSV" ELSE "DEPSCAN"

Becomes(w, r) == worker' = [worker EXCEPT ![w] = r]

-----------------------------------------------------------------------------
(* The API                                                                 *)

(* ingest_scan: only a dispatched scan without evidence; the tasks of both *)
(* tools are created in the same transaction.                              *)
Ingest(s) ==
    /\ scan[s].state = "DISPATCHED"
    /\ scan' = [scan EXCEPT ![s].state = "ANALYZING"]
    /\ task' = [task EXCEPT ![s] = [k \in Tools |-> Pending]]
    /\ UNCHANGED <<worker, faults>>

(* record_rejection sets the state whatever it was; the same document      *)
(* again is a replay and changes nothing.                                  *)
RecordRejection(s) ==
    /\ ~scan[s].refusal
    /\ scan' = [scan EXCEPT ![s].state = "REJECTED", ![s].refusal = TRUE]
    /\ UNCHANGED <<task, worker, faults>>

-----------------------------------------------------------------------------
(* The transactions on a task                                              *)

Claimable(t) == t.state \in {"PENDING", "RETRY", "RUNNING"} /\ t.ready

Claimed(t, w) ==
    [t EXCEPT !.state = "RUNNING", !.leasedBy = w, !.ready = FALSE, !.attempts = @ + 1]

(* Mutant: the owner of the lease is not compared.                         *)
LeasedByAnyone(t, w) == t.state = "RUNNING"

(* WHERE task_id=? AND state='RUNNING' AND leased_by=?                     *)
LeasedBy(t, w) == t.state = "RUNNING" /\ t.leasedBy = w

Ended(t, state, attempt) ==
    [t EXCEPT !.state = state, !.leasedBy = None, !.ready = FALSE, !.endedBy = attempt]

(* Mutant: a state the column's CHECK does not know.                       *)
DelayedAsRetrying(t) == [t EXCEPT !.state = "RETRYING", !.leasedBy = None, !.ready = FALSE]

Due(t) == [t EXCEPT !.ready = TRUE]

Delayed(t) == [t EXCEPT !.state = "RETRY", !.leasedBy = None, !.ready = FALSE]

(* Mutant: one attempt too many.                                           *)
DeadLetterLate(u) == u.failure = "permanent" \/ u.attempt > MaxAttempts

DeadLetter(u) == u.failure = "permanent" \/ u.attempt >= MaxAttempts

-----------------------------------------------------------------------------
(* The worker                                                              *)

(* Kinds with a claimable row.  Which of several rows of a kind is taken   *)
(* is left open: the oldest, unless another claim has it locked.           *)
Offered(w) == {k \in KindsOf[w] : \E s \in Scans : Claimable(task[s][k])}

(* claim_analysis_task for each kind in turn, starting with the next one.  *)
Claim(w) ==
    /\ worker[w].pc = "idle"
    /\ \E k \in Offered(w), s \in Scans :
          /\ worker[w].turn \in Offered(w) => k = worker[w].turn
          /\ Claimable(task[s][k])
          /\ task' = [task EXCEPT ![s][k] = Claimed(@, w)]
          /\ Becomes(w, [Loop(w, "analyzing") EXCEPT
                           !.scan = s, !.kind = k, !.attempt = task[s][k].attempts + 1,
                           !.turn = IF Other(k) \in KindsOf[w] THEN Other(k) ELSE k])
    /\ UNCHANGED <<scan, faults>>

(* Nothing to claim: reconciliation is next.                               *)
Poll(w) ==
    /\ worker[w].pc = "idle"
    /\ Offered(w) = {}
    /\ Becomes(w, Loop(w, "polled"))
    /\ UNCHANGED <<scan, task, faults>>

(* _load_scan_input and analyze_tool; every error of theirs is caught.     *)
Analyze(w) ==
    /\ worker[w].pc = "analyzing"
    /\ \/ Becomes(w, [worker[w] EXCEPT !.pc = "storing"])
       \/ \E f \in {"transient", "permanent"} :
             Becomes(w, [worker[w] EXCEPT !.pc = "failing", !.failure = f])
    /\ UNCHANGED <<scan, task, faults>>

(* complete_analysis_task.  When the lease is no longer this worker's the  *)
(* StateConflict is handled like a tool failure.                           *)
Store(w) ==
    LET u == worker[w] IN
    /\ u.pc = "storing"
    /\ IF LeasedBy(task[u.scan][u.kind], w)
       THEN /\ task' = [task EXCEPT ![u.scan][u.kind] = Ended(@, "SUCCEEDED", u.attempt)]
            /\ Becomes(w, [u EXCEPT !.pc = "merging", !.via = "success"])
       ELSE /\ Becomes(w, [u EXCEPT !.pc = "failing", !.failure = "transient"])
            /\ UNCHANGED task
    /\ UNCHANGED <<scan, faults>>

(* fail_analysis_task from _fail_task.  Here nothing catches the           *)
(* StateConflict: it leaves run_once and run_forever and ends the process. *)
Fail(w) ==
    LET u == worker[w]
        t == task[u.scan][u.kind]
    IN
    /\ u.pc = "failing"
    /\ \/ /\ ~LeasedBy(t, w)
          /\ Becomes(w, Loop(w, "stopped"))
          /\ UNCHANGED task
       \/ /\ LeasedBy(t, w)
          /\ DeadLetter(u)
          /\ task' = [task EXCEPT ![u.scan][u.kind] = Ended(@, "FAILED", u.attempt)]
          /\ Becomes(w, [u EXCEPT !.pc = "merging", !.via = "failure"])
       \/ /\ LeasedBy(t, w)
          /\ ~DeadLetter(u)
          /\ task' = [task EXCEPT ![u.scan][u.kind] = Delayed(@)]
          /\ Becomes(w, Loop(w, "idle"))
    /\ UNCHANGED <<scan, faults>>

Results(s) == [k \in Tools |-> Outcome(task[s][k])]
AllEnded(s) == \A k \in Tools : task[s][k].state \in Terminal

(* A persisted result that is no longer acceptable, or more vulnerabilities *)
(* together than a report may have.                                        *)
CannotMerge(s) == [k \in Tools |-> task[s][k].state] \in Unmergeable

(* Mutant: the first result is enough.                                     *)
MergeOfSomeResults(w) ==
    LET u == worker[w] IN
    /\ u.pc = "merging"
    /\ Becomes(w, [u EXCEPT !.pc = IF CannotMerge(u.scan) THEN "refusing" ELSE "writing",
                            !.draft = MergedReport(w, Results(u.scan))])
    /\ UNCHANGED <<scan, task, faults>>

(* finalize_ready_scan up to its write: read the results, give up when one *)
(* is missing, merge.  A PermanentAnalysisError is suppressed after a dead *)
(* letter and otherwise leads to finalize_scan_report_failure.             *)
Merge(w) ==
    LET u == worker[w] IN
    /\ u.pc = "merging"
    /\ \/ /\ ~AllEnded(u.scan) \/ (CannotMerge(u.scan) /\ u.via = "failure")
          /\ Becomes(w, Loop(w, "idle"))
       \/ /\ AllEnded(u.scan)
          /\ CannotMerge(u.scan)
          /\ u.via # "failure"
          /\ Becomes(w, [u EXCEPT !.pc = "refusing"])
       \/ /\ AllEnded(u.scan)
          /\ ~CannotMerge(u.scan)
          /\ Becomes(w, [u EXCEPT !.pc = "writing", !.draft = MergedReport(w, Results(u.scan))])
    /\ UNCHANGED <<scan, task, faults>>

(* Mutant: the report is written over whatever is there.                   *)
PublishAlways(s, r) ==
    scan' = [scan EXCEPT ![s].state = "COMPLETE", ![s].report = r]

(* Mutant: the state is left to somebody else.                             *)
PublishWithoutState(s, r) ==
    IF scan[s].report = None THEN scan' = [scan EXCEPT ![s].report = r] ELSE UNCHANGED scan

(* The report is written once; the scan's state is not looked at.          *)
PublishReport(s, r) ==
    IF scan[s].report = None
    THEN scan' = [scan EXCEPT ![s].state = "COMPLETE", ![s].report = r]
    ELSE UNCHANGED scan

(* finalize_scan_report.  Another report, or a task that has not ended, is *)
(* a StateConflict, which every caller catches.                            *)
Write(w) ==
    LET u == worker[w] IN
    /\ u.pc = "writing"
    /\ IF AllEnded(u.scan) THEN PublishReport(u.scan, u.draft) ELSE UNCHANGED scan
    /\ Becomes(w, Loop(w, "idle"))
    /\ UNCHANGED <<task, faults>>

(* finalize_scan_report_failure.                                           *)
Refuse(w) ==
    /\ worker[w].pc = "refusing"
    /\ PublishReport(worker[w].scan, Refused)
    /\ Becomes(w, Loop(w, "idle"))
    /\ UNCHANGED <<task, faults>>

(* Mutant: a scan with a dead letter is never picked up.                   *)
ReadyWithoutDeadLetters(s) ==
    /\ scan[s].state = "ANALYZING"
    /\ scan[s].report = None
    /\ \A k \in Tools : task[s][k].state = "SUCCEEDED"

ReadyForFinalization(s) ==
    /\ scan[s].state = "ANALYZING"
    /\ scan[s].report = None
    /\ AllEnded(s)

(* next_scan_ready_for_finalization; which of several is left open.        *)
Reconcile(w) ==
    /\ worker[w].pc = "polled"
    /\ \/ \E s \in Scans :
             /\ ReadyForFinalization(s)
             /\ Becomes(w, [Loop(w, "merging") EXCEPT !.scan = s, !.via = "reconcile"])
       \/ /\ \A s \in Scans : ~ReadyForFinalization(s)
          /\ Becomes(w, Loop(w, "idle"))
    /\ UNCHANGED <<scan, task, faults>>

(* The service manager restarts a worker that ended.                       *)
Restart(w) ==
    /\ worker[w].pc = "stopped"
    /\ Becomes(w, [Loop(w, "idle") EXCEPT !.turn = FirstTurn(w)])
    /\ UNCHANGED <<scan, task, faults>>

-----------------------------------------------------------------------------
(* Time and faults                                                         *)

AtWork(s, k) ==
    \E w \in Workers :
        /\ worker[w].pc \in {"analyzing", "storing", "failing"}
        /\ worker[w].scan = s
        /\ worker[w].kind = k
        /\ LeasedBy(task[s][k], w)

(* A retry delay ends, or the lease of a worker that is gone.              *)
TimePasses(s, k) ==
    /\ task[s][k].state \in {"RETRY", "RUNNING"}
    /\ ~task[s][k].ready
    /\ ~AtWork(s, k)
    /\ task' = [task EXCEPT ![s][k] = Due(@)]
    /\ UNCHANGED <<scan, worker, faults>>

(* A lease ends under a worker that still runs: the process or the host    *)
(* stalled, or the claiming host's clock is ahead (claims compare the      *)
(* lease with their own clock).                                            *)
LeaseOutrun(s, k) ==
    /\ faults < MaxFaults
    /\ ~task[s][k].ready
    /\ AtWork(s, k)
    /\ task' = [task EXCEPT ![s][k] = Due(@)]
    /\ faults' = faults + 1
    /\ UNCHANGED <<scan, worker>>

(* The process dies anywhere; a database error that is no RuntimeError     *)
(* ends it too.                                                            *)
Crash(w) ==
    /\ faults < MaxFaults
    /\ worker[w].pc \notin {"idle", "polled", "stopped"}
    /\ Becomes(w, Loop(w, "stopped"))
    /\ faults' = faults + 1
    /\ UNCHANGED <<scan, task>>

-----------------------------------------------------------------------------
(* Specification                                                           *)

Init ==
    /\ scan = [s \in Scans |-> [state |-> "DISPATCHED", refusal |-> FALSE, report |-> None]]
    /\ task = [s \in Scans |-> [k \in Tools |-> Absent]]
    /\ worker = [w \in Workers |->
                   [ pc |-> "idle", scan |-> None, kind |-> None, attempt |-> 0,
                     failure |-> None, via |-> None, draft |-> None, turn |-> FirstTurn(w) ]]
    /\ faults = 0

Finalize(w) == Merge(w) \/ Write(w) \/ Refuse(w)

Work(w) ==
    \/ Claim(w) \/ Poll(w) \/ Reconcile(w)
    \/ Analyze(w) \/ Store(w) \/ Fail(w)
    \/ Finalize(w)
    \/ Restart(w)

Next ==
    \/ \E s \in Scans : Ingest(s) \/ RecordRejection(s)
    \/ \E s \in Scans, k \in Tools : TimePasses(s, k) \/ LeaseOutrun(s, k)
    \/ \E w \in Workers : Work(w) \/ Crash(w)

Spec == Init /\ [][Next]_vars

(* Workers poll for ever and are restarted, and time passes.  Nothing is   *)
(* assumed of the tools: a task may fail every time it is run.             *)
Fairness ==
    /\ \A w \in Workers : WF_vars(Work(w))
    /\ \A s \in Scans, k \in Tools : WF_vars(TimePasses(s, k))

FairSpec == Spec /\ Fairness

-----------------------------------------------------------------------------
(* Properties                                                              *)

(* Rows and workers are well typed.                                        *)
TypeOK ==
    /\ scan \in [Scans -> Scan]
    /\ task \in [Scans -> [Tools -> Task]]
    /\ worker \in [Workers -> Worker]
    /\ faults \in 0 .. MaxFaults

(* A worker that was overtaken changes nothing: a task ends with the       *)
(* result of its latest attempt, and a lease names the attempt its owner   *)
(* is running (complete_analysis_task, fail_analysis_task).                *)
LatestAttemptDecides ==
    \A s \in Scans, k \in Tools :
        LET t == task[s][k] IN
        /\ t.state \in Terminal => t.endedBy = t.attempts
        /\ \A w \in Workers :
              (/\ LeasedBy(t, w)
               /\ worker[w].scan = s
               /\ worker[w].kind = k) => worker[w].attempt = t.attempts

(* The state of a scan and its report agree: COMPLETE has one, a report    *)
(* stays with the scan even when a late rejection hides the state, and no  *)
(* scan is under analysis once it has one.                                 *)
ReportMatchesState ==
    \A s \in Scans :
        /\ scan[s].state = "COMPLETE" => scan[s].report # None
        /\ scan[s].report # None => scan[s].state \in {"COMPLETE", "REJECTED"}
        /\ scan[s].state = "DISPATCHED" => \A k \in Tools : task[s][k].state = "ABSENT"

(* A task is run at most max_attempts times, and once more for each crash  *)
(* or lost lease: the retry limit is compared only when an attempt fails.  *)
AttemptsPerFault ==
    \A s \in Scans, k \in Tools : task[s][k].attempts <= MaxAttempts + faults

(* The tables keep the promise of ReportPromise: each task ends once, one  *)
(* report is published once, and it is of the outcomes both tools ended    *)
(* with.                                                                   *)
Promise == INSTANCE ReportPromise WITH
    outcome <- [s \in Scans |-> Results(s)],
    report  <- [s \in Scans |-> IF scan[s].report \in {None, Refused}
                                THEN scan[s].report
                                ELSE scan[s].report.of]

KeepsPromise == Promise!PromiseSpec

(* A published report is never replaced, by a slower worker's or by the    *)
(* failure report (finalize_scan_report, finalize_scan_report_failure).    *)
ReportIsFinal ==
    [][\A s \in Scans : scan[s].report # None => scan'[s].report = scan[s].report]_vars

(* Accepted evidence is reported or rejected: retries, dead letters,       *)
(* crashes before finalization and merges that fail never leave a scan     *)
(* under analysis for ever (run_once's reconciliation).                    *)
EvidenceIsReported ==
    \A s \in Scans :
        scan[s].state = "ANALYZING" ~> scan[s].report # None \/ scan[s].state = "REJECTED"
=============================================================================

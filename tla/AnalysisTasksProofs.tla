------------------------ MODULE AnalysisTasksProofs ------------------------
(***************************************************************************)
(* Proofs about AnalysisTasks, for every set of scans and workers, every   *)
(* retry limit and every number of faults.                                 *)
(***************************************************************************)
EXTENDS AnalysisTasks, TLAPS

-----------------------------------------------------------------------------
(* Typing                                                                  *)

(* What a worker has in its hands is a task while it runs one, and a scan  *)
(* while it finalizes one.                                                 *)
OnTask(u) == u.pc \in {"analyzing", "storing", "failing"}
OnScan(u) == u.pc \in {"merging", "writing", "refusing"}

Hands ==
    {u \in Worker :
        /\ OnTask(u) => u.scan \in Scans /\ u.kind \in Tools
        /\ OnScan(u) => u.scan \in Scans
        /\ u.pc = "writing" => u.draft \in Report}

TypeInv ==
    /\ scan \in [Scans -> Scan]
    /\ task \in [Scans -> [Tools -> Task]]
    /\ worker \in [Workers -> Hands]
    /\ faults \in 0 .. MaxFaults

LEMMA TypeInvImplies == TypeInv => TypeOK
BY DEF TypeInv, TypeOK, Hands

LEMMA TurnTypes ==
    /\ \A k \in Tools : Other(k) \in Tools
    /\ \A w \in Workers : FirstTurn(w) \in Tools
<1>1. \A k \in Tools : \E o \in Tools : o # k
  BY DEF Tools
<1>2. ASSUME NEW k \in Tools PROVE Other(k) \in Tools
  BY <1>1 DEF Other
<1>3. ASSUME NEW w \in Workers PROVE FirstTurn(w) \in Tools
  BY DEF FirstTurn, Tools
<1> QED
  BY <1>2, <1>3

LEMMA NewTaskTypes == Absent \in Task /\ Pending \in Task
BY DEF Task, Absent, Pending

LEMMA DueType == ASSUME NEW t \in Task PROVE Due(t) \in Task
BY DEF Task, Due

LEMMA EndedType ==
    ASSUME NEW t \in Task, NEW state \in Terminal, NEW a \in Nat
    PROVE  Ended(t, state, a) \in Task
BY DEF Task, Ended

LEMMA TaskTypes ==
    ASSUME NEW t \in Task, NEW w \in Workers, NEW a \in Nat
    PROVE  /\ Claimed(t, w) \in Task
           /\ Delayed(t) \in Task
           /\ Ended(t, "SUCCEEDED", a) \in Task
           /\ Ended(t, "FAILED", a) \in Task
<1>1. Claimed(t, w) \in Task
  <2>1. t.attempts + 1 \in Nat
    BY DEF Task
  <2> QED
    BY <2>1 DEF Task, Claimed
<1>2. Delayed(t) \in Task
  BY DEF Task, Delayed
<1>3. \A state \in Terminal : Ended(t, state, a) \in Task
  BY EndedType
<1> QED
  BY <1>1, <1>2, <1>3 DEF Terminal

LEMMA LoopType ==
    ASSUME TypeInv, NEW w \in Workers, NEW pc \in {"idle", "polled", "stopped"}
    PROVE  Loop(w, pc) \in Hands
<1>1. worker[w].turn \in Tools
  BY DEF TypeInv, Hands, Worker
<1> QED
  BY <1>1 DEF Loop, Hands, Worker, OnTask, OnScan

LEMMA OutcomeType ==
    ASSUME NEW t \in Task, t.state \in Terminal
    PROVE  Outcome(t) \in Outcomes
BY DEF Outcome, Outcomes, Task, Terminal

LEMMA ReportType ==
    ASSUME TypeInv, NEW w \in Workers, NEW s \in Scans, AllEnded(s)
    PROVE  MergedReport(w, Results(s)) \in Report
<1>1. \A k \in Tools : Outcome(task[s][k]) \in Outcomes
  BY OutcomeType DEF TypeInv, AllEnded
<1>2. Results(s) \in [Tools -> Outcomes]
  BY <1>1 DEF Results
<1> QED
  BY <1>2 DEF MergedReport, Report

-----------------------------------------------------------------------------
(* The steps of the API, of time and of faults                             *)

LEMMA WorldTypes ==
    ASSUME TypeInv, NEW s \in Scans,
           \/ Ingest(s)
           \/ RecordRejection(s)
           \/ \E k \in Tools : TimePasses(s, k) \/ LeaseOutrun(s, k)
    PROVE  TypeInv'
<1> USE DEF TypeInv
<1>1. CASE Ingest(s)
  <2>1. scan' \in [Scans -> Scan]
    BY <1>1 DEF Ingest, Scan
  <2>2. task' \in [Scans -> [Tools -> Task]]
    BY <1>1, NewTaskTypes DEF Ingest
  <2> QED
    BY <1>1, <2>1, <2>2 DEF Ingest
<1>2. CASE RecordRejection(s)
  BY <1>2 DEF RecordRejection, Scan
<1>3. ASSUME NEW k \in Tools, TimePasses(s, k) \/ LeaseOutrun(s, k)
      PROVE  TypeInv'
  <2>1. task' = [task EXCEPT ![s][k] = Due(@)]
    BY <1>3 DEF TimePasses, LeaseOutrun
  <2>2. Due(task[s][k]) \in Task
    BY DueType
  <2>3. task' \in [Scans -> [Tools -> Task]]
    BY <2>1, <2>2
  <2>4. faults' \in 0 .. MaxFaults /\ UNCHANGED <<scan, worker>>
    BY <1>3, ConstantsAssumption DEF TimePasses, LeaseOutrun
  <2> QED
    BY <2>3, <2>4
<1> QED
  BY <1>1, <1>2, <1>3

-----------------------------------------------------------------------------
(* The steps of a worker                                                   *)

LEMMA BecomesType ==
    ASSUME TypeInv, NEW w \in Workers, NEW r \in Hands, Becomes(w, r)
    PROVE  worker' \in [Workers -> Hands]
BY DEF TypeInv, Becomes

LEMMA TaskUpdateType ==
    ASSUME TypeInv, NEW s \in Scans, NEW k \in Tools, NEW t \in Task,
           task' = [task EXCEPT ![s][k] = t]
    PROVE  task' \in [Scans -> [Tools -> Task]]
BY DEF TypeInv

LEMMA WorkerFields ==
    ASSUME TypeInv, NEW w \in Workers
    PROVE  /\ worker[w] \in Worker
           /\ worker[w].attempt \in Nat
           /\ worker[w].turn \in Tools
           /\ OnTask(worker[w]) => worker[w].scan \in Scans /\ worker[w].kind \in Tools
           /\ OnScan(worker[w]) => worker[w].scan \in Scans
           /\ worker[w].pc = "writing" => worker[w].draft \in Report
BY DEF TypeInv, Hands, Worker

LEMMA ClaimTypes ==
    ASSUME TypeInv, NEW w \in Workers, Claim(w)
    PROVE  TypeInv'
<1>1. PICK k \in Offered(w), s \in Scans :
         /\ task' = [task EXCEPT ![s][k] = Claimed(@, w)]
         /\ Becomes(w, [Loop(w, "analyzing") EXCEPT
                          !.scan = s, !.kind = k, !.attempt = task[s][k].attempts + 1,
                          !.turn = IF Other(k) \in KindsOf[w] THEN Other(k) ELSE k])
  BY DEF Claim
<1>2. k \in Tools
  BY ConstantsAssumption DEF Offered
<1>3. task[s][k] \in Task
  BY <1>2 DEF TypeInv
<1>4. Claimed(task[s][k], w) \in Task
  BY <1>3, TaskTypes
<1>5. task' \in [Scans -> [Tools -> Task]]
  BY <1>1, <1>2, <1>4, TaskUpdateType
<1>6. task[s][k].attempts + 1 \in Nat
  BY <1>3 DEF Task
<1> DEFINE turn == IF Other(k) \in KindsOf[w] THEN Other(k) ELSE k
<1>7. turn \in Tools
  BY <1>2, TurnTypes
<1> HIDE DEF turn
<1>8. [Loop(w, "analyzing") EXCEPT
         !.scan = s, !.kind = k, !.attempt = task[s][k].attempts + 1, !.turn = turn] \in Hands
  BY <1>2, <1>6, <1>7 DEF Loop, Hands, Worker, OnTask, OnScan
<1>9. worker' \in [Workers -> Hands]
  BY <1>1, <1>8, BecomesType DEF turn
<1> QED
  BY <1>5, <1>9 DEF Claim, TypeInv

(* Steps of a worker that leave the tables alone.                          *)
LEMMA LocalTypes ==
    ASSUME TypeInv, NEW w \in Workers,
           Poll(w) \/ Reconcile(w) \/ Analyze(w) \/ Merge(w) \/ Restart(w) \/ Crash(w)
    PROVE  TypeInv'
<1> DEFINE u == worker[w]
<1>1. Loop(w, "idle") \in Hands /\ Loop(w, "polled") \in Hands /\ Loop(w, "stopped") \in Hands
  BY LoopType
<1>2. UNCHANGED <<scan, task>> /\ faults' \in 0 .. MaxFaults
  <2>1. UNCHANGED <<scan, task>>
    BY DEF Poll, Reconcile, Analyze, Merge, Restart, Crash
  <2>2. faults' = faults \/ (faults < MaxFaults /\ faults' = faults + 1)
    BY DEF Poll, Reconcile, Analyze, Merge, Restart, Crash
  <2>3. faults' \in 0 .. MaxFaults
    BY <2>2, ConstantsAssumption DEF TypeInv
  <2> QED
    BY <2>1, <2>3
<1>3. CASE Poll(w)
  BY <1>1, <1>2, <1>3, BecomesType DEF Poll, TypeInv
<1>4. CASE Reconcile(w)
  <2>1. ASSUME NEW s \in Scans
        PROVE  [Loop(w, "merging") EXCEPT !.scan = s, !.via = "reconcile"] \in Hands
    BY WorkerFields DEF Loop, Hands, Worker, OnTask, OnScan
  <2>2. worker' \in [Workers -> Hands]
    BY <1>1, <1>4, <2>1, BecomesType DEF Reconcile
  <2> QED
    BY <1>2, <2>2 DEF TypeInv
<1>5. CASE Analyze(w)
  <2>1. OnTask(u) /\ ~OnScan(u)
    BY <1>5 DEF Analyze, OnTask, OnScan
  <2>2. [u EXCEPT !.pc = "storing"] \in Hands
    BY <2>1, WorkerFields DEF Hands, Worker, OnTask, OnScan
  <2>3. ASSUME NEW f \in {"transient", "permanent"}
        PROVE  [u EXCEPT !.pc = "failing", !.failure = f] \in Hands
    BY <2>1, WorkerFields DEF Hands, Worker, OnTask, OnScan
  <2>4. worker' \in [Workers -> Hands]
    BY <1>5, <2>2, <2>3, BecomesType DEF Analyze
  <2> QED
    BY <1>2, <2>4 DEF TypeInv
<1>6. CASE Merge(w)
  <2>1. OnScan(u) /\ ~OnTask(u)
    BY <1>6 DEF Merge, OnTask, OnScan
  <2>2. [u EXCEPT !.pc = "refusing"] \in Hands
    BY <2>1, WorkerFields DEF Hands, Worker, OnTask, OnScan
  <2>3. ASSUME NEW r \in Report
        PROVE  [u EXCEPT !.pc = "writing", !.draft = r] \in Hands
    BY <2>1, WorkerFields DEF Hands, Worker, OnTask, OnScan
  <2>4. AllEnded(u.scan) => MergedReport(w, Results(u.scan)) \in Report
    BY <2>1, WorkerFields, ReportType
  <2>5. worker' \in [Workers -> Hands]
    BY <1>1, <1>6, <2>2, <2>3, <2>4, BecomesType DEF Merge
  <2> QED
    BY <1>2, <2>5 DEF TypeInv
<1>7. CASE Restart(w)
  <2>1. [Loop(w, "idle") EXCEPT !.turn = FirstTurn(w)] \in Hands
    BY <1>1, TurnTypes DEF Hands, Worker, OnTask, OnScan, Loop
  <2> QED
    BY <1>2, <1>7, <2>1, BecomesType DEF Restart, TypeInv
<1>8. CASE Crash(w)
  BY <1>1, <1>2, <1>8, BecomesType DEF Crash, TypeInv
<1> QED
  BY <1>3, <1>4, <1>5, <1>6, <1>7, <1>8

LEMMA StoreTypes ==
    ASSUME TypeInv, NEW w \in Workers, Store(w)
    PROVE  TypeInv'
<1> DEFINE u == worker[w]
<1>1. OnTask(u) /\ ~OnScan(u)
  BY DEF Store, OnTask, OnScan
<1>2. u.scan \in Scans /\ u.kind \in Tools /\ u.attempt \in Nat
  BY <1>1, WorkerFields
<1>3. [u EXCEPT !.pc = "merging", !.via = "success"] \in Hands
  BY <1>1, <1>2, WorkerFields DEF Hands, Worker, OnTask, OnScan
<1>4. [u EXCEPT !.pc = "failing", !.failure = "transient"] \in Hands
  BY <1>1, <1>2, WorkerFields DEF Hands, Worker, OnTask, OnScan
<1>5. Ended(task[u.scan][u.kind], "SUCCEEDED", u.attempt) \in Task
  BY <1>2, TaskTypes DEF TypeInv
<1>6. worker' \in [Workers -> Hands]
  BY <1>3, <1>4, BecomesType DEF Store
<1>7. task' \in [Scans -> [Tools -> Task]]
  BY <1>2, <1>5, TaskUpdateType DEF Store, TypeInv
<1> QED
  BY <1>6, <1>7 DEF Store, TypeInv

LEMMA FailTypes ==
    ASSUME TypeInv, NEW w \in Workers, Fail(w)
    PROVE  TypeInv'
<1> DEFINE u == worker[w]
           t == task[u.scan][u.kind]
<1>1. OnTask(u) /\ ~OnScan(u)
  BY DEF Fail, OnTask, OnScan
<1>2. u.scan \in Scans /\ u.kind \in Tools /\ u.attempt \in Nat
  BY <1>1, WorkerFields
<1>3. [u EXCEPT !.pc = "merging", !.via = "failure"] \in Hands
  BY <1>1, <1>2, WorkerFields DEF Hands, Worker, OnTask, OnScan
<1>4. Ended(t, "FAILED", u.attempt) \in Task /\ Delayed(t) \in Task
  BY <1>2, TaskTypes DEF TypeInv
<1>5. worker' \in [Workers -> Hands]
  BY <1>3, LoopType, BecomesType DEF Fail
<1>6. task' \in [Scans -> [Tools -> Task]]
  BY <1>2, <1>4, TaskUpdateType DEF Fail, TypeInv
<1> QED
  BY <1>5, <1>6 DEF Fail, TypeInv

(* A publication writes a report into the scan's row, or nothing.          *)
LEMMA PublishTypes ==
    ASSUME TypeInv, NEW s \in Scans, NEW r \in Report \cup {Refused}, PublishReport(s, r)
    PROVE  scan' \in [Scans -> Scan]
<1>1. [scan[s] EXCEPT !.state = "COMPLETE", !.report = r] \in Scan
  BY DEF TypeInv, Scan
<1>2. \/ scan' = [scan EXCEPT ![s] = [scan[s] EXCEPT !.state = "COMPLETE", !.report = r]]
      \/ scan' = scan
  BY DEF TypeInv, PublishReport
<1> QED
  BY <1>1, <1>2 DEF TypeInv

LEMMA WriteTypes ==
    ASSUME TypeInv, NEW w \in Workers, Write(w) \/ Refuse(w)
    PROVE  TypeInv'
<1>1. worker[w].scan \in Scans
  BY WorkerFields DEF Write, Refuse, OnScan
<1>2. worker' \in [Workers -> Hands]
  BY LoopType, BecomesType DEF Write, Refuse
<1>3. scan' \in [Scans -> Scan]
  BY <1>1, WorkerFields, PublishTypes DEF Write, Refuse, TypeInv
<1> QED
  BY <1>2, <1>3 DEF Write, Refuse, TypeInv

LEMMA InitTypes == Init => TypeInv
<1> SUFFICES ASSUME Init PROVE TypeInv
  OBVIOUS
<1>1. scan \in [Scans -> Scan]
  BY DEF Init, Scan
<1>2. task \in [Scans -> [Tools -> Task]]
  BY NewTaskTypes DEF Init
<1>3. worker \in [Workers -> Hands]
  BY TurnTypes DEF Init, Hands, Worker, OnTask, OnScan
<1>4. faults \in 0 .. MaxFaults
  BY ConstantsAssumption DEF Init
<1> QED
  BY <1>1, <1>2, <1>3, <1>4 DEF TypeInv

LEMMA NextTypes == TypeInv /\ [Next]_vars => TypeInv'
<1> SUFFICES ASSUME TypeInv, [Next]_vars PROVE TypeInv'
  OBVIOUS
<1>1. CASE UNCHANGED vars
  BY <1>1 DEF vars, TypeInv
<1>2. ASSUME NEW s \in Scans, Ingest(s) \/ RecordRejection(s) PROVE TypeInv'
  BY <1>2, WorldTypes
<1>3. ASSUME NEW s \in Scans, NEW k \in Tools, TimePasses(s, k) \/ LeaseOutrun(s, k)
      PROVE  TypeInv'
  BY <1>3, WorldTypes
<1>4. ASSUME NEW w \in Workers, Work(w) \/ Crash(w) PROVE TypeInv'
  BY <1>4, ClaimTypes, LocalTypes, StoreTypes, FailTypes, WriteTypes DEF Work, Finalize
<1> QED
  BY <1>1, <1>2, <1>3, <1>4 DEF Next

LEMMA TypeInvariance == Spec => []TypeInv
<1> QED
  BY InitTypes, NextTypes, PTL DEF Spec

(* Rows and workers are well typed in every reachable state, for any       *)
(* number of scans, workers, attempts and faults.                          *)
THEOREM TypeCorrect == Spec => []TypeOK
BY TypeInvariance, TypeInvImplies, PTL

-----------------------------------------------------------------------------
(* Attempts and leases                                                     *)

EndedByLatest(t) == t.state \in Terminal => t.endedBy = t.attempts

Runs(u, s, k) == u.scan = s /\ u.kind = k

LeaseNamesAttempt(t, w, u, s, k) ==
    LeasedBy(t, w) /\ Runs(u, s, k) => u.attempt = t.attempts

LEMMA LatestAttemptParts ==
    LatestAttemptDecides <=>
        \A s \in Scans, k \in Tools :
            /\ EndedByLatest(task[s][k])
            /\ \A w \in Workers : LeaseNamesAttempt(task[s][k], w, worker[w], s, k)
BY DEF LatestAttemptDecides, EndedByLatest, LeaseNamesAttempt, Runs

(* A worker turns to nothing, to a scan alone, or keeps its task.          *)
TakesNoTask(w) ==
    /\ \A v \in Workers : v # w => worker'[v] = worker[v]
    /\ \/ worker'[w].scan = None
       \/ worker'[w].kind = None
       \/ /\ worker'[w].scan = worker[w].scan
          /\ worker'[w].kind = worker[w].kind
          /\ worker'[w].attempt = worker[w].attempt

LEMMA LocalLeases ==
    ASSUME LatestAttemptDecides, NEW w \in Workers, TakesNoTask(w),
           NEW s \in Scans, NEW k \in Tools, NEW v \in Workers
    PROVE  LeaseNamesAttempt(task[s][k], v, worker'[v], s, k)
<1>1. LeaseNamesAttempt(task[s][k], v, worker[v], s, k)
  BY LatestAttemptParts
<1>2. s # None /\ k # None
  BY ConstantsAssumption
<1> QED
  BY <1>1, <1>2 DEF TakesNoTask, LeaseNamesAttempt, Runs

LEMMA BecomesNoTask ==
    ASSUME TypeInv, NEW w \in Workers, NEW r, Becomes(w, r),
           \/ r.scan = None
           \/ r.kind = None
           \/ /\ r.scan = worker[w].scan
              /\ r.kind = worker[w].kind
              /\ r.attempt = worker[w].attempt
    PROVE  TakesNoTask(w)
BY DEF TypeInv, Becomes, TakesNoTask

LEMMA LoopNoTask ==
    ASSUME TypeInv, NEW w \in Workers, NEW pc, Becomes(w, Loop(w, pc))
    PROVE  TakesNoTask(w)
<1>1. Loop(w, pc).scan = None
  BY DEF Loop
<1> QED
  BY <1>1, BecomesNoTask

LEMMA NoTaskSteps ==
    ASSUME TypeInv, NEW w \in Workers,
           \/ Poll(w) \/ Reconcile(w) \/ Analyze(w) \/ Merge(w) \/ Restart(w) \/ Crash(w)
           \/ Write(w) \/ Refuse(w) \/ Store(w) \/ Fail(w)
    PROVE  TakesNoTask(w)
<1>1. worker[w] \in Worker /\ worker \in [Workers -> Hands]
  BY WorkerFields DEF TypeInv
<1>2. CASE Poll(w)
  BY <1>1, <1>2 DEF Poll, Becomes, Loop, TakesNoTask
<1>3. CASE Reconcile(w)
  <2>1. ASSUME NEW s \in Scans,
               Becomes(w, [Loop(w, "merging") EXCEPT !.scan = s, !.via = "reconcile"])
        PROVE  TakesNoTask(w)
    <3>1. [Loop(w, "merging") EXCEPT !.scan = s, !.via = "reconcile"].kind = None
      BY DEF Loop
    <3> QED
      BY <2>1, <3>1, BecomesNoTask
  <2> QED
    BY <1>3, <2>1, LoopNoTask DEF Reconcile
<1>4. CASE Analyze(w)
  BY <1>1, <1>4 DEF Analyze, Becomes, Worker, TakesNoTask
<1>5. CASE Merge(w)
  <2>1. CASE Becomes(w, Loop(w, "idle"))
    BY <2>1, LoopNoTask
  <2>2. CASE Becomes(w, [worker[w] EXCEPT !.pc = "refusing"])
    BY <1>1, <2>2 DEF Becomes, Worker, TakesNoTask
  <2>3. ASSUME NEW r, Becomes(w, [worker[w] EXCEPT !.pc = "writing", !.draft = r])
        PROVE  TakesNoTask(w)
    BY <1>1, <2>3 DEF Becomes, Worker, TakesNoTask
  <2> QED
    BY <1>5, <2>1, <2>2, <2>3 DEF Merge
<1>6. CASE Restart(w) \/ Crash(w)
  BY <1>1, <1>6 DEF Restart, Crash, Becomes, Loop, TakesNoTask
<1>7. CASE Write(w) \/ Refuse(w)
  BY <1>1, <1>7 DEF Write, Refuse, Becomes, Loop, TakesNoTask
<1>8. CASE Store(w)
  BY <1>1, <1>8 DEF Store, Becomes, Worker, TakesNoTask
<1>9. CASE Fail(w)
  <2>1. CASE Becomes(w, [worker[w] EXCEPT !.pc = "merging", !.via = "failure"])
    BY <1>1, <2>1 DEF Becomes, Worker, TakesNoTask
  <2> QED
    BY <1>9, <2>1, LoopNoTask DEF Fail
<1> QED
  BY <1>2, <1>3, <1>4, <1>5, <1>6, <1>7, <1>8, <1>9

(* A step that writes one task row and turns one worker.                   *)
LEMMA RowLeases ==
    ASSUME TypeInv, LatestAttemptDecides,
           NEW s0 \in Scans, NEW k0 \in Tools, NEW t,
           task' = [task EXCEPT ![s0][k0] = t],
           EndedByLatest(t),
           \A v \in Workers : LeaseNamesAttempt(t, v, worker'[v], s0, k0),
           \A s \in Scans, k \in Tools, v \in Workers :
               s # s0 \/ k # k0 => LeaseNamesAttempt(task[s][k], v, worker'[v], s, k)
    PROVE  LatestAttemptDecides'
<1>1. ASSUME NEW s \in Scans, NEW k \in Tools
      PROVE  /\ EndedByLatest(task'[s][k])
             /\ \A v \in Workers : LeaseNamesAttempt(task'[s][k], v, worker'[v], s, k)
  <2>1. task'[s][k] = IF s = s0 /\ k = k0 THEN t ELSE task[s][k]
    BY DEF TypeInv
  <2>2. EndedByLatest(task[s][k])
    BY LatestAttemptParts
  <2>3. CASE s = s0 /\ k = k0
    BY <2>1, <2>3
  <2>4. CASE s # s0 \/ k # k0
    BY <2>1, <2>2, <2>4
  <2> QED
    BY <2>3, <2>4
<1> QED
  BY <1>1 DEF LatestAttemptDecides, EndedByLatest, LeaseNamesAttempt, Runs

(* A step that writes no task row.                                         *)
LEMMA SameTasksLeases ==
    ASSUME LatestAttemptDecides, UNCHANGED task,
           \A s \in Scans, k \in Tools, v \in Workers :
               LeaseNamesAttempt(task[s][k], v, worker'[v], s, k)
    PROVE  LatestAttemptDecides'
BY LatestAttemptParts DEF LatestAttemptDecides, EndedByLatest, LeaseNamesAttempt, Runs

LEMMA ClaimLeases ==
    ASSUME TypeInv, LatestAttemptDecides, NEW w \in Workers, Claim(w)
    PROVE  LatestAttemptDecides'
<1>1. PICK k0 \in Offered(w), s0 \in Scans :
         /\ task' = [task EXCEPT ![s0][k0] = Claimed(@, w)]
         /\ Becomes(w, [Loop(w, "analyzing") EXCEPT
                          !.scan = s0, !.kind = k0, !.attempt = task[s0][k0].attempts + 1,
                          !.turn = IF Other(k0) \in KindsOf[w] THEN Other(k0) ELSE k0])
  BY DEF Claim
<1> DEFINE t == Claimed(task[s0][k0], w)
<1>2. k0 \in Tools
  BY ConstantsAssumption DEF Offered
<1>3. /\ t.state = "RUNNING"
      /\ t.leasedBy = w
      /\ t.attempts = task[s0][k0].attempts + 1
  BY <1>2 DEF TypeInv, Task, Claimed
<1>4. /\ worker'[w].scan = s0
      /\ worker'[w].kind = k0
      /\ worker'[w].attempt = task[s0][k0].attempts + 1
      /\ \A v \in Workers : v # w => worker'[v] = worker[v]
  BY <1>1 DEF TypeInv, Becomes, Loop
<1>5. task' = [task EXCEPT ![s0][k0] = t]
  BY <1>1
<1> HIDE DEF t
<1>6. EndedByLatest(t)
  BY <1>3 DEF EndedByLatest, Terminal
<1>7. \A v \in Workers : LeaseNamesAttempt(t, v, worker'[v], s0, k0)
  BY <1>3, <1>4 DEF LeaseNamesAttempt, LeasedBy
<1>8. \A s \in Scans, k \in Tools, v \in Workers :
         s # s0 \/ k # k0 => LeaseNamesAttempt(task[s][k], v, worker'[v], s, k)
  BY <1>4, LatestAttemptParts DEF LeaseNamesAttempt, Runs
<1> QED
  BY <1>2, <1>5, <1>6, <1>7, <1>8, RowLeases

LEMMA StoreLeases ==
    ASSUME TypeInv, LatestAttemptDecides, NEW w \in Workers, Store(w)
    PROVE  LatestAttemptDecides'
<1> DEFINE u == worker[w]
           t == task[u.scan][u.kind]
           e == Ended(t, "SUCCEEDED", u.attempt)
<1>1. u \in Worker /\ u.scan \in Scans /\ u.kind \in Tools
  BY WorkerFields DEF Store, OnTask
<1>2. CASE LeasedBy(t, w)
  <2>1. e.state = "SUCCEEDED" /\ e.endedBy = e.attempts
    <3>1. u.attempt = t.attempts
      BY <1>1, <1>2 DEF LatestAttemptDecides
    <3> QED
      BY <3>1, <1>1 DEF TypeInv, Task, Ended
  <2>2. task' = [task EXCEPT ![u.scan][u.kind] = e]
    BY <1>2 DEF Store
  <2>3. \A s \in Scans, k \in Tools, v \in Workers :
           LeaseNamesAttempt(task[s][k], v, worker'[v], s, k)
    BY NoTaskSteps, LocalLeases
  <2> HIDE DEF e
  <2>4. EndedByLatest(e) /\ \A v \in Workers : ~LeasedBy(e, v)
    BY <2>1 DEF EndedByLatest, LeasedBy
  <2>5. \A v \in Workers : LeaseNamesAttempt(e, v, worker'[v], u.scan, u.kind)
    BY <2>4 DEF LeaseNamesAttempt
  <2> QED
    BY <1>1, <2>2, <2>3, <2>4, <2>5, RowLeases
<1>3. CASE ~LeasedBy(t, w)
  <2>1. UNCHANGED task
    BY <1>3 DEF Store
  <2>2. \A s \in Scans, k \in Tools, v \in Workers :
           LeaseNamesAttempt(task[s][k], v, worker'[v], s, k)
    BY NoTaskSteps, LocalLeases
  <2> QED
    BY <2>1, <2>2, SameTasksLeases
<1> QED
  BY <1>2, <1>3

LEMMA FailLeases ==
    ASSUME TypeInv, LatestAttemptDecides, NEW w \in Workers, Fail(w)
    PROVE  LatestAttemptDecides'
<1> DEFINE u == worker[w]
           t == task[u.scan][u.kind]
<1>1. u \in Worker /\ u.scan \in Scans /\ u.kind \in Tools
  BY WorkerFields DEF Fail, OnTask
<1>2. \A s \in Scans, k \in Tools, v \in Workers :
         LeaseNamesAttempt(task[s][k], v, worker'[v], s, k)
  BY NoTaskSteps, LocalLeases
<1>3. CASE UNCHANGED task
  BY <1>2, <1>3, SameTasksLeases
<1>4. ASSUME LeasedBy(t, w),
             NEW e \in {Ended(t, "FAILED", u.attempt), Delayed(t)},
             task' = [task EXCEPT ![u.scan][u.kind] = e]
      PROVE  LatestAttemptDecides'
  <2>1. u.attempt = t.attempts
    BY <1>1, <1>4 DEF LatestAttemptDecides
  <2>2. t \in Task
    BY <1>1 DEF TypeInv
  <2>3. /\ e.state \in Terminal => e.endedBy = e.attempts
        /\ e.state # "RUNNING"
    <3>1. CASE e = Ended(t, "FAILED", u.attempt)
      BY <2>1, <2>2, <3>1 DEF Task, Ended
    <3>2. CASE e = Delayed(t)
      BY <2>2, <3>2 DEF Task, Delayed, Terminal
    <3> QED
      BY <1>4, <3>1, <3>2
  <2>4. \A v \in Workers : LeaseNamesAttempt(e, v, worker'[v], u.scan, u.kind)
    BY <2>3 DEF LeaseNamesAttempt, LeasedBy
  <2>5. EndedByLatest(e)
    BY <2>3 DEF EndedByLatest
  <2> QED
    BY <1>1, <1>2, <1>4, <2>4, <2>5, RowLeases
<1>5. \/ UNCHANGED task
      \/ /\ LeasedBy(t, w)
         /\ \E e \in {Ended(t, "FAILED", u.attempt), Delayed(t)} :
                task' = [task EXCEPT ![u.scan][u.kind] = e]
  BY DEF Fail
<1> QED
  BY <1>3, <1>4, <1>5

LEMMA WorldLeases ==
    ASSUME TypeInv, LatestAttemptDecides, NEW s0 \in Scans,
           \/ Ingest(s0)
           \/ RecordRejection(s0)
           \/ \E k \in Tools : TimePasses(s0, k) \/ LeaseOutrun(s0, k)
    PROVE  LatestAttemptDecides'
<1>1. CASE Ingest(s0)
  <2>1. \A s \in Scans, k \in Tools :
           task'[s][k] = IF s = s0 THEN Pending ELSE task[s][k]
    BY <1>1 DEF Ingest, TypeInv
  <2>2. Pending.state = "PENDING"
    BY DEF Pending, Absent
  <2>3. worker' = worker
    BY <1>1 DEF Ingest
  <2>4. ASSUME NEW s \in Scans, NEW k \in Tools
        PROVE  /\ EndedByLatest(task'[s][k])
               /\ \A w \in Workers : LeaseNamesAttempt(task'[s][k], w, worker[w], s, k)
    <3>1. CASE s = s0
      BY <2>1, <2>2, <3>1 DEF EndedByLatest, LeaseNamesAttempt, LeasedBy, Terminal
    <3>2. CASE s # s0
      BY <2>1, <3>2, LatestAttemptParts
    <3> QED
      BY <3>1, <3>2
  <2> QED
    BY <2>3, <2>4 DEF LatestAttemptDecides, EndedByLatest, LeaseNamesAttempt, Runs
<1>2. CASE RecordRejection(s0)
  BY <1>2 DEF RecordRejection, LatestAttemptDecides
<1>3. ASSUME NEW k0 \in Tools, TimePasses(s0, k0) \/ LeaseOutrun(s0, k0)
      PROVE  LatestAttemptDecides'
  <2> DEFINE t == Due(task[s0][k0])
  <2>1. task' = [task EXCEPT ![s0][k0] = t] /\ worker' = worker
    BY <1>3 DEF TimePasses, LeaseOutrun
  <2>2. /\ t.state = task[s0][k0].state
        /\ t.leasedBy = task[s0][k0].leasedBy
        /\ t.attempts = task[s0][k0].attempts
        /\ t.endedBy = task[s0][k0].endedBy
    BY DEF Due, TypeInv, Task
  <2> HIDE DEF t
  <2>3. EndedByLatest(t)
    BY <2>2, LatestAttemptParts DEF EndedByLatest
  <2>4. \A v \in Workers : LeaseNamesAttempt(t, v, worker'[v], s0, k0)
    BY <2>1, <2>2, LatestAttemptParts DEF LeaseNamesAttempt, LeasedBy
  <2>5. \A s \in Scans, k \in Tools, v \in Workers :
           LeaseNamesAttempt(task[s][k], v, worker'[v], s, k)
    BY <2>1, LatestAttemptParts
  <2> QED
    BY <2>1, <2>3, <2>4, <2>5, RowLeases
<1> QED
  BY <1>1, <1>2, <1>3

LEMMA LocalStepLeases ==
    ASSUME TypeInv, LatestAttemptDecides, NEW w \in Workers,
           \/ Poll(w) \/ Reconcile(w) \/ Analyze(w) \/ Merge(w) \/ Restart(w) \/ Crash(w)
           \/ Write(w) \/ Refuse(w)
    PROVE  LatestAttemptDecides'
<1>1. UNCHANGED task
  BY DEF Poll, Reconcile, Analyze, Merge, Restart, Crash, Write, Refuse
<1>2. \A s \in Scans, k \in Tools, v \in Workers :
         LeaseNamesAttempt(task[s][k], v, worker'[v], s, k)
  BY NoTaskSteps, LocalLeases
<1> QED
  BY <1>1, <1>2, SameTasksLeases

LEMMA InitLeases == Init => LatestAttemptDecides
BY DEF Init, Absent, LatestAttemptDecides, LeasedBy, Terminal

LEMMA NextLeases == TypeInv /\ LatestAttemptDecides /\ [Next]_vars => LatestAttemptDecides'
<1> SUFFICES ASSUME TypeInv, LatestAttemptDecides, [Next]_vars
             PROVE  LatestAttemptDecides'
  OBVIOUS
<1>1. CASE UNCHANGED vars
  BY <1>1 DEF vars, LatestAttemptDecides
<1>2. ASSUME NEW s \in Scans, Ingest(s) \/ RecordRejection(s)
      PROVE  LatestAttemptDecides'
  BY <1>2, WorldLeases
<1>3. ASSUME NEW s \in Scans, NEW k \in Tools, TimePasses(s, k) \/ LeaseOutrun(s, k)
      PROVE  LatestAttemptDecides'
  BY <1>3, WorldLeases
<1>4. ASSUME NEW w \in Workers, Work(w) \/ Crash(w)
      PROVE  LatestAttemptDecides'
  BY <1>4, ClaimLeases, StoreLeases, FailLeases, LocalStepLeases DEF Work, Finalize
<1> QED
  BY <1>1, <1>2, <1>3, <1>4 DEF Next

(* A worker that lost its lease changes nothing: every task ends with the  *)
(* result of its latest attempt (complete_analysis_task and                *)
(* fail_analysis_task compare leased_by).                                  *)
THEOREM LatestAttemptCorrect == Spec => []LatestAttemptDecides
<1>1. TypeInv /\ LatestAttemptDecides /\ [Next]_vars => TypeInv' /\ LatestAttemptDecides'
  BY NextTypes, NextLeases
<1>2. Init => TypeInv /\ LatestAttemptDecides
  BY InitTypes, InitLeases
<1> QED
  BY <1>1, <1>2, PTL DEF Spec

-----------------------------------------------------------------------------
(* What a step may do to the rows                                          *)

EndsTask(s, k, t) ==
    /\ \E w \in Workers, state \in Terminal :
          LeasedBy(task[s][k], w) /\ t = Ended(task[s][k], state, worker[w].attempt)

MovesTask(s, k, t) ==
    /\ task[s][k].state \notin Terminal \cup {"ABSENT"}
    /\ t.state \notin Terminal \cup {"ABSENT"}

OneTask(s, k) ==
    \E t \in Task :
        /\ task' = [task EXCEPT ![s][k] = t]
        /\ EndsTask(s, k, t) \/ MovesTask(s, k, t)

TaskStep ==
    \/ UNCHANGED task
    \/ \E s \in Scans : Ingest(s)
    \/ UNCHANGED scan /\ \E s \in Scans, k \in Tools : OneTask(s, k)

OneReport(s, r) ==
    /\ scan[s].report = None
    /\ AllEnded(s)
    /\ scan' = [scan EXCEPT ![s].state = "COMPLETE", ![s].report = r]
    /\ UNCHANGED task

ScanStep ==
    \/ UNCHANGED scan
    \/ \E s \in Scans : Ingest(s) \/ RecordRejection(s)
    \/ \E w \in Workers :
          \/ worker[w].pc = "writing" /\ OneReport(worker[w].scan, worker[w].draft)
          \/ worker[w].pc = "refusing" /\ OneReport(worker[w].scan, Refused)

LEMMA ClaimMoves ==
    ASSUME TypeInv, NEW w \in Workers, Claim(w)
    PROVE  TaskStep
<1>1. PICK k \in Offered(w), s \in Scans :
         /\ Claimable(task[s][k])
         /\ task' = [task EXCEPT ![s][k] = Claimed(@, w)]
  BY DEF Claim
<1>2. k \in Tools
  BY ConstantsAssumption DEF Offered
<1> DEFINE t == Claimed(task[s][k], w)
<1>3. task[s][k] \in Task /\ t \in Task
  BY <1>2, TaskTypes DEF TypeInv
<1>4. t.state = "RUNNING"
  BY <1>3 DEF Task, Claimed
<1>5. task' = [task EXCEPT ![s][k] = t]
  BY <1>1
<1> HIDE DEF t
<1>6. MovesTask(s, k, t)
  BY <1>1, <1>4 DEF MovesTask, Claimable, Terminal
<1>7. OneTask(s, k)
  BY <1>3, <1>5, <1>6 DEF OneTask
<1> QED
  BY <1>2, <1>7 DEF TaskStep, Claim

LEMMA DueMoves ==
    ASSUME TypeInv, NEW s \in Scans, NEW k \in Tools, TimePasses(s, k) \/ LeaseOutrun(s, k)
    PROVE  TaskStep
<1> DEFINE t == Due(task[s][k])
<1>1. task[s][k] \in Task /\ t \in Task
  BY DueType DEF TypeInv
<1>2. t.state = task[s][k].state
  BY <1>1 DEF Task, Due
<1>3. task' = [task EXCEPT ![s][k] = t] /\ UNCHANGED scan
  BY DEF TimePasses, LeaseOutrun
<1> HIDE DEF t
<1>4. task[s][k].state \in {"RETRY", "RUNNING"}
  BY DEF TimePasses, LeaseOutrun, AtWork, LeasedBy
<1>5. MovesTask(s, k, t)
  BY <1>2, <1>4 DEF MovesTask, Terminal
<1>6. OneTask(s, k)
  BY <1>1, <1>3, <1>5 DEF OneTask
<1> QED
  BY <1>3, <1>6 DEF TaskStep

LEMMA StoreMoves ==
    ASSUME TypeInv, NEW w \in Workers, Store(w) \/ Fail(w)
    PROVE  TaskStep
<1> DEFINE u == worker[w]
           t == task[u.scan][u.kind]
<1>1. u.scan \in Scans /\ u.kind \in Tools /\ u.attempt \in Nat
  BY WorkerFields DEF Store, Fail, OnTask
<1>2. t \in Task
  BY <1>1 DEF TypeInv
<1>3. UNCHANGED scan
  BY DEF Store, Fail
<1>4. ASSUME LeasedBy(t, w), NEW state \in Terminal,
             task' = [task EXCEPT ![u.scan][u.kind] = Ended(t, state, u.attempt)]
      PROVE  TaskStep
  <2>1. EndsTask(u.scan, u.kind, Ended(t, state, u.attempt))
    BY <1>4 DEF EndsTask
  <2>2. Ended(t, state, u.attempt) \in Task
    BY <1>1, <1>2, TaskTypes DEF Terminal
  <2>3. OneTask(u.scan, u.kind)
    BY <1>4, <2>1, <2>2 DEF OneTask
  <2> QED
    BY <1>1, <1>3, <2>3 DEF TaskStep
<1>5. ASSUME LeasedBy(t, w), task' = [task EXCEPT ![u.scan][u.kind] = Delayed(t)]
      PROVE  TaskStep
  <2>1. Delayed(t).state = "RETRY" /\ Delayed(t) \in Task
    BY <1>1, <1>2, TaskTypes DEF Task, Delayed
  <2>2. MovesTask(u.scan, u.kind, Delayed(t))
    BY <1>5, <2>1 DEF MovesTask, LeasedBy, Terminal
  <2>3. OneTask(u.scan, u.kind)
    BY <1>5, <2>1, <2>2 DEF OneTask
  <2> QED
    BY <1>1, <1>3, <2>3 DEF TaskStep
<1>6. CASE Store(w)
  BY <1>4, <1>6 DEF Store, TaskStep, Terminal
<1>7. CASE Fail(w)
  BY <1>4, <1>5, <1>7 DEF Fail, TaskStep, Terminal
<1> QED
  BY <1>6, <1>7

LEMMA TaskSteps == TypeInv /\ [Next]_vars => TaskStep
<1> SUFFICES ASSUME TypeInv, [Next]_vars PROVE TaskStep
  OBVIOUS
<1>1. CASE UNCHANGED vars
  BY <1>1 DEF vars, TaskStep
<1>2. ASSUME NEW s \in Scans, Ingest(s) \/ RecordRejection(s) PROVE TaskStep
  BY <1>2 DEF RecordRejection, TaskStep
<1>3. ASSUME NEW s \in Scans, NEW k \in Tools, TimePasses(s, k) \/ LeaseOutrun(s, k)
      PROVE  TaskStep
  BY <1>3, DueMoves
<1>4. ASSUME NEW w \in Workers, Work(w) \/ Crash(w) PROVE TaskStep
  <2>1. CASE UNCHANGED task
    BY <2>1 DEF TaskStep
  <2>2. CASE Claim(w) \/ Store(w) \/ Fail(w)
    BY <2>2, ClaimMoves, StoreMoves
  <2> QED
    BY <1>4, <2>1, <2>2
       DEF Work, Finalize, Poll, Reconcile, Analyze, Merge, Write, Refuse, Restart, Crash
<1> QED
  BY <1>1, <1>2, <1>3, <1>4 DEF Next

-----------------------------------------------------------------------------
(* Reports                                                                 *)

(* A worker about to write a report, or a refusal, has seen both tasks     *)
(* ended, and what it has seen is still so.                                *)
DraftCurrent(u) ==
    /\ u.pc \in {"writing", "refusing"} => AllEnded(u.scan)
    /\ u.pc = "writing" => u.draft.of = Results(u.scan)

DraftInv == \A w \in Workers : DraftCurrent(worker[w])

ReportInv == TypeInv /\ ReportMatchesState /\ DraftInv

LEMMA EndedStays ==
    ASSUME TypeInv, ReportMatchesState, TaskStep,
           NEW s \in Scans, NEW k \in Tools, task[s][k].state \in Terminal
    PROVE  task'[s][k] = task[s][k]
<1>1. CASE UNCHANGED task
  BY <1>1
<1>2. ASSUME NEW r \in Scans, Ingest(r) PROVE task'[s][k] = task[s][k]
  <2>1. r # s
    BY <1>2 DEF Ingest, ReportMatchesState, Terminal
  <2> QED
    BY <1>2, <2>1 DEF Ingest, TypeInv
<1>3. ASSUME NEW r \in Scans, NEW l \in Tools, OneTask(r, l)
      PROVE  task'[s][k] = task[s][k]
  <2>1. r # s \/ l # k
    BY <1>3 DEF OneTask, EndsTask, MovesTask, LeasedBy, Terminal
  <2> QED
    BY <1>3, <2>1 DEF OneTask, TypeInv
<1> QED
  BY <1>1, <1>2, <1>3 DEF TaskStep

LEMMA ScanSteps ==
    ASSUME TypeInv, DraftInv, [Next]_vars
    PROVE  ScanStep
<1>1. CASE UNCHANGED scan
  BY <1>1 DEF ScanStep
<1>2. ASSUME NEW s \in Scans, Ingest(s) \/ RecordRejection(s) PROVE ScanStep
  BY <1>2 DEF ScanStep
<1>3. ASSUME NEW w \in Workers, Write(w), ~UNCHANGED scan PROVE ScanStep
  <2>1. worker[w].pc = "writing" /\ OneReport(worker[w].scan, worker[w].draft)
    BY <1>3 DEF Write, PublishReport, OneReport
  <2> QED
    BY <2>1 DEF ScanStep
<1>4. ASSUME NEW w \in Workers, Refuse(w), ~UNCHANGED scan PROVE ScanStep
  <2>1. worker[w].pc = "refusing" /\ AllEnded(worker[w].scan)
    BY <1>4 DEF Refuse, DraftInv, DraftCurrent
  <2>2. OneReport(worker[w].scan, Refused)
    BY <1>4, <2>1 DEF Refuse, PublishReport, OneReport
  <2> QED
    BY <2>1, <2>2 DEF ScanStep
<1>5. CASE UNCHANGED vars
  BY <1>1, <1>5 DEF vars
<1> QED
  BY <1>1, <1>2, <1>3, <1>4, <1>5
     DEF Next, Work, Finalize, TimePasses, LeaseOutrun, Crash,
         Claim, Poll, Reconcile, Analyze, Store, Fail, Merge, Restart

LEMMA NextReportMatches ==
    ASSUME ReportInv, [Next]_vars
    PROVE  ReportMatchesState'
<1> USE DEF ReportInv
<1>1. TaskStep /\ ScanStep
  BY TaskSteps, ScanSteps
<1>2. ASSUME NEW s \in Scans
      PROVE  \/ scan'[s] = scan[s]
             \/ Ingest(s)
             \/ scan'[s].state = "REJECTED" /\ scan'[s].report = scan[s].report
             \/ scan'[s].state = "COMPLETE" /\ scan'[s].report # None
  <2>1. ASSUME NEW r \in Scans, RecordRejection(r), s = r
        PROVE  scan'[s].state = "REJECTED" /\ scan'[s].report = scan[s].report
    BY <2>1 DEF RecordRejection, TypeInv, Scan
  <2>2. ASSUME NEW r, NEW x, OneReport(r, x), x # None, s = r
        PROVE  scan'[s].state = "COMPLETE" /\ scan'[s].report # None
    BY <2>2 DEF OneReport, TypeInv, Scan
  <2>3. \A w \in Workers : worker[w].pc = "writing" => worker[w].draft # None
    BY WorkerFields, ReportsAssumption
  <2>4. Refused # None
    BY ReportsAssumption
  <2>5. ASSUME NEW r \in Scans, RecordRejection(r) \/ Ingest(r), s # r
        PROVE  scan'[s] = scan[s]
    BY <2>5 DEF RecordRejection, Ingest, TypeInv
  <2>6. ASSUME NEW r, NEW x, OneReport(r, x), s # r
        PROVE  scan'[s] = scan[s]
    BY <2>6 DEF OneReport, TypeInv
  <2> QED
    BY <1>1, <2>1, <2>2, <2>3, <2>4, <2>5, <2>6 DEF ScanStep
<1>3. ASSUME NEW s \in Scans, scan'[s].state = "DISPATCHED", NEW k \in Tools
      PROVE  task'[s][k].state = "ABSENT"
  <2>1. scan[s].state = "DISPATCHED" /\ ~Ingest(s)
    BY <1>2, <1>3 DEF Ingest, TypeInv, Scan
  <2>2. task[s][k].state = "ABSENT"
    BY <2>1 DEF ReportMatchesState
  <2>3. ASSUME NEW r \in Scans, Ingest(r) PROVE task'[s][k] = task[s][k]
    BY <2>1, <2>3 DEF Ingest, TypeInv
  <2>4. ASSUME NEW r \in Scans, NEW l \in Tools, OneTask(r, l)
        PROVE  task'[s][k] = task[s][k]
    BY <2>2, <2>4 DEF OneTask, EndsTask, MovesTask, LeasedBy, TypeInv
  <2> QED
    BY <1>1, <2>2, <2>3, <2>4 DEF TaskStep
<1>4. ASSUME NEW s \in Scans
      PROVE  /\ scan'[s].state = "COMPLETE" => scan'[s].report # None
             /\ scan'[s].report # None => scan'[s].state \in {"COMPLETE", "REJECTED"}
  <2>1. CASE Ingest(s)
    BY <2>1 DEF Ingest, TypeInv, Scan, ReportMatchesState
  <2> QED
    BY <1>2, <2>1 DEF ReportMatchesState
<1> QED
  BY <1>3, <1>4 DEF ReportMatchesState

(* A worker comes to hold a report or a refusal only by merging.           *)
LEMMA DraftSteps ==
    ASSUME TypeInv, [Next]_vars, NEW w \in Workers
    PROVE  \/ worker'[w] = worker[w]
           \/ worker'[w].pc \notin {"writing", "refusing"}
           \/ UNCHANGED task /\ DraftCurrent(worker'[w])
<1> DEFINE Goal == \/ worker'[w] = worker[w]
                   \/ worker'[w].pc \notin {"writing", "refusing"}
                   \/ UNCHANGED task /\ DraftCurrent(worker'[w])
<1>1. ASSUME NEW v \in Workers, NEW r, Becomes(v, r), r.pc \notin {"writing", "refusing"}
      PROVE  Goal
  BY <1>1 DEF Becomes, TypeInv
<1>2. ASSUME NEW v \in Workers, NEW pc \in {"idle", "polled", "stopped"},
             Becomes(v, Loop(v, pc))
      PROVE  Goal
  <2>1. Loop(v, pc).pc = pc
    BY DEF Loop
  <2> QED
    BY <1>1, <1>2, <2>1
<1>3. ASSUME NEW v \in Workers, Claim(v) PROVE Goal
  <2>1. PICK k, s :
           Becomes(v, [Loop(v, "analyzing") EXCEPT
                         !.scan = s, !.kind = k, !.attempt = task[s][k].attempts + 1,
                         !.turn = IF Other(k) \in KindsOf[v] THEN Other(k) ELSE k])
    BY <1>3 DEF Claim
  <2>2. worker'[v].pc = "analyzing" /\ \A x \in Workers : x # v => worker'[x] = worker[x]
    BY <2>1 DEF Becomes, Loop, TypeInv
  <2> QED
    BY <2>2
<1>4. ASSUME NEW v \in Workers, Reconcile(v) PROVE Goal
  <2>1. ASSUME NEW s \in Scans,
               Becomes(v, [Loop(v, "merging") EXCEPT !.scan = s, !.via = "reconcile"])
        PROVE  Goal
    <3>1. [Loop(v, "merging") EXCEPT !.scan = s, !.via = "reconcile"].pc = "merging"
      BY DEF Loop
    <3> QED
      BY <1>1, <2>1, <3>1
  <2> QED
    BY <1>2, <1>4, <2>1 DEF Reconcile
<1>5. ASSUME NEW v \in Workers, Merge(v) PROVE Goal
  <2> DEFINE u == worker[v]
  <2>1. u \in Worker
    BY WorkerFields
  <2>2. CASE Becomes(v, Loop(v, "idle"))
    BY <1>2, <2>2
  <2>3. CASE AllEnded(u.scan) /\ Becomes(v, [u EXCEPT !.pc = "refusing"])
    <3>1. /\ [u EXCEPT !.pc = "refusing"].pc = "refusing"
          /\ [u EXCEPT !.pc = "refusing"].scan = u.scan
      BY <2>1 DEF Worker
    <3>2. DraftCurrent([u EXCEPT !.pc = "refusing"])
      BY <2>3, <3>1 DEF DraftCurrent
    <3> QED
      BY <1>5, <2>3, <3>2 DEF Becomes, TypeInv, Merge
  <2>4. CASE /\ AllEnded(u.scan)
             /\ Becomes(v, [u EXCEPT !.pc = "writing",
                                     !.draft = MergedReport(v, Results(u.scan))])
    <3> DEFINE r == [u EXCEPT !.pc = "writing", !.draft = MergedReport(v, Results(u.scan))]
    <3>1. r.scan = u.scan /\ r.draft.of = Results(u.scan)
      BY <2>1 DEF Worker, MergedReport
    <3> HIDE DEF r
    <3>2. DraftCurrent(r)
      BY <2>4, <3>1 DEF DraftCurrent
    <3>3. worker'[v] = r /\ \A x \in Workers : x # v => worker'[x] = worker[x]
      BY <2>4 DEF Becomes, TypeInv, r
    <3> QED
      BY <1>5, <3>2, <3>3 DEF Merge
  <2> QED
    BY <1>5, <2>2, <2>3, <2>4 DEF Merge
<1>6. ASSUME NEW v \in Workers, Store(v) \/ Fail(v) \/ Analyze(v) PROVE Goal
  <2> DEFINE u == worker[v]
  <2>1. u \in Worker
    BY WorkerFields
  <2>2. /\ [u EXCEPT !.pc = "storing"].pc = "storing"
        /\ \A f : [u EXCEPT !.pc = "failing", !.failure = f].pc = "failing"
        /\ \A f : [u EXCEPT !.pc = "merging", !.via = f].pc = "merging"
    BY <2>1 DEF Worker
  <2>3. CASE Becomes(v, [u EXCEPT !.pc = "storing"])
    BY <1>1, <2>2, <2>3
  <2>4. ASSUME NEW f, Becomes(v, [u EXCEPT !.pc = "failing", !.failure = f]) PROVE Goal
    BY <1>1, <2>2, <2>4
  <2>5. ASSUME NEW f, Becomes(v, [u EXCEPT !.pc = "merging", !.via = f]) PROVE Goal
    BY <1>1, <2>2, <2>5
  <2> QED
    BY <1>2, <1>6, <2>3, <2>4, <2>5 DEF Store, Fail, Analyze
<1>7. ASSUME NEW v \in Workers, Restart(v) PROVE Goal
  <2>1. worker'[v].pc = "idle" /\ \A x \in Workers : x # v => worker'[x] = worker[x]
    BY <1>7 DEF Restart, Becomes, Loop, TypeInv
  <2> QED
    BY <2>1
<1>8. ASSUME NEW v \in Workers, Poll(v) \/ Write(v) \/ Refuse(v) \/ Crash(v) PROVE Goal
  BY <1>2, <1>8 DEF Poll, Write, Refuse, Crash
<1>9. ASSUME worker' = worker PROVE Goal
  BY <1>9
<1> HIDE DEF Goal
<1>10. ASSUME NEW v \in Workers, Work(v) \/ Crash(v) PROVE Goal
  BY <1>3, <1>4, <1>5, <1>6, <1>7, <1>8, <1>10 DEF Work, Finalize
<1>11. worker' = worker \/ \E v \in Workers : Work(v) \/ Crash(v)
  BY DEF Next, vars, Ingest, RecordRejection, TimePasses, LeaseOutrun
<1>12. Goal
  BY <1>9, <1>10, <1>11
<1> QED
  BY <1>12 DEF Goal

LEMMA NextDrafts ==
    ASSUME ReportInv, [Next]_vars
    PROVE  DraftInv'
<1> USE DEF ReportInv
<1>1. TaskStep
  BY TaskSteps
<1>2. ASSUME NEW s \in Scans, AllEnded(s)
      PROVE  \A k \in Tools : task'[s][k] = task[s][k] /\ task[s][k].state \in Terminal
  BY <1>1, <1>2, EndedStays DEF AllEnded
<1>3. ASSUME NEW w \in Workers PROVE DraftCurrent(worker[w])'
  <2>1. CASE worker'[w].pc \notin {"writing", "refusing"}
    BY <2>1 DEF DraftCurrent
  <2>2. CASE UNCHANGED task /\ DraftCurrent(worker'[w])
    <3>1. \A t : AllEnded(t)' = AllEnded(t) /\ Results(t)' = Results(t)
      BY <2>2 DEF AllEnded, Results
    <3> QED
      BY <2>2, <3>1 DEF DraftCurrent
  <2>3. CASE worker'[w] = worker[w] /\ worker[w].pc \in {"writing", "refusing"}
    <3>1. worker[w].scan \in Scans /\ AllEnded(worker[w].scan)
      BY <2>3, WorkerFields DEF DraftInv, DraftCurrent, OnScan
    <3>2. AllEnded(worker[w].scan)'
      BY <1>2, <2>3, <3>1 DEF AllEnded
    <3>3. Results(worker[w].scan)' = Results(worker[w].scan)
      BY <1>2, <2>3, <3>1 DEF Results
    <3> QED
      BY <2>3, <3>2, <3>3 DEF DraftInv, DraftCurrent
  <2> QED
    BY <2>1, <2>2, <2>3, DraftSteps
<1> QED
  BY <1>3 DEF DraftInv

LEMMA InitReports == Init => ReportInv
<1> SUFFICES ASSUME Init PROVE ReportInv
  OBVIOUS
<1>1. ReportMatchesState
  BY DEF Init, ReportMatchesState, Absent
<1>2. DraftInv
  BY DEF Init, DraftInv, DraftCurrent
<1> QED
  BY <1>1, <1>2, InitTypes DEF ReportInv

LEMMA ReportInvariance == Spec => []ReportInv
<1>1. ReportInv /\ [Next]_vars => ReportInv'
  BY NextTypes, NextReportMatches, NextDrafts DEF ReportInv
<1> QED
  BY <1>1, InitReports, PTL DEF Spec

(* The state of a scan and its report agree, whatever the order of         *)
(* ingestion, rejection and finalization (ingest_scan, record_rejection,   *)
(* finalize_scan_report).                                                  *)
THEOREM ReportMatchesStateCorrect == Spec => []ReportMatchesState
BY ReportInvariance, PTL DEF ReportInv

LEMMA ApiKeepsReports ==
    ASSUME TypeInv, NEW r \in Scans, Ingest(r) \/ RecordRejection(r), NEW s \in Scans
    PROVE  scan'[s].report = scan[s].report
<1>1. scan[r] \in Scan
  BY DEF TypeInv
<1>2. CASE Ingest(r)
  BY <1>1, <1>2 DEF Ingest, TypeInv, Scan
<1>3. CASE RecordRejection(r)
  <2>1. scan'[r].report = scan[r].report /\ \A x \in Scans : x # r => scan'[x] = scan[x]
    BY <1>1, <1>3 DEF RecordRejection, TypeInv, Scan
  <2> QED
    BY <2>1
<1> QED
  BY <1>2, <1>3

(* No step replaces a published report: the row is locked and compared     *)
(* before it is written (finalize_scan_report,                             *)
(* finalize_scan_report_failure).                                          *)
THEOREM ReportIsFinalCorrect == Spec => ReportIsFinal
<1>1. ASSUME ReportInv, [Next]_vars, NEW s \in Scans, scan[s].report # None
      PROVE  scan'[s].report = scan[s].report
  <2>1. ScanStep
    BY <1>1, ScanSteps DEF ReportInv
  <2>2. ASSUME NEW r \in Scans, Ingest(r) \/ RecordRejection(r)
        PROVE  scan'[s].report = scan[s].report
    BY <1>1, <2>2, ApiKeepsReports DEF ReportInv
  <2>3. ASSUME NEW r, NEW x, OneReport(r, x) PROVE scan'[s].report = scan[s].report
    BY <1>1, <2>3 DEF OneReport, ReportInv, TypeInv
  <2> QED
    BY <2>1, <2>2, <2>3 DEF ScanStep
<1>2. ReportInv /\ [Next]_vars =>
        [\A s \in Scans : scan[s].report # None => scan'[s].report = scan[s].report]_vars
  BY <1>1
<1> QED
  BY <1>2, ReportInvariance, PTL DEF Spec, ReportIsFinal

-----------------------------------------------------------------------------
(* The tables keep the promise                                             *)

outcomes == [s \in Scans |-> Results(s)]

Published(r) == IF r \in {None, Refused} THEN r ELSE r.of

reports == [s \in Scans |-> Published(scan[s].report)]

LEMMA OutcomeOpen ==
    ASSUME NEW t
    PROVE  /\ t.state \in Terminal => Outcome(t) # Open
           /\ t.state \notin Terminal => Outcome(t) = Open
<1>1. Open.state = "OPEN"
  BY DEF Open
<1>2. t.state \in Terminal => Outcome(t).state \in Terminal
  BY DEF Outcome
<1> QED
  BY <1>1, <1>2 DEF Outcome, Terminal

LEMMA EndedOutcome ==
    ASSUME NEW t \in Task, NEW state \in Terminal, NEW a \in Nat
    PROVE  Outcome(Ended(t, state, a)) \in Outcomes
<1>1. Ended(t, state, a) \in Task
  BY EndedType
<1>2. Ended(t, state, a).state = state
  BY DEF Task, Ended, Terminal
<1> QED
  BY <1>1, <1>2, OutcomeType

LEMMA SameOutcomes ==
    ASSUME \A s \in Scans, k \in Tools : Outcome(task'[s][k]) = Outcome(task[s][k])
    PROVE  outcomes' = outcomes
<1>1. \A s \in Scans : Results(s)' = Results(s)
  BY DEF Results
<1> QED
  BY <1>1 DEF outcomes

LEMMA SameReports ==
    ASSUME \A s \in Scans : scan'[s].report = scan[s].report
    PROVE  reports' = reports
BY DEF reports

LEMMA IngestKeeps ==
    ASSUME TypeInv, ReportMatchesState, NEW s \in Scans, Ingest(s)
    PROVE  UNCHANGED <<outcomes, reports>>
<1>1. \A r \in Scans, k \in Tools :
         task'[r][k] = IF r = s THEN Pending ELSE task[r][k]
  BY DEF Ingest, TypeInv
<1>2. \A k \in Tools : task[s][k].state = "ABSENT"
  BY DEF Ingest, ReportMatchesState
<1>3. Pending.state = "PENDING"
  BY DEF Pending, Absent
<1>4. \A k \in Tools : Outcome(task[s][k]) = Open
  BY <1>2, OutcomeOpen DEF Terminal
<1>5. Outcome(Pending) = Open
  BY <1>3, OutcomeOpen DEF Terminal
<1>6. outcomes' = outcomes
  BY <1>1, <1>4, <1>5, SameOutcomes
<1>7. \A r \in Scans : scan'[r].report = scan[r].report
  BY ApiKeepsReports
<1> QED
  BY <1>6, <1>7, SameReports

LEMMA TaskKeeps ==
    ASSUME TypeInv, UNCHANGED scan, NEW s \in Scans, NEW k \in Tools, OneTask(s, k)
    PROVE  Promise!End(s, k) \/ UNCHANGED <<outcomes, reports>>
<1>1. PICK t \in Task :
         /\ task' = [task EXCEPT ![s][k] = t]
         /\ EndsTask(s, k, t) \/ MovesTask(s, k, t)
  BY DEF OneTask
<1>2. \A r \in Scans, l \in Tools :
         task'[r][l] = IF r = s /\ l = k THEN t ELSE task[r][l]
  BY <1>1 DEF TypeInv
<1>3. reports' = reports
  BY DEF reports
<1>4. CASE MovesTask(s, k, t)
  <2>1. Outcome(task[s][k]) = Open /\ Outcome(t) = Open
    BY <1>4, OutcomeOpen DEF MovesTask
  <2> QED
    BY <1>2, <1>3, <2>1, SameOutcomes
<1>5. CASE EndsTask(s, k, t)
  <2>1. PICK w \in Workers, state \in Terminal :
           LeasedBy(task[s][k], w) /\ t = Ended(task[s][k], state, worker[w].attempt)
    BY <1>5 DEF EndsTask
  <2>2. Outcome(t) \in Outcomes
    BY <2>1, EndedOutcome, WorkerFields DEF TypeInv
  <2>3. Outcome(task[s][k]) = Open
    BY <2>1, OutcomeOpen DEF LeasedBy, Terminal
  <2>4. \A r \in Scans : Results(r)' =
           IF r = s THEN [Results(s) EXCEPT ![k] = Outcome(t)] ELSE Results(r)
    BY <1>2 DEF Results
  <2>5. outcomes[s][k] = Open
    BY <2>3 DEF outcomes, Results
  <2>6. outcomes' = [outcomes EXCEPT ![s] = [outcomes[s] EXCEPT ![k] = Outcome(t)]]
    BY <2>4 DEF outcomes
  <2>7. outcomes'[s][k] = Outcome(t)
    BY <2>4 DEF outcomes, Results
  <2> HIDE DEF outcomes
  <2>8. outcomes' = [outcomes EXCEPT ![s][k] = outcomes'[s][k]]
    BY <2>6, <2>7
  <2> QED
    BY <1>3, <2>2, <2>5, <2>7, <2>8 DEF Promise!End, outcomes, reports, Published
<1> QED
  BY <1>1, <1>4, <1>5

LEMMA ReportKeeps ==
    ASSUME TypeInv, NEW s \in Scans, NEW r \in {Refused} \cup Report, OneReport(s, r),
           r \in Report => r.of = Results(s)
    PROVE  Promise!Publish(s)
<1>1. \A x \in Scans : scan'[x].report = IF x = s THEN r ELSE scan[x].report
  BY DEF OneReport, TypeInv, Scan
<1>2. Published(r) \in {Results(s), Refused}
  BY ReportsAssumption DEF Published
<1>3. reports' = [reports EXCEPT ![s] = Published(r)]
  BY <1>1 DEF reports
<1>4. reports[s] = None
  BY DEF reports, Published, OneReport
<1>5. outcomes' = outcomes
  BY SameOutcomes DEF OneReport
<1>6. outcomes[s] = Results(s) /\ \A k \in Tools : outcomes[s][k] # Open
  BY OutcomeOpen DEF outcomes, Results, OneReport, AllEnded
<1> QED
  BY <1>2, <1>3, <1>4, <1>5, <1>6 DEF Promise!Publish, outcomes, reports, Published

LEMMA StepKeeps ==
    ASSUME ReportInv, [Next]_vars
    PROVE  [Promise!PromiseNext]_(Promise!promiseVars)
<1> USE DEF ReportInv
<1>1. TaskStep /\ ScanStep
  BY TaskSteps, ScanSteps
<1>2. CASE \E s \in Scans : Ingest(s)
  BY <1>2, IngestKeeps DEF Promise!promiseVars, outcomes, reports, Published
<1>3. CASE UNCHANGED scan /\ \E s \in Scans, k \in Tools : OneTask(s, k)
  BY <1>3, TaskKeeps DEF Promise!PromiseNext, Promise!promiseVars, outcomes, reports, Published
<1>4. CASE UNCHANGED task
  <2>1. outcomes' = outcomes
    BY <1>4, SameOutcomes
  <2>2. CASE UNCHANGED scan \/ \E s \in Scans : RecordRejection(s)
    <3>1. \A s \in Scans : scan'[s].report = scan[s].report
      BY <2>2, ApiKeepsReports
    <3> QED
      BY <2>1, <3>1, SameReports DEF Promise!promiseVars, outcomes, reports, Published
  <2>3. ASSUME NEW w \in Workers,
               \/ worker[w].pc = "writing" /\ OneReport(worker[w].scan, worker[w].draft)
               \/ worker[w].pc = "refusing" /\ OneReport(worker[w].scan, Refused)
        PROVE  Promise!PromiseNext
    <3>1. PICK s \in Scans, r \in Report \cup {None} : s = worker[w].scan /\ r = worker[w].draft
      BY <2>3, WorkerFields DEF OnScan, Worker
    <3>2. CASE worker[w].pc = "writing" /\ OneReport(worker[w].scan, worker[w].draft)
      <4>1. r \in Report /\ r.of = Results(s)
        BY <3>1, <3>2, WorkerFields DEF DraftInv, DraftCurrent
      <4>2. OneReport(s, r)
        BY <3>1, <3>2 DEF OneReport
      <4>3. Promise!Publish(s)
        BY <4>1, <4>2, ReportKeeps
      <4> QED
        BY <4>3 DEF Promise!PromiseNext
    <3>3. CASE OneReport(worker[w].scan, Refused)
      <4>1. OneReport(s, Refused)
        BY <3>1, <3>3 DEF OneReport
      <4>2. Promise!Publish(s)
        BY <4>1, ReportsAssumption, ReportKeeps
      <4> QED
        BY <4>2 DEF Promise!PromiseNext
    <3> QED
      BY <2>3, <3>2, <3>3
  <2> QED
    BY <1>1, <1>2, <2>2, <2>3 DEF ScanStep
<1> QED
  BY <1>1, <1>2, <1>3, <1>4 DEF TaskStep

(* The tables, the transactions and the workers implement ReportPromise:   *)
(* a task ends once, and one report is published, once, of what both tools *)
(* ended with.                                                             *)
THEOREM PromiseKept == Spec => KeepsPromise
<1>1. Init => Promise!PromiseInit
  <2> SUFFICES ASSUME Init PROVE Promise!PromiseInit
    OBVIOUS
  <2>1. \A s \in Scans, k \in Tools : Outcome(task[s][k]) = Open
    BY DEF Init, Absent, Outcome, Terminal
  <2>2. \A s \in Scans : Results(s) = [k \in Tools |-> Open]
    BY <2>1 DEF Results
  <2>3. \A s \in Scans : scan[s].report = None
    BY DEF Init
  <2> QED
    BY <2>2, <2>3 DEF Promise!PromiseInit
<1>2. ReportInv /\ [Next]_vars => [Promise!PromiseNext]_(Promise!promiseVars)
  BY StepKeeps
<1> QED
  BY <1>1, <1>2, ReportInvariance, PTL DEF Spec, KeepsPromise, Promise!PromiseSpec

-----------------------------------------------------------------------------
(* Attempts                                                                *)

(* An attempt beyond the limit needs a claim of a row whose lease ended,   *)
(* and for each of those a crash or a lost lease has been paid.            *)
Limited(t, working, f) ==
    /\ t.state \in {"ABSENT", "PENDING"} => t.attempts = 0
    /\ t.state = "RETRY" => t.attempts < MaxAttempts
    /\ t.state = "RUNNING" /\ (t.ready \/ ~working) => t.attempts < MaxAttempts + f
    /\ t.attempts <= MaxAttempts + f

LimitInv == \A s \in Scans, k \in Tools : Limited(task[s][k], AtWork(s, k), faults)

AttemptInv == TypeInv /\ LatestAttemptDecides /\ LimitInv

(* A worker leaves its task only by storing or failing it, or by crashing. *)
LEMMA WorkGoesOn ==
    ASSUME TypeInv, [Next]_vars, NEW s \in Scans, NEW k \in Tools,
           AtWork(s, k), task'[s][k] = task[s][k], faults' = faults
    PROVE  AtWork(s, k)'
<1>1. PICK w \in Workers :
         /\ worker[w].pc \in {"analyzing", "storing", "failing"}
         /\ Runs(worker[w], s, k)
         /\ LeasedBy(task[s][k], w)
  BY DEF AtWork, Runs
<1>2. SUFFICES ASSUME worker'[w] # worker[w]
               PROVE  /\ worker'[w].pc \in {"analyzing", "storing", "failing"}
                      /\ Runs(worker'[w], s, k)
  BY <1>1 DEF AtWork, Runs, LeasedBy
<1>3. Analyze(w) \/ Store(w) \/ Fail(w)
  <2>1. ASSUME NEW v \in Workers, NEW r, v # w, Becomes(v, r) PROVE FALSE
    BY <1>2, <2>1 DEF Becomes, TypeInv
  <2>2. ~Crash(w)
    BY DEF Crash, TypeInv
  <2>3. ~Claim(w) /\ ~Poll(w) /\ ~Reconcile(w) /\ ~Finalize(w) /\ ~Restart(w)
    BY <1>1 DEF Claim, Poll, Reconcile, Finalize, Merge, Write, Refuse, Restart
  <2>4. ASSUME NEW v \in Workers, Work(v) \/ Crash(v) PROVE v = w
    BY <2>1, <2>4 DEF Work, Finalize, Claim, Poll, Reconcile, Analyze, Store, Fail,
                      Merge, Write, Refuse, Restart, Crash
  <2>5. \E v \in Workers : Work(v) \/ Crash(v)
    BY <1>2 DEF Next, vars, Ingest, RecordRejection, TimePasses, LeaseOutrun
  <2>6. Work(w)
    BY <2>2, <2>4, <2>5
  <2> QED
    BY <2>3, <2>6 DEF Work
<1>4. worker[w] \in Worker
  BY WorkerFields
<1>5. CASE Analyze(w)
  BY <1>1, <1>4, <1>5 DEF Analyze, Becomes, Runs, Worker, TypeInv
<1>6. ASSUME NEW t, task' = [task EXCEPT ![s][k] = t] PROVE t = task[s][k]
  BY <1>6 DEF TypeInv
<1>7. task[s][k] \in Task /\ task[s][k].state = "RUNNING"
  BY <1>1 DEF TypeInv, LeasedBy
<1>8. CASE Store(w)
  <2>1. task' = [task EXCEPT ![s][k] = Ended(@, "SUCCEEDED", worker[w].attempt)]
    BY <1>1, <1>8 DEF Store, Runs
  <2>2. Ended(task[s][k], "SUCCEEDED", worker[w].attempt).state = "SUCCEEDED"
    BY <1>7 DEF Ended, Task
  <2> QED
    BY <1>6, <1>7, <2>1, <2>2
<1>9. CASE Fail(w)
  <2>1. \/ task' = [task EXCEPT ![s][k] = Ended(@, "FAILED", worker[w].attempt)]
        \/ task' = [task EXCEPT ![s][k] = Delayed(@)]
    BY <1>1, <1>9 DEF Fail, Runs
  <2>2. Ended(task[s][k], "FAILED", worker[w].attempt).state = "FAILED"
    BY <1>7 DEF Ended, Task
  <2>3. Delayed(task[s][k]).state = "RETRY"
    BY <1>7 DEF Delayed, Task
  <2> QED
    BY <1>6, <1>7, <2>1, <2>2, <2>3
<1> QED
  BY <1>3, <1>5, <1>8, <1>9

LEMMA FaultsGrow ==
    ASSUME TypeInv, [Next]_vars
    PROVE  faults \in Nat /\ (faults' = faults \/ faults' = faults + 1)
<1>1. faults \in Nat
  BY ConstantsAssumption DEF TypeInv
<1> QED
  BY <1>1 DEF Next, vars, Work, Finalize, Ingest, RecordRejection, TimePasses, LeaseOutrun,
              Crash, Claim, Poll, Reconcile, Analyze, Store, Fail, Merge, Write, Refuse, Restart

LEMMA SameRowLimited ==
    ASSUME AttemptInv, [Next]_vars, NEW s \in Scans, NEW k \in Tools,
           task'[s][k] = task[s][k]
    PROVE  Limited(task'[s][k], AtWork(s, k)', faults')
<1> DEFINE t == task[s][k]
<1>1. t.attempts \in Nat /\ MaxAttempts \in Nat
  BY ConstantsAssumption DEF AttemptInv, TypeInv, Task
<1>2. faults \in Nat /\ (faults' = faults \/ faults' = faults + 1)
  BY FaultsGrow DEF AttemptInv
<1>3. Limited(t, AtWork(s, k), faults)
  BY DEF AttemptInv, LimitInv
<1>4. faults' = faults /\ AtWork(s, k) => AtWork(s, k)'
  BY WorkGoesOn DEF AttemptInv
<1> HIDE DEF t
<1>5. CASE faults' = faults
  <2>1. ~AtWork(s, k)' => ~AtWork(s, k)
    BY <1>4, <1>5
  <2> DEFINE now == AtWork(s, k)
             then == AtWork(s, k)'
  <2> HIDE DEF now, then
  <2>2. Limited(t, now, faults) /\ (~then => ~now) => Limited(t, then, faults)
    BY DEF Limited
  <2> QED
    BY <1>3, <1>5, <2>1, <2>2 DEF now, then, t
<1>6. CASE faults' = faults + 1
  <2>1. t.attempts <= MaxAttempts + faults
    BY <1>3 DEF Limited
  <2>2. t.attempts < MaxAttempts + faults'
    BY <1>1, <1>2, <1>6, <2>1
  <2>3. t.attempts <= MaxAttempts + faults'
    BY <1>1, <1>2, <1>6, <2>2
  <2> QED
    BY <1>3, <2>2, <2>3 DEF Limited, t
<1> QED
  BY <1>2, <1>5, <1>6

(* A step that writes the row of one task.                                 *)
LEMMA OneRowLimited ==
    ASSUME AttemptInv, [Next]_vars, NEW s \in Scans, NEW k \in Tools, NEW t,
           task' = [task EXCEPT ![s][k] = t],
           Limited(t, AtWork(s, k)', faults')
    PROVE  LimitInv'
<1>1. ASSUME NEW r \in Scans, NEW l \in Tools
      PROVE  Limited(task'[r][l], AtWork(r, l)', faults')
  <2>1. task'[r][l] = IF r = s /\ l = k THEN t ELSE task[r][l]
    BY DEF AttemptInv, TypeInv
  <2>2. CASE r = s /\ l = k
    BY <2>1, <2>2
  <2>3. CASE r # s \/ l # k
    BY <2>1, <2>3, SameRowLimited
  <2> QED
    BY <2>2, <2>3
<1> QED
  BY <1>1 DEF LimitInv

LEMMA ClaimLimited ==
    ASSUME AttemptInv, NEW w \in Workers, Claim(w), [Next]_vars
    PROVE  LimitInv'
<1>1. PICK k \in Offered(w), s \in Scans :
         /\ Claimable(task[s][k])
         /\ task' = [task EXCEPT ![s][k] = Claimed(@, w)]
         /\ Becomes(w, [Loop(w, "analyzing") EXCEPT
                          !.scan = s, !.kind = k, !.attempt = task[s][k].attempts + 1,
                          !.turn = IF Other(k) \in KindsOf[w] THEN Other(k) ELSE k])
  BY DEF Claim
<1>2. k \in Tools
  BY ConstantsAssumption DEF Offered
<1> DEFINE o == task[s][k]
           t == Claimed(o, w)
<1>3. /\ o.attempts \in Nat /\ MaxAttempts \in Nat \ {0} /\ faults \in Nat
      /\ faults' = faults
  BY <1>2, ConstantsAssumption DEF AttemptInv, TypeInv, Task, Claim
<1>4. o.attempts < MaxAttempts + faults
  <2>1. Limited(o, AtWork(s, k), faults)
    BY <1>2 DEF AttemptInv, LimitInv
  <2> HIDE DEF o
  <2>2. CASE o.state = "PENDING"
    BY <1>3, <2>1, <2>2 DEF Limited
  <2>3. CASE o.state = "RETRY"
    BY <1>3, <2>1, <2>3 DEF Limited
  <2>4. CASE o.state = "RUNNING" /\ o.ready
    BY <2>1, <2>4 DEF Limited
  <2> QED
    BY <1>1, <2>2, <2>3, <2>4 DEF Claimable, o
<1>5. /\ t.state = "RUNNING"
      /\ t.leasedBy = w
      /\ t.ready = FALSE
      /\ t.attempts = o.attempts + 1
  BY <1>2 DEF AttemptInv, TypeInv, Task, Claimed
<1>6. AtWork(s, k)'
  <2>1. worker'[w].pc = "analyzing" /\ worker'[w].scan = s /\ worker'[w].kind = k
    BY <1>1 DEF Becomes, AttemptInv, TypeInv, Loop
  <2>2. task'[s][k] = t
    BY <1>1, <1>2 DEF AttemptInv, TypeInv
  <2> QED
    BY <1>5, <2>1, <2>2 DEF AtWork, LeasedBy
<1> HIDE DEF o, t
<1>7. t.attempts <= MaxAttempts + faults
  BY <1>3, <1>4, <1>5
<1>8. Limited(t, AtWork(s, k)', faults')
  <2> DEFINE working == AtWork(s, k)'
  <2>1. working
    BY <1>6
  <2> HIDE DEF working
  <2>2. Limited(t, working, faults')
    BY <1>3, <1>5, <1>7, <2>1 DEF Limited
  <2> QED
    BY <2>2 DEF working
<1>9. task' = [task EXCEPT ![s][k] = t]
  BY <1>1 DEF o, t
<1> QED
  BY <1>2, <1>8, <1>9, OneRowLimited

LEMMA StoreLimited ==
    ASSUME AttemptInv, NEW w \in Workers, Store(w) \/ Fail(w), [Next]_vars,
           ~UNCHANGED task
    PROVE  LimitInv'
<1>1. PICK s \in Scans, k \in Tools, a \in Nat : Runs(worker[w], s, k) /\ a = worker[w].attempt
  BY WorkerFields DEF Store, Fail, OnTask, Runs, AttemptInv
<1> DEFINE o == task[s][k]
<1>2. o \in Task /\ a \in Nat /\ MaxAttempts \in Nat /\ faults \in Nat /\ faults' = faults
  BY <1>1, WorkerFields, ConstantsAssumption DEF AttemptInv, TypeInv, Store, Fail
<1>3. LeasedBy(o, w)
  BY <1>1 DEF Store, Fail, Runs
<1>4. a = o.attempts
  BY <1>1, <1>3 DEF AttemptInv, LatestAttemptDecides, Runs
<1>5. o.attempts <= MaxAttempts + faults
  BY DEF AttemptInv, LimitInv, Limited
<1>6. ASSUME NEW state \in Terminal, task' = [task EXCEPT ![s][k] = Ended(o, state, a)]
      PROVE  LimitInv'
  <2>1. Ended(o, state, a).state \in Terminal /\ Ended(o, state, a).attempts = o.attempts
    BY <1>2 DEF Task, Ended
  <2>2. Limited(Ended(o, state, a), AtWork(s, k)', faults')
    BY <1>2, <1>5, <2>1 DEF Limited, Terminal
  <2> QED
    BY <1>6, <2>2, OneRowLimited
<1>7. ASSUME task' = [task EXCEPT ![s][k] = Delayed(o)], ~DeadLetter(worker[w])
      PROVE  LimitInv'
  <2>1. Delayed(o).state = "RETRY" /\ Delayed(o).attempts = o.attempts
    BY <1>2 DEF Task, Delayed
  <2>2. o.attempts < MaxAttempts
    BY <1>1, <1>2, <1>4, <1>7 DEF DeadLetter
  <2>3. Limited(Delayed(o), AtWork(s, k)', faults')
    BY <1>2, <1>5, <2>1, <2>2 DEF Limited
  <2> QED
    BY <1>7, <2>3, OneRowLimited
<1>8. CASE Store(w)
  <2>1. task' = [task EXCEPT ![s][k] = Ended(o, "SUCCEEDED", a)]
    BY <1>1, <1>8 DEF Store, Runs
  <2> QED
    BY <1>6, <2>1 DEF Terminal
<1>9. CASE Fail(w)
  <2>1. \/ task' = [task EXCEPT ![s][k] = Ended(o, "FAILED", a)]
        \/ ~DeadLetter(worker[w]) /\ task' = [task EXCEPT ![s][k] = Delayed(o)]
    BY <1>1, <1>9 DEF Fail, Runs
  <2> QED
    BY <1>6, <1>7, <2>1 DEF Terminal
<1> QED
  BY <1>8, <1>9

LEMMA DueLimited ==
    ASSUME AttemptInv, NEW s \in Scans, NEW k \in Tools, [Next]_vars,
           TimePasses(s, k) \/ LeaseOutrun(s, k)
    PROVE  LimitInv'
<1> DEFINE o == task[s][k]
           t == Due(o)
<1>1. o.attempts \in Nat /\ MaxAttempts \in Nat /\ faults \in Nat
  BY ConstantsAssumption DEF AttemptInv, TypeInv, Task
<1>2. t.state = o.state /\ t.attempts = o.attempts
  BY DEF Due, AttemptInv, TypeInv, Task
<1>3. o.state \in {"RETRY", "RUNNING"}
  BY DEF TimePasses, LeaseOutrun, AtWork, LeasedBy
<1>4. Limited(o, AtWork(s, k), faults)
  BY DEF AttemptInv, LimitInv
<1>5. \/ faults' = faults /\ ~AtWork(s, k)
      \/ faults' = faults + 1
  BY DEF TimePasses, LeaseOutrun
<1>6. task' = [task EXCEPT ![s][k] = t]
  BY DEF TimePasses, LeaseOutrun
<1> HIDE DEF o, t
<1>7. o.state = "RUNNING" => o.attempts < MaxAttempts + faults'
  BY <1>1, <1>4, <1>5 DEF Limited
<1>8. o.attempts <= MaxAttempts + faults'
  BY <1>1, <1>4, <1>5 DEF Limited
<1>9. Limited(t, AtWork(s, k)', faults')
  BY <1>2, <1>3, <1>4, <1>7, <1>8 DEF Limited
<1> QED
  BY <1>6, <1>9, OneRowLimited

LEMMA IngestLimited ==
    ASSUME AttemptInv, NEW s \in Scans, Ingest(s), [Next]_vars
    PROVE  LimitInv'
<1>1. ASSUME NEW r \in Scans, NEW l \in Tools
      PROVE  Limited(task'[r][l], AtWork(r, l)', faults')
  <2>1. task'[r][l] = IF r = s THEN Pending ELSE task[r][l]
    BY DEF Ingest, AttemptInv, TypeInv
  <2>2. Pending.state = "PENDING" /\ Pending.attempts = 0
    BY DEF Pending, Absent
  <2>3. 0 <= MaxAttempts + faults'
    BY ConstantsAssumption DEF Ingest, AttemptInv, TypeInv
  <2>4. CASE r = s
    BY <2>1, <2>2, <2>3, <2>4 DEF Limited
  <2>5. CASE r # s
    BY <2>1, <2>5, SameRowLimited
  <2> QED
    BY <2>4, <2>5
<1> QED
  BY <1>1 DEF LimitInv

LEMMA NextLimited == AttemptInv /\ [Next]_vars => LimitInv'
<1> SUFFICES ASSUME AttemptInv, [Next]_vars PROVE LimitInv'
  OBVIOUS
<1>1. CASE UNCHANGED task
  BY <1>1, SameRowLimited DEF LimitInv
<1>2. ASSUME NEW s \in Scans, Ingest(s) PROVE LimitInv'
  BY <1>2, IngestLimited
<1>3. ASSUME NEW s \in Scans, NEW k \in Tools, TimePasses(s, k) \/ LeaseOutrun(s, k)
      PROVE  LimitInv'
  BY <1>3, DueLimited
<1>4. ASSUME NEW w \in Workers, Claim(w) PROVE LimitInv'
  BY <1>4, ClaimLimited
<1>5. ASSUME NEW w \in Workers, Store(w) \/ Fail(w) PROVE LimitInv'
  BY <1>1, <1>5, StoreLimited
<1>6. ASSUME NEW w \in Workers, Work(w) \/ Crash(w) PROVE LimitInv'
  BY <1>1, <1>4, <1>5, <1>6
     DEF Work, Finalize, Poll, Reconcile, Analyze, Merge, Write, Refuse, Restart, Crash
<1> QED
  BY <1>1, <1>2, <1>3, <1>6 DEF Next, vars, RecordRejection

(* A task is run at most max_attempts times, and once more for each crash  *)
(* or lost lease: fail_analysis_task compares the attempts, the claim of   *)
(* an expired lease does not.                                              *)
THEOREM AttemptsPerFaultCorrect == Spec => []AttemptsPerFault
<1>1. Init => AttemptInv
  <2> SUFFICES ASSUME Init PROVE AttemptInv
    OBVIOUS
  <2>1. \A s \in Scans, k \in Tools : task[s][k] = Absent
    BY DEF Init
  <2>2. Absent.state = "ABSENT" /\ Absent.attempts = 0
    BY DEF Absent
  <2>3. 0 <= MaxAttempts + faults
    BY ConstantsAssumption DEF Init
  <2>4. LimitInv
    BY <2>1, <2>2, <2>3 DEF LimitInv, Limited
  <2> QED
    BY <2>4, InitTypes, InitLeases DEF AttemptInv
<1>2. AttemptInv /\ [Next]_vars => AttemptInv'
  BY NextTypes, NextLeases, NextLimited DEF AttemptInv
<1>3. AttemptInv => AttemptsPerFault
  BY DEF AttemptInv, LimitInv, Limited, AttemptsPerFault
<1> QED
  BY <1>1, <1>2, <1>3, PTL DEF Spec

=============================================================================

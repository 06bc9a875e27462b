----------------------------- MODULE AgentLoop -----------------------------
(***************************************************************************)
(* The service loop of the endpoint agent: ScannerAgent.run_once with the   *)
(* credential maintenance, policy maintenance and scheduler it drives,      *)
(* composed with the modules that model the credential and the policies.    *)
(* Delivery is modelled in UploadQueue, execution in ScanLifecycle; here a  *)
(* scan is the job that runs and whether execute raises.                    *)
(***************************************************************************)
EXTENDS CredentialRotation, PolicyAssignment

CONSTANTS
    Scheduling,     \* scheduling.enabled: cli builds a scheduler only then
    Interval,       \* scheduling.periodic_interval_seconds
    Jitter,         \* its jitter, in ticks
    MaxTime         \* bound: the clock stops there

ASSUME LoopAssumption ==
    /\ Scheduling \in BOOLEAN
    /\ Interval \in Nat \ {0} /\ Jitter \in Nat /\ Jitter < Interval
    /\ MaxTime \in Nat

VARIABLES
    stage,       \* where run_once is
    job,         \* the trigger of the job being executed
    startup,     \* CooperativeScanScheduler._startup_pending
    requested,   \* CooperativeScanScheduler._policy_requested
    due          \* CooperativeScanScheduler._next_run

sched == <<startup, requested, due>>
lvars == <<stage, job, sched>>
vars == <<cvars, pvars, lvars>>

Stages == {"down", "maintain", "rotating", "policy", "fetch", "poll", "scan", "rest"}
Triggers == {"STARTUP", "POLICY", "PERIODIC", "CLOUD"}

TypeOK ==
    /\ CredentialTypeOK /\ PolicyTypeOK
    /\ stage \in Stages /\ (stage = "down" <=> ~Running)
    /\ job \in Triggers \cup {None}
    /\ startup \in BOOLEAN /\ requested \in BOOLEAN
    /\ due \in Nat

NextRuns == {now + Interval + d : d \in 0..Jitter} \cup {now + Interval - d : d \in 0..Jitter}

Init ==
    /\ InitCredential /\ InitPolicy
    /\ stage = "down" /\ job = None
    /\ startup = FALSE /\ requested = FALSE /\ due = 0

\* _cmd_agent: the orchestrator starts, an enrolled endpoint with a credential
\* is found, and the scheduler is built anew.
Start ==
    /\ stage = "down" /\ stored.generation # 0 /\ StartAgent
    /\ stage' = "maintain"
    /\ startup' = Scheduling /\ requested' = FALSE
    /\ due' \in IF Scheduling THEN NextRuns ELSE {0}
    /\ UNCHANGED <<cvars, job>>

\* A call lasts seconds: the one of a command is over before the hour ends.
NoCall == \A p \in Rotators : call[p] = Idle

\* Credential maintenance: a rotation is due, or not; rotate() refuses an
\* expired credential.
Maintain ==
    /\ stage = "maintain"
    /\ IF RotationDue(Service)
       THEN Begin(Service) /\ stage' = "rotating"
       ELSE NoCall /\ stage' = "policy" /\ UNCHANGED cvars
    /\ UNCHANGED <<pvars, job, sched>>

Rotating ==
    /\ stage = "rotating"
    /\ Answered(Service) \/ Lost(Service) \/ Save(Service)
    /\ UNCHANGED <<pvars, lvars>>

\* Whatever became of it, the outbox is uploaded and the policies are next.
Rotated ==
    /\ stage = "rotating" /\ NoCall
    /\ stage' = "policy"
    /\ UNCHANGED <<cvars, pvars, job, sched>>

\* Policy maintenance.  A network failure, or a credential the agent or the
\* cloud refuses, takes the iteration offline: it fetches no job.  A refused
\* assignment does not, and no assignment does not.
PolicyOffline ==
    /\ stage = "policy"
    /\ stage' = "poll"
    /\ UNCHANGED <<cvars, pvars, job, sched>>

PolicyKept ==
    /\ stage = "policy" /\ Authenticated
    /\ IF offered = None THEN TRUE ELSE Refused(offered)
    /\ stage' = "fetch"
    /\ UNCHANGED <<cvars, pvars, job, sched>>

\* An assignment that changes the active identity requests a policy scan.
PolicyInstalled ==
    /\ stage = "policy" /\ Authenticated
    /\ offered # None /\ Installed(offered)
    /\ requested' = (requested \/ (Scheduling /\ Activates(offered)))
    /\ stage' = "fetch"
    /\ UNCHANGED <<cvars, job, startup, due>>

\* The next job of the cloud: one to execute, which keeps the scheduler from
\* being polled in this iteration, or none, one that is refused and reported,
\* or a transport failure.  The cloud may have a job at every iteration.
FetchJob ==
    /\ stage = "fetch" /\ Authenticated
    /\ job' = "CLOUD" /\ stage' = "scan"
    /\ UNCHANGED <<cvars, pvars, sched>>

FetchNothing ==
    /\ stage = "fetch"
    /\ stage' = "poll"
    /\ UNCHANGED <<cvars, pvars, job, sched>>

\* Mutant: the startup trigger is not cleared.
PolledSticky ==
    \/ startup /\ job' = "STARTUP" /\ UNCHANGED sched
    \/ /\ ~startup /\ requested /\ requested' = FALSE /\ job' = "POLICY"
       /\ UNCHANGED <<startup, due>>
    \/ /\ ~startup /\ ~requested /\ now >= due /\ due' \in NextRuns /\ job' = "PERIODIC"
       /\ UNCHANGED <<startup, requested>>

\* poll: the startup scan, then a requested policy scan, then a periodic one;
\* the trigger is cleared, or advanced, before the job runs.
Polled ==
    \/ /\ startup /\ startup' = FALSE /\ job' = "STARTUP" /\ UNCHANGED <<requested, due>>
    \/ /\ ~startup /\ requested /\ requested' = FALSE /\ job' = "POLICY"
       /\ UNCHANGED <<startup, due>>
    \/ /\ ~startup /\ ~requested /\ now >= due /\ due' \in NextRuns /\ job' = "PERIODIC"
       /\ UNCHANGED <<startup, requested>>

Poll ==
    /\ stage = "poll"
    /\ IF Scheduling /\ (startup \/ requested \/ now >= due)
       THEN Polled /\ stage' = "scan"
       ELSE stage' = "rest" /\ UNCHANGED <<job, startup, requested, due>>
    /\ UNCHANGED <<cvars, pvars>>

\* execute returns and its evidence is uploaded, or raises; either way the
\* loop goes on.
Scan ==
    /\ stage = "scan"
    /\ stage' = "rest" /\ job' = None
    /\ UNCHANGED <<cvars, pvars, sched>>

\* The next iteration, a poll interval later.
Wake ==
    /\ stage = "rest"
    /\ now' = IF now < MaxTime THEN now + 1 ELSE now
    /\ stage' = "maintain"
    /\ UNCHANGED <<stored, generation, until, call, lost, broken, pvars, job, sched>>

\* SIGHUP requests a policy scan at any moment; without a scheduler it is lost.
SigHup ==
    /\ stage # "down" /\ Scheduling
    /\ requested' = TRUE
    /\ UNCHANGED <<cvars, pvars, stage, job, startup, due>>

\* The process ends; a supervisor starts it again.
Crash ==
    /\ stage # "down" /\ Forget(Service) /\ StopAgent
    /\ stage' = "down" /\ job' = None
    /\ startup' = FALSE /\ requested' = FALSE /\ due' = 0

Loop == Maintain \/ Rotating \/ Rotated \/ PolicyOffline \/ PolicyKept \/ PolicyInstalled
        \/ FetchJob \/ FetchNothing \/ Poll \/ Scan \/ Wake

\* The operator's command runs beside the loop.  What the loop does outside its
\* own rotation commutes with it, so its steps are taken here only then.
Command ==
    /\ stage \in {"maintain", "rotating", "down"}
    /\ \E p \in Rotators \ {Service} : Rotate(p) \/ (Forget(p) /\ call[p] # Idle)
    /\ UNCHANGED <<pvars, lvars>>

\* The cloud's assignment, the rows and the file are read at one point of an
\* iteration; they change between iterations.
Outside ==
    /\ stage \in {"rest", "down"}
    /\ \/ \E a \in Assignments : Publish(a)
       \/ \E i \in Ids : Corrupt(i)
       \/ \E f \in LocalFiles : EditFile(f)
    /\ UNCHANGED <<cvars, lvars>>

Environment == Command \/ Outside \/ SigHup \/ Crash

Next == Start \/ Loop \/ Environment

Spec == Init /\ [][Next]_vars

\* The loop keeps running; the operator's command comes to an end; a down agent
\* is started again.
FairSpec ==
    /\ Spec /\ WF_vars(Start) /\ WF_vars(Loop)
    /\ WF_vars(Command)

-----------------------------------------------------------------------------
\* A requested policy scan is taken up, or the agent goes down first, as long as
\* the scheduler is polled again and again: the startup and periodic triggers it
\* is polled for never starve the request (CooperativeScanScheduler.poll).  The
\* condition is what run_once leaves open: it polls only in an iteration in
\* which the cloud handed out no job.
RequestIsTakenUp ==
    []<>(stage = "poll") => (requested ~> (job = "POLICY" \/ stage = "down"))

\* The same without the condition: a local trigger cannot wait for ever behind
\* cloud operations (docs/workflow.md).  (Violated: a job at every iteration.)
LocalTriggerNotForever == requested ~> (job = "POLICY" \/ stage = "down")
=============================================================================

--------------------------- MODULE ReportPromise ---------------------------
(***************************************************************************)
(* What the cloud promises of the analysis of a scan, whatever the number  *)
(* of workers, their crashes, retries and races: each tool's task ends     *)
(* once, and one report is published, once, after both tools have ended    *)
(* and of what they ended with.  AnalysisTasks implements it.              *)
(***************************************************************************)
CONSTANTS
    Scans,
    Tools,
    Outcomes,       \* what a task may end with
    Open,           \* the task has not ended
    None,           \* no report yet
    Refused         \* the report that says the evidence could not be merged

VARIABLES
    outcome,        \* [Scans -> [Tools -> Outcomes \cup {Open}]]
    report          \* [Scans -> {None, Refused} \cup [Tools -> Outcomes]]

promiseVars == <<outcome, report>>

PromiseInit ==
    /\ outcome = [s \in Scans |-> [k \in Tools |-> Open]]
    /\ report = [s \in Scans |-> None]

End(s, k) ==
    /\ outcome[s][k] = Open
    /\ outcome'[s][k] \in Outcomes
    /\ outcome' = [outcome EXCEPT ![s][k] = outcome'[s][k]]
    /\ UNCHANGED report

Publish(s) ==
    /\ report[s] = None
    /\ \A k \in Tools : outcome[s][k] # Open
    /\ \E r \in {outcome[s], Refused} : report' = [report EXCEPT ![s] = r]
    /\ UNCHANGED outcome

PromiseNext == \E s \in Scans : Publish(s) \/ \E k \in Tools : End(s, k)

PromiseSpec == PromiseInit /\ [][PromiseNext]_promiseVars

=============================================================================

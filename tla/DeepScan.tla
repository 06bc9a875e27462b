------------------------------- MODULE DeepScan -------------------------------
(***************************************************************************)
(* From collected evidence to a verdict: the scans of a request run one      *)
(* after the other, each is analysed, and a deep request (one FULL scan of   *)
(* the endpoint, then one attack-surface scan for each authorized domain)    *)
(* ends with one report that declares how complete its evidence is.         *)
(*                                                                         *)
(* A scan of a deep request that raises leaves a terminal result, so that    *)
(* the report still shows it; any other scan that raises has none.          *)
(***************************************************************************)
EXTENDS Collection

CONSTANT Requests   \* requests: [deep : BOOLEAN, jobs : Seq(Jobs)]

ASSUME DeepScanAssumption ==
    \A r \in Requests :
        /\ r.deep \in BOOLEAN /\ r.jobs \in Seq(Jobs) /\ r.jobs # <<>>
        /\ ~r.deep => Len(r.jobs) = 1
        /\ r.deep => /\ r.jobs[1].type = "FULL"
                     /\ \A i \in 2..Len(r.jobs) : r.jobs[i].type = "ATTACK_SURFACE"

VARIABLES
    request,
    results,    \* results of the request's scans so far
    report      \* none, the deep report, or lost

vars == <<collectionVars, request, results, report>>

Known(states) == states \ {"SKIPPED"}

OverallStatus(states) ==
    CASE Known(states) = {} -> "FAILED"
      [] Known(states) = {"SUCCESS"} -> "SUCCESS"
      [] Known(states) # {"SUCCESS"} /\ Known(states) \cap Good # {} -> "PARTIAL"
      [] OTHER -> "FAILED"

StatesOf(tool, named) == {s[2] : s \in {n \in named : n[1] = tool}}
AllStates(named) == {s[2] : s \in named}

\* Mutant: a control that is not known is no drift.
MutDrift(seen) ==
    IF \E f \in Fields : seen[f] \notin {"unknown", Approved[f]} THEN "drifted"
    ELSE IF \A f \in Fields : seen[f] = "unknown" THEN "unknown" ELSE "conforms"

\* The verdict on the approved baseline (BaselineAnalyzer.analyze).
Drift(seen) ==
    IF \E f \in Fields : seen[f] \notin {"unknown", Approved[f]} THEN "drifted"
    ELSE IF \E f \in Fields : seen[f] = "unknown" THEN "unknown" ELSE "conforms"

\* Mutant: the verdict is given without an observed security section.
MutVerdict == IF settings.baseline THEN Drift(posture) ELSE "unknown"

\* Withdrawn when the baseline was not observed.
Verdict ==
    IF settings.baseline /\ "security" \in observed THEN Drift(posture) ELSE "unknown"

Result ==
    [type |-> job.type, ended |-> "analysed", linux |-> job.platform = "linux",
     status |-> OverallStatus(AllStates(statuses)),
     observed |-> observed, statuses |-> statuses,
     drift |-> Verdict,
     advisories |-> advisories, reported |-> reported,
     heard |-> heard, told |-> told, dropped |-> dropped]

\* What is known of the system is lost with the bundle.
Terminal(state) ==
    [type |-> job.type, ended |-> "terminal", linux |-> FALSE, status |-> "FAILED",
     observed |-> {}, statuses |-> {<<"deep-scan", state>>}, drift |-> "unknown",
     advisories |-> <<>>, reported |-> {}, heard |-> {}, told |-> {}, dropped |-> {}]

-----------------------------------------------------------------------------
(* The deep report                                                          *)

Evidence == UNION {results[i].statuses : i \in DOMAIN results}
AttackRequested == Len(request.jobs) > 1

RequiredSections ==
    {"browser_extensions", "hardware", "listening_ports", "network_interfaces", "os",
     "persistence", "processes", "security", "services", "software", "updates", "users",
     "vulnerabilities"}
    \cup (IF results[1].linux THEN {"compliance"} ELSE {})

ToolScheduled(tool) ==
    CASE tool = "openscap" -> results[1].linux
      [] tool = "osv-scanner" -> request.jobs[1].sources # {}
      [] tool = "amass" -> AttackRequested
      [] OTHER -> TRUE

ToolConfigured(tool) ==
    CASE tool = "native" -> TRUE
      [] tool = "osquery" -> settings.osquery
      [] tool = "openscap" -> settings.openscap
      [] tool = "osv-scanner" -> settings.osv
      [] tool = "depscan" -> settings.depscan
      [] tool = "amass" -> settings.discovery /\ settings.amass

Reduced(states) ==
    CASE Known(states) = {} -> "SKIPPED"
      [] Known(states) = {"SUCCESS"} -> "SUCCESS"
      [] Known(states) # {"SUCCESS"} /\ Known(states) \cap Good # {} -> "PARTIAL"
      [] Known(states) # {} /\ Known(states) \cap Good = {} ->
            CHOOSE s \in Known(states) : \/ s = "FAILED"
                                         \/ s = "TIMEOUT" /\ "FAILED" \notin states
                                         \/ states \cap {"FAILED", "TIMEOUT"} = {}

Readiness(tool) ==
    IF ~ToolScheduled(tool) THEN "SKIPPED"
    ELSE IF StatesOf(tool, Evidence) # {} THEN Reduced(StatesOf(tool, Evidence))
    ELSE IF ToolConfigured(tool) THEN "UNAVAILABLE" ELSE "SKIPPED"

\* Mutant: a skipped tool is no gap.
MutReadinessGaps ==
    {t \in Tools : ToolScheduled(t) /\ Readiness(t) \notin {"SUCCESS", "SKIPPED"}}

ReadinessGaps == {t \in Tools : ToolScheduled(t) /\ Readiness(t) # "SUCCESS"}

Degraded == AllStates(Evidence) \cap {"PARTIAL", "FAILED", "UNAVAILABLE", "TIMEOUT"}

Complete ==
    /\ RequiredSections \subseteq results[1].observed
    /\ \A i \in 2..Len(results) : "attack_surface" \in results[i].observed
    /\ Degraded = {} /\ ReadinessGaps = {}

CombinedStatus ==
    LET all == {results[i].status : i \in DOMAIN results}
    IN  CASE results[1].status = "FAILED" -> "FAILED"
          [] all = {"SUCCESS"} -> "SUCCESS"
          [] OTHER -> "PARTIAL"

NoReport == [state |-> "none", complete |-> FALSE, status |-> "none"]

-----------------------------------------------------------------------------
Init ==
    /\ settings \in Settings /\ request \in Requests
    /\ job = Head(request.jobs) /\ stage = FirstStage(job)
    /\ EmptyBundle /\ results = <<>> /\ report = NoReport

CollectStep == Collect /\ UNCHANGED <<request, results, report>>

\* Mutant: a result is recorded and its scan goes on.
MutAnalyze ==
    /\ stage = "collected" /\ results' = Append(results, Result)
    /\ UNCHANGED <<settings, job, stage, bundle, request, report>>

\* The analysis has an operation budget and the deadline of the scan.
Analyze ==
    /\ stage = "collected"
    /\ stage' = "ended" /\ results' = Append(results, Result) /\ ResetBundle
    /\ UNCHANGED <<settings, job, request, report>>

AnalysisRaises ==
    /\ stage = "collected" /\ stage' = "raised" /\ ResetBundle
    /\ UNCHANGED <<settings, job, request, results, report>>

RecordTerminal ==
    /\ stage = "raised" /\ request.deep
    /\ \E state \in {"TIMEOUT", "FAILED"} : results' = Append(results, Terminal(state))
    /\ stage' = "ended"
    /\ UNCHANGED <<settings, job, bundle, request, report>>

NextScan ==
    /\ stage = "ended" /\ Len(results) < Len(request.jobs)
    /\ job' = request.jobs[Len(results) + 1] /\ stage' = FirstStage(job')
    /\ UNCHANGED <<settings, bundle, request, results, report>>

Reporting ==
    /\ stage = "ended" /\ request.deep
    /\ Len(results) = Len(request.jobs) /\ report = NoReport

BuildReport ==
    /\ Reporting
    /\ report' = [state |-> "written", complete |-> Complete,
                  status |-> IF CombinedStatus = "SUCCESS" /\ ~Complete THEN "PARTIAL"
                             ELSE CombinedStatus]
    /\ UNCHANGED <<collectionVars, request, results>>

\* The report's own validation (a scan ended too long after the deadline) or
\* the writing of the file fails.
ReportLost ==
    /\ Reporting
    /\ report' = [NoReport EXCEPT !.state = "lost"]
    /\ UNCHANGED <<collectionVars, request, results>>

Next ==
    \/ CollectStep \/ Analyze \/ AnalysisRaises \/ RecordTerminal \/ NextScan
    \/ BuildReport \/ ReportLost

Spec == Init /\ [][Next]_vars

-----------------------------------------------------------------------------
(* Properties                                                               *)

\* The state is well-formed throughout the scans of a request.
TypeOK ==
    /\ settings \in Settings /\ request \in Requests /\ job \in Jobs
    /\ stage \in Stages \cup Ends \cup {"ended"}
    /\ observed \subseteq Sections /\ incomplete \subseteq Sections
    /\ statuses \subseteq Tools \X CollectorStates
    /\ posture \in Postures
    /\ heard \subseteq Contributions /\ told \subseteq Fields \X {"on", "off"}
    /\ dropped \subseteq Sections
    /\ Len(results) <= Len(request.jobs)
    /\ report.state \in {"none", "written", "lost"}

\* The sources that share a section with others and that no other may make up
\* for.  A native inventory check that failed may be made up for by osquery, and
\* osquery by native data; OpenSCAP and Amass have their sections to themselves.
Binding == {"posture", "patches", "persistence", "osv-scanner", "depscan"}

\* Some source answered the section with these states only, and so did every
\* binding source that was asked.
Answered(h, section, accepted) ==
    /\ \E c \in h : c.section = section /\ c.states \subseteq accepted
    /\ \A c \in h : c.section = section /\ c.source \in Binding => c.states \subseteq accepted

\* The pipeline takes a partial report of a vulnerability scanner for an answer.
Accepted(section) == IF section = "vulnerabilities" THEN Good ELSE {"SUCCESS"}

\* A section that a result declares authoritative, and that may therefore
\* replace the last-known one, was answered by some source, and by every binding
\* source that was asked: none failed, timed out, was missing or, but for the
\* vulnerability scanners, was partial (_native_section_contributors, the final
\* difference_update of _endpoint).  PartialNotAuthoritative is about the partial
\* vulnerability reports, DroppedRowsNotAuthoritative about discarded rows.
AuthoritativeIsAnswered ==
    \A i \in DOMAIN results :
        \A s \in results[i].observed : Answered(results[i].heard, s, Accepted(s))

\* No section is authoritative when a source that shares it with others was
\* partial (the comment before the final difference_update of _endpoint).
\* (Violated: the vulnerabilities of a dep-scan run whose reports were refused.)
PartialNotAuthoritative ==
    \A i \in DOMAIN results :
        \A c \in results[i].heard :
            c.source \in Binding /\ c.section \in results[i].observed =>
                "PARTIAL" \notin c.states

NativeSections(j) ==
    {s \in UNION {Fills(c) : c \in NativeChecks(j.platform, NativeCategories(j))} :
        s # "users" \/ "inventory" \in NativeCategories(j) \/ j.platform = "windows"}

\* A scan whose overall status is SUCCESS leaves no section of the native
\* categories it scheduled unobserved: no gap hides behind optional or skipped
\* checks (overall_status over the states that _collect_native converts).
SuccessCoversNative ==
    \A i \in DOMAIN results :
        results[i].status = "SUCCESS" => NativeSections(request.jobs[i]) \subseteq results[i].observed

\* The verdict on the approved baseline is given only from a security section
\* that was answered in full.  Conformity is declared only if every control of
\* the baseline was delivered with its approved value by some source of this very
\* scan, drift only if one was delivered with another: an unknown control is
\* never taken for either (configuration_drift, configuration_baseline_observed).
DriftNeedsEvidence ==
    \A i \in DOMAIN results :
        LET r == results[i] IN
        /\ r.drift # "unknown" =>
               settings.baseline /\ Answered(r.heard, "security", {"SUCCESS"})
        /\ r.drift = "conforms" => \A f \in Fields : <<f, Approved[f]>> \in r.told
        /\ r.drift = "drifted" =>
               \E f \in Fields, v \in {"on", "off"} : v # Approved[f] /\ <<f, v>> \in r.told

\* A report that declares its evidence complete, or itself a success, hides
\* nothing: no scan was cut off, every scheduled tool ran and succeeded, and
\* every section a full assessment needs was answered with success by some source
\* and by every binding one, none of them partial.
CompleteHidesNothing ==
    report.complete \/ report.status = "SUCCESS" =>
        /\ report.complete
        /\ \A i \in DOMAIN results :
             results[i].ended = "analysed" /\ results[i].status = "SUCCESS"
        /\ \A s \in RequiredSections : Answered(results[1].heard, s, {"SUCCESS"})
        /\ request.jobs[1].platform = "linux" => "compliance" \in results[1].observed
        /\ \A t \in Tools : ToolScheduled(t) => "SUCCESS" \in StatesOf(t, Evidence)

\* In a result that is authoritative for vulnerabilities, each one that a report
\* held is in a record with all its identifiers, no weaker and no less
\* exploited; records of one package share no identifier, and none has one that
\* was not reported for it (merge_vulnerabilities, over the runs of both scanners).
AdvisoriesMerged ==
    \A i \in DOMAIN results :
        LET merged == results[i].advisories
            reports == results[i].reported
        IN  "vulnerabilities" \in results[i].observed =>
            /\ \A r \in reports :
                 \E k \in DOMAIN merged :
                     /\ merged[k].package = r.package /\ r.ids \subseteq merged[k].ids
                     /\ merged[k].severity >= r.severity
                     /\ (r.exploited => merged[k].exploited) /\ r.sources \subseteq merged[k].sources
            /\ \A k, l \in DOMAIN merged :
                 k # l /\ merged[k].package = merged[l].package =>
                     merged[k].ids \cap merged[l].ids = {}
            /\ \A k \in DOMAIN merged :
                 merged[k].ids \subseteq
                     UNION {r.ids : r \in {q \in reports : q.package = merged[k].package}}

\* A section whose rows had to be discarded is not authoritative, unless a later
\* source delivered it in full.  (Violated: the Windows accounts.)
DroppedRowsNotAuthoritative ==
    \A i \in DOMAIN results : results[i].observed \cap results[i].dropped = {}
=============================================================================

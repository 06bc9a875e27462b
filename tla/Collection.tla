----------------------------- MODULE Collection -----------------------------
(***************************************************************************)
(* One scan's collection: the collector pipeline asks the native checks,     *)
(* osquery, OpenSCAP, OSV-Scanner and dep-scan in turn (or Amass, for an      *)
(* attack-surface scan) and merges what they deliver into one bundle.        *)
(*                                                                         *)
(* The bundle says which sections were observed; an observed section         *)
(* replaces the last-known one of the endpoint, so it must not miss anything.*)
(* Every stage is followed by a look at the deadline, which raises when it   *)
(* has passed: whatever a late stage did is lost with the bundle.           *)
(*                                                                         *)
(* settings: [osquery, openscap, depscan, amass, osv, discovery, offload,    *)
(* baseline : BOOLEAN, enabled : SUBSET Registry]; job: [type, platform,     *)
(* approved, sources, allowed], where sources are the kinds of the approved  *)
(* dependency sources and allowed says that the target is within the local   *)
(* discovery roots.                                                         *)
(***************************************************************************)
EXTENDS EvidenceSections, VulnerabilityMerge

CONSTANTS
    Settings,   \* protected local settings, as records
    Jobs,       \* scan jobs, as records
    Fields,     \* controls of the security posture
    Approved,   \* their values in the approved baseline
    Found(_),   \* by job: the lists of vulnerabilities one report may hold
    Varied      \* the checks and queries whose answers vary

ScanTypes == {"QUICK", "FULL", "COMPLIANCE", "VULNERABILITY", "ON_DEMAND", "ATTACK_SURFACE"}
SourceKinds == {"directory", "sbom", "other"}

IsJob(j) ==
    /\ j.type \in ScanTypes /\ j.platform \in Platforms
    /\ j.approved \subseteq Adapters \cup Registry
    /\ j.sources \subseteq SourceKinds /\ j.allowed \in BOOLEAN

IsSettings(s) ==
    /\ {s.osquery, s.openscap, s.depscan, s.amass, s.osv, s.discovery, s.offload,
        s.baseline} \subseteq BOOLEAN
    /\ s.enabled \subseteq Registry

ASSUME CollectionAssumption ==
    /\ \A j \in Jobs : IsJob(j)
    /\ \A s \in Settings : IsSettings(s)
    /\ Approved \in [Fields -> {"on", "off"}]
    /\ \A j \in Jobs : <<>> \in Found(j)

VARIABLES
    settings,
    job,
    stage,          \* the stage the pipeline is at
    observed,       \* observed_inventory_sections
    incomplete,     \* incomplete_inventory_sections
    statuses,       \* the collectors' states, by tool
    advisories,     \* the merged vulnerabilities
    posture,        \* the security section's controls
    heard,          \* history: what each source that was asked answered for a
                    \* section, however the pipeline judged it
    told,           \* history: the controls' values that some source delivered
    dropped,        \* history: sections whose native rows were dropped, until
                    \* osquery delivers them in full
    reported        \* history: every vulnerability a report held

bundle == <<observed, incomplete, statuses, advisories, posture, heard, told, dropped,
            reported>>
findingVars == <<advisories, reported>>
postureVars == <<posture, told>>
sectionVars == <<postureVars, heard, dropped, findingVars>>
collectionVars == <<settings, job, stage, bundle>>

Stages == {"native", "osquery", "openscap", "osv", "depscan", "merge", "attack"}
Ends == {"collected", "raised"}

NoPosture == [f \in Fields |-> "unknown"]
Postures == [Fields -> {"unknown", "on", "off"}]

\* A concrete value is never replaced by an unknown one (merge_inventory).
Merged(current, incoming) ==
    [f \in Fields |-> IF incoming[f] = "unknown" THEN current[f] ELSE incoming[f]]

\* What a source may report that can make these controls known.
Seen(controls) == {p \in Postures : \A f \in Fields \ controls : p[f] = "unknown"}

Values(p) == {<<f, p[f]>> : f \in {g \in Fields : p[g] # "unknown"}}

\* A source's controls are merged into the posture.
Told(controls) ==
    \E seen \in Seen(controls) :
        posture' = Merged(posture, seen) /\ told' = told \cup Values(seen)

\* The sources of a section: each inventory check, the other native categories,
\* osquery and the tools.  Those of a category or a tool count as one.
Sources == Categories \cup Tools

\* History: the states that a source's answers for a section had, where FAILED
\* stands for every one that delivers nothing.
Contribution(section, source, states) ==
    [section |-> section, source |-> source,
     states |-> {IF s \in Good THEN s ELSE "FAILED" : s \in states}]
Contributions ==
    [section : Sections, source : Sources, states : (SUBSET (Good \cup {"FAILED"})) \ {{}}]

FirstStage(j) == IF j.type = "ATTACK_SURFACE" THEN "attack" ELSE "native"

EmptyBundle ==
    /\ observed = {} /\ incomplete = {} /\ statuses = {} /\ posture = NoPosture
    /\ heard = {} /\ told = {} /\ dropped = {} /\ advisories = <<>> /\ reported = {}

ResetBundle ==
    /\ observed' = {} /\ incomplete' = {} /\ statuses' = {} /\ posture' = NoPosture
    /\ heard' = {} /\ told' = {} /\ dropped' = {} /\ advisories' = <<>> /\ reported' = {}

Report(tool, states) == statuses \cup ({tool} \X states)

\* Answers of a set of checks or queries: only those in Varied vary.
Varying(possible) ==
    LET varying == {c \in DOMAIN possible : c.name \in Varied}
        all == UNION {possible[c] : c \in varying}
    IN  {[c \in DOMAIN possible |-> IF c \in varying THEN v[c] ELSE Answer("SUCCESS", FALSE)] :
            v \in {w \in [varying -> all] : \A c \in varying : w[c] \in possible[c]}}

-----------------------------------------------------------------------------
(* Native collection                                                        *)

\* Mutant: dropped rows leave the state of their check alone.
MutConverted(platform, check, answer, rejected) ==
    IF platform = "linux" /\ answer.state = "UNAVAILABLE" /\ check.name \in OptionalChecks
    THEN "SKIPPED" ELSE answer.state

\* The state a native check is recorded with.
Converted(platform, check, answer, rejected) ==
    IF answer.state = "SUCCESS" /\ check.name \in {c.name : c \in InventoryChecks}
       /\ InventorySection(check.name) \in rejected
    THEN "PARTIAL"
    ELSE IF platform = "linux" /\ answer.state = "UNAVAILABLE" /\ check.name \in OptionalChecks
    THEN "SKIPPED" ELSE answer.state

\* The categories that have to be complete for a composite section.
Contributors(platform, categories) ==
    LET feeds == [security |-> {"posture"} \cup
                               (IF "posture" \in categories THEN {"patches"} ELSE {}),
                  updates |-> {"patches"}, persistence |-> {"persistence"},
                  users |-> IF platform = "windows" THEN {"posture"} ELSE {}]
        fed == {s \in DOMAIN feeds : feeds[s] \cap categories # {}}
    IN  [s \in fed |-> feeds[s] \cap categories]

Completed(categories, state) ==
    {k \in categories :
        LET own == {state[c] : c \in {d \in DOMAIN state : d.category = k}}
        IN  own \subseteq {"SUCCESS", "SKIPPED"} /\ "SUCCESS" \in own}

\* History: what a check that was asked tells of its sections: a facility that
\* is lawfully absent tells nothing, an inventory check whose rows were dropped
\* is partial.  Rows dropped from the other categories are in dropped.
Heard(platform, check, answer) ==
    IF platform = "linux" /\ check.name \in OptionalChecks /\ answer.state = "UNAVAILABLE"
    THEN {}
    ELSE IF check.category = "inventory" /\ answer.lossy THEN {"PARTIAL"} ELSE {answer.state}

\* History: the sections a check's answer matters for; some patch checks tell
\* controls of the posture, if there is one.
Feeds(platform, categories, check) ==
    Fills(check) \cup
    {s \in {"security"} :
        /\ check.category = "patches" /\ "posture" \in categories
        /\ \E f \in DOMAIN Controls(platform) : \E checks \in Controls(platform)[f] :
              check.name \in checks}

NativeHeard(platform, categories, answers) ==
    LET states(s, k) == UNION {Heard(platform, c, answers[c]) : c \in {d \in DOMAIN answers :
                                  d.category = k /\ s \in Feeds(platform, categories, d)}}
        inventory == {c \in DOMAIN answers : c.category = "inventory"}
    IN  {c \in {Contribution(InventorySection(d.name), "inventory",
                             Heard(platform, d, answers[d])) : d \in inventory}
               \cup {Contribution(s, k, states(s, k)) :
                        s \in Sections, k \in categories \ {"inventory"}} : c.states # {}}

\* Sections whose native rows were dropped, whatever the category.
NativeDropped(answers) ==
    UNION {Fills(c) : c \in {d \in DOMAIN answers : answers[d].state \in Good /\ answers[d].lossy}}

\* The inventory sections and the composite ones that native collection proves.
NativeObserved(platform, categories, answers, state) ==
    {s \in NativePresent(answers) \ NativeRejected(answers) :
        \E c \in DOMAIN answers : /\ c.category = "inventory" /\ s = InventorySection(c.name)
                                  /\ state[c] = "SUCCESS"}
    \cup {s \in NativePresent(answers) \cap DOMAIN Contributors(platform, categories) :
            Contributors(platform, categories)[s] \subseteq Completed(categories, state)}

NativeIncomplete(platform, categories, state) ==
    LET c == Contributors(platform, categories)
    IN  {s \in DOMAIN c : ~ c[s] \subseteq Completed(categories, state)}

NativeStage ==
    LET categories == NativeCategories(job)
        checks == NativeChecks(job.platform, categories)
    IN  /\ stage = "native" /\ stage' = "osquery"
        /\ IF categories = {} THEN UNCHANGED bundle
           ELSE \E answers \in Varying([c \in checks |-> Answers(c.kind)]) :
                LET rejected == NativeRejected(answers)
                    state == [c \in checks |-> Converted(job.platform, c, answers[c], rejected)]
                IN  /\ Told(NativeControls(job.platform, answers))
                    /\ observed' = observed
                           \cup NativeObserved(job.platform, categories, answers, state)
                    /\ incomplete' = incomplete
                           \cup NativeIncomplete(job.platform, categories, state)
                    /\ statuses' = Report("native", {state[c] : c \in checks})
                    /\ heard' = heard \cup NativeHeard(job.platform, categories, answers)
                    /\ dropped' = dropped \cup NativeDropped(answers)
        /\ UNCHANGED <<settings, job, findingVars>>

\* The platform adapter raises; it is not known which sections it would fill.
NativeRaises ==
    LET categories == NativeCategories(job)
        checks == NativeChecks(job.platform, categories)
        lost == (IF categories \cap {"posture", "patches"} # {} THEN {"security"} ELSE {})
                \cup (IF "posture" \in categories THEN {"users"} ELSE {})
                \cup (IF "patches" \in categories THEN {"updates"} ELSE {})
                \cup (IF "persistence" \in categories THEN {"persistence"} ELSE {})
    IN  /\ stage = "native" /\ categories # {} /\ stage' = "osquery"
        /\ incomplete' = incomplete \cup lost
        /\ statuses' = Report("native", {"FAILED"})
        /\ heard' = heard \cup NativeHeard(job.platform, categories,
                                          [c \in checks |-> Answer("FAILED", FALSE)])
        /\ UNCHANGED <<settings, job, observed, postureVars, dropped, findingVars>>

-----------------------------------------------------------------------------
(* osquery                                                                  *)

Enabled(selected) == IF settings.enabled = {} THEN selected ELSE selected \cap settings.enabled

\* What an ON_DEMAND job asks for beyond the native categories and the tools.
Requested == job.approved \ Adapters

SelectedQueries ==
    IF job.type = "ON_DEMAND" THEN Requested
    ELSE Enabled(QueriesByScan(job.type)) \ Incompatible(job.platform)

\* Queries the job may not ask for: the platform or the local policy forbids them.
Forbidden ==
    job.type = "ON_DEMAND"
    /\ ~ Requested \subseteq Enabled(Registry) \ Incompatible(job.platform)

InTime(reports) == {r \in reports : ~r.late}

\* A query answers all or nothing; its rows may be dropped when normalized.
QueryAnswers ==
    {Answer(r.state, FALSE) : r \in InTime(OsqueryReports)}
    \cup {Answer("SUCCESS", TRUE)}

\* The state of the tool as a whole, beside those of its queries.
Aggregate(states, rejected) ==
    CASE states = {"SUCCESS"} -> IF rejected = {} THEN "SUCCESS" ELSE "PARTIAL"
      [] states # {"SUCCESS"} /\ states \cap Good # {} -> "PARTIAL"
      [] states = {"UNAVAILABLE"} -> "UNAVAILABLE"
      [] states \subseteq {"TIMEOUT", "UNAVAILABLE"} /\ "TIMEOUT" \in states -> "TIMEOUT"
      [] OTHER -> "FAILED"

\* History: what the queries of a section answered.
OsqueryHeard(answers) ==
    {Contribution(s, "osquery", {IF answers[q].lossy THEN "PARTIAL" ELSE answers[q].state :
                                    q \in QueriesOf(s) \cap DOMAIN answers}) :
        s \in {t \in Sections : QueriesOf(t) \cap DOMAIN answers # {}}}

OsquerySkipped ==
    /\ stage = "osquery" /\ stage' = "openscap"
    /\ ~settings.osquery \/ (~Forbidden /\ SelectedQueries = {})
    /\ statuses' = Report("osquery", {"SKIPPED"})
    /\ UNCHANGED <<settings, job, observed, incomplete, sectionVars>>

OsqueryStage ==
    /\ stage = "osquery" /\ stage' = "openscap"
    /\ settings.osquery /\ ~Forbidden /\ SelectedQueries # {}
    /\ \E named \in Varying([q \in {[name |-> n] : n \in SelectedQueries} |-> QueryAnswers]) :
        LET answers == [n \in SelectedQueries |-> named[[name |-> n]]]
            states == {answers[n].state : n \in SelectedQueries}
            present == OsqueryPresent(answers)
            rejected == OsqueryRejected(answers)
        IN  /\ Told({f \in {"secure_boot_enabled"} : "security" \in present})
            /\ observed' = observed \cup (present \ rejected)
            /\ statuses' = Report("osquery", states \cup {Aggregate(states, rejected)})
            /\ heard' = heard \cup OsqueryHeard(answers)
            /\ dropped' = dropped \ (present \ rejected)
    /\ UNCHANGED <<settings, job, incomplete, findingVars>>

OsqueryRaises ==
    /\ stage = "osquery" /\ stage' = "openscap"
    /\ settings.osquery /\ (Forbidden \/ SelectedQueries # {})
    /\ statuses' = Report("osquery", {"FAILED"})
    /\ UNCHANGED <<settings, job, observed, incomplete, sectionVars>>

-----------------------------------------------------------------------------
(* Compliance and vulnerabilities                                           *)

\* A tool that cannot be asked for its version is recorded as failed, and run.
Versions == {{}, {"FAILED"}}

\* A tool the settings leave out is skipped in a FULL scan, missed in another.
Missed == IF job.type = "FULL" THEN "SKIPPED" ELSE "UNAVAILABLE"

Scheduled(types, name) == job.type \in types \/ (job.type = "ON_DEMAND" /\ name \in job.approved)

OpenScapSkipped ==
    /\ stage = "openscap" /\ stage' = "osv"
    /\ ~ (Scheduled({"FULL", "COMPLIANCE"}, "openscap") /\ job.platform = "linux"
          /\ settings.openscap)
    /\ statuses' = IF ~Scheduled({"FULL", "COMPLIANCE"}, "openscap") THEN statuses
                   ELSE Report("openscap", {IF job.platform # "linux" THEN "SKIPPED" ELSE Missed})
    /\ UNCHANGED <<settings, job, observed, incomplete, sectionVars>>

OpenScapStage ==
    /\ stage = "openscap" /\ stage' = "osv"
    /\ Scheduled({"FULL", "COMPLIANCE"}, "openscap") /\ job.platform = "linux"
    /\ settings.openscap
    /\ \/ \E r \in InTime(OpenScapReports), version \in Versions :
            /\ statuses' = Report("openscap", {r.state} \cup version)
            /\ observed' = observed \cup (IF r.state \in Good THEN {"compliance"} ELSE {})
            /\ heard' = heard \cup {Contribution("compliance", "openscap", {r.state})}
            /\ UNCHANGED incomplete
       \/ /\ statuses' = Report("openscap", {"FAILED"})        \* an exception
          /\ incomplete' = incomplete \cup {"compliance"}
          /\ heard' = heard \cup {Contribution("compliance", "openscap", {"FAILED"})}
          /\ UNCHANGED observed
    /\ UNCHANGED <<settings, job, postureVars, dropped, findingVars>>

\* Each request has its own report; an exception counts as FAILED.  What the
\* good ones found is merged with what is known; merged tells whether the
\* records of all of them could be, version what asking the tool's version adds.
Vulnerabilities(tool, requests, possible, skipped) ==
    \E reports \in [requests -> InTime(possible)], merged \in BOOLEAN, version \in Versions :
    \E found \in [requests -> Found(job)] :
        LET states == {reports[q].state : q \in requests}
            good == merged /\ states \subseteq Good
            records == FoldSet(LAMBDA q, list : list \o found[q], <<>>, requests)
        IN  /\ \A q \in requests : reports[q].state \notin Good => found[q] = <<>>
            /\ statuses' = Report(tool, states \cup skipped \cup version
                                        \cup (IF merged THEN {} ELSE {"FAILED"}))
            /\ observed' = observed \cup (IF good THEN {"vulnerabilities"} ELSE {})
            /\ incomplete' = incomplete \cup (IF good THEN {} ELSE {"vulnerabilities"})
            /\ heard' = heard \cup {Contribution("vulnerabilities", tool,
                                                states \cup (IF merged THEN {} ELSE {"FAILED"}))}
            /\ advisories' = IF merged THEN MergeVulnerabilities(advisories \o records)
                             ELSE advisories
            /\ reported' = reported \cup Range(records)

OsvScheduled == Scheduled({"FULL", "VULNERABILITY"}, "osv_scanner")

OsvSkipped ==
    /\ stage = "osv" /\ stage' = "depscan"
    /\ ~OsvScheduled \/ settings.offload \/ job.sources = {}
    /\ statuses' = IF ~OsvScheduled THEN statuses
                   ELSE Report("osv-scanner", {IF settings.offload THEN "SKIPPED" ELSE Missed})
    /\ UNCHANGED <<settings, job, observed, incomplete, sectionVars>>

OsvStage ==
    /\ stage = "osv" /\ stage' = "depscan"
    /\ OsvScheduled /\ ~settings.offload /\ job.sources # {}
    /\ Vulnerabilities("osv-scanner", job.sources, OsvReports, {})
    /\ UNCHANGED <<settings, job, postureVars, dropped>>

DepScanScheduled == Scheduled({"FULL", "VULNERABILITY"}, "depscan")

DepScanSkipped ==
    /\ stage = "depscan" /\ stage' = "merge"
    /\ ~DepScanScheduled \/ settings.offload \/ ~settings.depscan
    /\ statuses' = IF ~DepScanScheduled THEN statuses
                   ELSE Report("depscan", {IF settings.offload THEN "SKIPPED" ELSE Missed})
    /\ UNCHANGED <<settings, job, observed, incomplete, sectionVars>>

\* The live system and every source that is a directory or an SBOM.
DepScanStage ==
    /\ stage = "depscan" /\ stage' = "merge"
    /\ DepScanScheduled /\ ~settings.offload /\ settings.depscan
    /\ Vulnerabilities("depscan", {"live-os"} \cup (job.sources \ {"other"}), DepScanReports,
                       IF "other" \in job.sources THEN {"SKIPPED"} ELSE {})
    /\ UNCHANGED <<settings, job, postureVars, dropped>>

-----------------------------------------------------------------------------
(* The end of the collection                                                *)

\* Mutant: the final difference_update is left out.
MutMerge ==
    /\ stage = "merge" /\ stage' = "collected" /\ UNCHANGED <<settings, job, bundle>>

\* A source that succeeded does not speak for one that did not.
Merge ==
    /\ stage = "merge" /\ stage' = "collected"
    /\ observed' = observed \ incomplete
    /\ UNCHANGED <<settings, job, incomplete, statuses, sectionVars>>

\* The inventory has more records than allowed.
TooManyRecords ==
    /\ stage \in {"merge", "attack"} /\ stage' = "raised"
    /\ stage = "attack" => settings.discovery /\ job.allowed
    /\ ResetBundle /\ UNCHANGED <<settings, job>>

\* Stages that begin or end with a look at the deadline.
Watched ==
    \/ stage \in {"native", "osquery", "attack"}
    \/ stage = "openscap" /\ Scheduled({"FULL", "COMPLIANCE"}, "openscap")
    \/ stage = "osv" /\ OsvScheduled
    \/ stage = "depscan" /\ DepScanScheduled

\* The deadline passes in a stage, whatever the stage makes of it.
DeadlinePasses ==
    /\ Watched /\ stage' = "raised"
    /\ ResetBundle /\ UNCHANGED <<settings, job>>

\* Amass may run for less time than the scan has, so that it can time out alone.
AttackSurface ==
    /\ stage = "attack"
    /\ IF settings.discovery /\ ~job.allowed
       THEN stage' = "raised" /\ ResetBundle
       ELSE /\ stage' = "collected"
            /\ IF settings.discovery /\ settings.amass
               THEN \E r \in InTime(AmassReports), version \in Versions :
                    /\ statuses' = Report("amass", {r.state} \cup version)
                    /\ observed' = observed \cup
                                   (IF r.state \in Good THEN {"attack_surface"} ELSE {})
                    /\ heard' = heard \cup
                                {Contribution("attack_surface", "amass", {r.state})}
               ELSE /\ statuses' = Report("amass",
                                      {IF settings.discovery THEN "SKIPPED" ELSE "FAILED"})
                    /\ UNCHANGED <<observed, heard>>
            /\ UNCHANGED <<incomplete, postureVars, dropped, findingVars>>
    /\ UNCHANGED <<settings, job>>

Collect ==
    \/ NativeStage \/ NativeRaises
    \/ OsquerySkipped \/ OsqueryStage \/ OsqueryRaises
    \/ OpenScapSkipped \/ OpenScapStage
    \/ OsvSkipped \/ OsvStage \/ DepScanSkipped \/ DepScanStage
    \/ Merge \/ TooManyRecords \/ DeadlinePasses \/ AttackSurface
=============================================================================

--------------------------- MODULE DeepReportProofs ---------------------------
(***************************************************************************)
(* Proofs about what DeepScan concludes: a scan that calls itself a success   *)
(* observed everything it scheduled natively, and a deep report that calls    *)
(* its evidence complete hides nothing, for every set of jobs and settings   *)
(* and for every outcome of every tool.                                     *)
(***************************************************************************)
EXTENDS DeepScanProofs

-----------------------------------------------------------------------------
(* No state but success, and what was lawfully skipped                      *)

Clean(named) == AllStates(named) \subseteq {"SUCCESS", "SKIPPED"}

LEMMA CleanReport ==
    ASSUME NEW tool, NEW states
    PROVE  Clean(Report(tool, states)) <=>
               Clean(statuses) /\ states \subseteq {"SUCCESS", "SKIPPED"}
<1>1. AllStates(Report(tool, states)) = AllStates(statuses) \cup states
  <2>1. \A s : s \in AllStates(statuses) <=> \E n \in statuses : s = n[2]
    BY DEF AllStates
  <2>2. \A s : s \in AllStates(Report(tool, states)) <=>
                  \E n \in statuses \cup ({tool} \X states) : s = n[2]
    BY DEF AllStates, Report
  <2>3. \A s : s \in states <=> \E n \in {tool} \X states : s = n[2]
    <3>1. \A s \in states : <<tool, s>> \in {tool} \X states /\ <<tool, s>>[2] = s
      OBVIOUS
    <3> QED
      BY <3>1
  <2> QED
    BY <2>1, <2>2, <2>3
<1> QED
  BY <1>1 DEF Clean

LEMMA SuccessIsClean ==
    ASSUME NEW named, OverallStatus(AllStates(named)) = "SUCCESS"
    PROVE  Clean(named) /\ "SUCCESS" \in AllStates(named)
<1>1. Known(AllStates(named)) = {"SUCCESS"}
  BY DEF OverallStatus
<1> QED
  BY <1>1 DEF Known, Clean

LEMMA CleanIsSuccess ==
    ASSUME NEW named, Clean(named), \E n \in named : n[2] \in Good
    PROVE  OverallStatus(AllStates(named)) = "SUCCESS"
<1>1. "SUCCESS" \in AllStates(named)
  <2>1. PICK n \in named : n[2] \in Good
    OBVIOUS
  <2>2. n[2] \in AllStates(named)
    BY DEF AllStates
  <2> QED
    BY <2>1, <2>2 DEF Clean, Good
<1>2. Known(AllStates(named)) = {"SUCCESS"}
  BY <1>1 DEF Known, Clean
<1> QED
  BY <1>2 DEF OverallStatus

-----------------------------------------------------------------------------
(* Native collection                                                        *)

(* Every category of checks holds one that an endpoint may not lack, and so   *)
(* are the inventory checks.                                                *)
LEMMA FirmChecks ==
    ASSUME NEW p \in Platforms
    PROVE  /\ \A c \in AdapterChecks(p) : c.category = "inventory" => c.name \notin OptionalChecks
           /\ \A k \in {"posture", "patches", "persistence"} :
                 \E c \in AdapterChecks(p) : c.category = k /\ c.name \notin OptionalChecks
<1>1. ASSUME NEW c \in InventoryChecks PROVE c.name \notin OptionalChecks
  <2>1. CASE c \in LinuxInventory
    BY <2>1, ChecksFields DEF LinuxInventory, OptionalChecks
  <2>2. CASE c \in WindowsInventory
    BY <2>2, ChecksFields DEF WindowsInventory, OptionalChecks
  <2>3. CASE c \in MacInventory
    BY <2>3, ChecksFields DEF MacInventory, OptionalChecks
  <2> QED
    BY <2>1, <2>2, <2>3 DEF InventoryChecks
<1>2. \A c \in AdapterChecks(p) : c.category = "inventory" => c \in InventoryChecks
  BY ChecksKnown
<1> DEFINE check(n, k, kind) == [name |-> n, category |-> k, kind |-> kind]
           Firm(S, k) == \E c \in S : c.category = k /\ c.name \notin OptionalChecks
<1>3. ASSUME NEW n, NEW k, NEW kind, NEW S, check(n, k, kind) \in S, n \notin OptionalChecks
      PROVE  Firm(S, k)
  <2>1. check(n, k, kind).category = k /\ check(n, k, kind).name = n
    OBVIOUS
  <2> QED
    BY <1>3, <2>1
<1>4. CASE p = "linux"
  <2>1. check("disk_encryption", "posture", "command") \in LinuxPosture
    BY DEF LinuxPosture, Checks
  <2>2. check("running_kernel", "patches", "command") \in LinuxPatches
    BY DEF LinuxPatches, Checks
  <2>3. check("cron_entries", "persistence", "directory") \in LinuxPersistence
    BY DEF LinuxPersistence, Checks
  <2>4. LinuxPosture \cup LinuxPatches \cup LinuxPersistence \subseteq AdapterChecks(p)
    BY <1>4 DEF AdapterChecks
  <2>5. {"disk_encryption", "running_kernel", "cron_entries"} \cap OptionalChecks = {}
    BY DEF OptionalChecks
  <2> HIDE DEF check, Firm
  <2>6. Firm(AdapterChecks(p), "posture")
    BY <1>3, <2>1, <2>4, <2>5
  <2>7. Firm(AdapterChecks(p), "patches")
    BY <1>3, <2>2, <2>4, <2>5
  <2>8. Firm(AdapterChecks(p), "persistence")
    BY <1>3, <2>3, <2>4, <2>5
  <2> QED
    BY <1>1, <1>2, <2>6, <2>7, <2>8 DEF Firm
<1>5. CASE p = "windows"
  <2>1. check("antivirus", "posture", "command") \in WindowsPosture
    BY DEF WindowsPosture, Checks
  <2>2. check("pending_updates", "patches", "command") \in WindowsPatches
    BY DEF WindowsPatches, Checks
  <2>3. check("startup_folders", "persistence", "directory") \in WindowsPersistence
    BY DEF WindowsPersistence, Checks
  <2>4. WindowsPosture \cup WindowsPatches \cup WindowsPersistence \subseteq AdapterChecks(p)
    BY <1>5 DEF AdapterChecks
  <2>5. {"antivirus", "pending_updates", "startup_folders"} \cap OptionalChecks = {}
    BY DEF OptionalChecks
  <2> HIDE DEF check, Firm
  <2>6. Firm(AdapterChecks(p), "posture")
    BY <1>3, <2>1, <2>4, <2>5
  <2>7. Firm(AdapterChecks(p), "patches")
    BY <1>3, <2>2, <2>4, <2>5
  <2>8. Firm(AdapterChecks(p), "persistence")
    BY <1>3, <2>3, <2>4, <2>5
  <2> QED
    BY <1>1, <1>2, <2>6, <2>7, <2>8 DEF Firm
<1>6. CASE p = "macos"
  <2>1. check("gatekeeper", "posture", "command") \in MacPosture
    BY DEF MacPosture, Checks
  <2>2. check("pending_updates", "patches", "command") \in MacPatches
    BY DEF MacPatches, Checks
  <2>3. check("launch_items", "persistence", "directory") \in MacPersistence
    BY DEF MacPersistence, Checks
  <2>4. MacPosture \cup MacPatches \cup MacPersistence \subseteq AdapterChecks(p)
    BY <1>6 DEF AdapterChecks
  <2>5. {"gatekeeper", "pending_updates", "launch_items"} \cap OptionalChecks = {}
    BY DEF OptionalChecks
  <2> HIDE DEF check, Firm
  <2>6. Firm(AdapterChecks(p), "posture")
    BY <1>3, <2>1, <2>4, <2>5
  <2>7. Firm(AdapterChecks(p), "patches")
    BY <1>3, <2>2, <2>4, <2>5
  <2>8. Firm(AdapterChecks(p), "persistence")
    BY <1>3, <2>3, <2>4, <2>5
  <2> QED
    BY <1>1, <1>2, <2>6, <2>7, <2>8 DEF Firm
<1> QED
  BY <1>4, <1>5, <1>6 DEF Platforms

(* What a skipped or a succeeding check answered.                            *)
LEMMA CleanAnswers ==
    ASSUME NEW p, NEW categories, NEW answers, NEW state,
           NativeRun(p, categories, answers, state), NEW c \in DOMAIN answers,
           state[c] \in {"SUCCESS", "SKIPPED"}
    PROVE  /\ c.name \notin OptionalChecks => state[c] = "SUCCESS"
           /\ c.category = "inventory" /\ state[c] = "SUCCESS" =>
                  InventorySection(c.name) \notin NativeRejected(answers)
<1>1. /\ c \in NativeChecks(p, categories) /\ answers[c] \in AnswerType
      /\ state[c] = Converted(p, c, answers[c], NativeRejected(answers)) /\ p \in Platforms
  BY DEF NativeRun
<1>2. answers[c].state \in ToolStates /\ answers[c].state # "SKIPPED"
  BY <1>1 DEF AnswerType, ToolStates
<1>3. c.name \notin OptionalChecks => state[c] = "SUCCESS"
  BY <1>1, <1>2 DEF Converted
<1>4. ASSUME c.category = "inventory", state[c] = "SUCCESS"
      PROVE  InventorySection(c.name) \notin NativeRejected(answers)
  <2>1. c \in InventoryChecks
    BY <1>1, <1>4, ChecksKnown DEF NativeChecks
  <2>2. c.name \in {d.name : d \in InventoryChecks}
    BY <2>1
  <2>3. answers[c].state = "SUCCESS"
    BY <1>4, ConvertedAnswers
  <2> HIDE DEF NativeRejected
  <2> QED
    BY <1>1, <1>4, <2>2, <2>3 DEF Converted
<1> QED
  BY <1>3, <1>4

(* A run without a failure completes its categories and observes every        *)
(* section that one of its checks fills.                                    *)
LEMMA CleanRunCovers ==
    ASSUME NEW p, NEW categories \in SUBSET Categories, NEW answers, NEW state,
           NativeRun(p, categories, answers, state),
           \A c \in DOMAIN answers : state[c] \in {"SUCCESS", "SKIPPED"}
    PROVE  /\ NativeIncomplete(p, categories, state) = {}
           /\ \A c \in DOMAIN answers :
                 Fills(c) \subseteq NativeObserved(p, categories, answers, state)
<1> DEFINE needs == Contributors(p, categories)
           done == Completed(categories, state)
           new == NativeObserved(p, categories, answers, state)
<1>1. p \in Platforms /\ DOMAIN state = DOMAIN answers
      /\ DOMAIN answers = NativeChecks(p, categories)
  BY DEF NativeRun
<1>2. ASSUME NEW k \in categories, k # "inventory"
      PROVE  k \in done
  <2>1. k \in {"posture", "patches", "persistence"}
    BY <1>2 DEF Categories
  <2>2. PICK c \in AdapterChecks(p) : c.category = k /\ c.name \notin OptionalChecks
    BY <1>1, <2>1, FirmChecks
  <2>3. c \in DOMAIN answers
    BY <1>1, <2>2 DEF NativeChecks
  <2>4. state[c] = "SUCCESS"
    BY <2>2, <2>3, CleanAnswers
  <2>5. "SUCCESS" \in {state[d] : d \in {e \in DOMAIN state : e.category = k}}
    BY <1>1, <2>2, <2>3, <2>4
  <2>6. {state[d] : d \in {e \in DOMAIN state : e.category = k}} \subseteq {"SUCCESS", "SKIPPED"}
    BY <1>1
  <2> QED
    BY <2>5, <2>6 DEF Completed
<1>3. ASSUME NEW s \in DOMAIN needs PROVE needs[s] \subseteq done
  <2> HIDE DEF done
  <2> QED
    BY <1>2, <1>3, ContributorsAre
<1>4. NativeIncomplete(p, categories, state) = {}
  BY <1>3 DEF NativeIncomplete
<1>5. ASSUME NEW c \in DOMAIN answers, c.category = "inventory"
      PROVE  InventorySection(c.name) \in new
  <2>1. c \in AdapterChecks(p)
    BY ConvertedAnswers
  <2>2. state[c] = "SUCCESS" /\ answers[c].state = "SUCCESS"
    BY <1>1, <1>5, <2>1, FirmChecks, CleanAnswers, ConvertedAnswers
  <2>3. InventorySection(c.name) \in NativePresent(answers)
    BY <1>5, <2>2 DEF NativePresent, Fills, Good
  <2>4. InventorySection(c.name) \notin NativeRejected(answers)
    BY <1>5, <2>2, CleanAnswers
  <2> QED
    BY <1>5, <2>2, <2>3, <2>4 DEF NativeObserved
<1>6. ASSUME NEW s \in DOMAIN needs, s \in NativePresent(answers)
      PROVE  s \in new
  BY <1>3, <1>6 DEF NativeObserved
<1>7. ASSUME NEW k \in categories \ {"inventory"}, NEW s,
             \A c \in DOMAIN answers : c.category = k => s \in Fills(c)
      PROVE  s \in NativePresent(answers)
  <2>1. k \in done
    BY <1>2
  <2>2. PICK c \in DOMAIN answers : c.category = k /\ answers[c].state = "SUCCESS"
    BY <2>1, CompletedAnswers
  <2>3. s \in Fills(c)
    BY <1>7, <2>2
  <2> QED
    BY <2>2, <2>3 DEF NativePresent, Good
<1> HIDE DEF needs, done, new
<1>8. ASSUME NEW c \in DOMAIN answers, c.category # "inventory", NEW s \in Fills(c)
      PROVE  s \in new
  <2>1. c.category \in categories /\ c \in AdapterChecks(p) /\ c.category \in Categories
    BY <1>1, ConvertedAnswers, ChecksKnown
  <2>2. CASE s = "users"
    <3>1. c.category = "posture" /\ c.name = "local_users"
      BY <1>8, <2>1, <2>2 DEF Fills, Categories
    <3>2. p = "windows"
      <4>1. p # "linux"
        BY <2>1, <3>1, ChecksFields DEF AdapterChecks, LinuxInventory, LinuxPosture, LinuxPatches,
                                        LinuxPersistence
      <4>2. p # "macos"
        BY <2>1, <3>1, ChecksFields DEF AdapterChecks, MacInventory, MacPosture, MacPatches,
                                        MacPersistence
      <4> QED
        BY <1>1, <4>1, <4>2 DEF Platforms
    <3>3. s \in DOMAIN needs
      BY <2>1, <2>2, <3>1, <3>2, ContributorsAre DEF needs
    <3>4. state[c] = "SUCCESS"
      BY <3>2, ConvertedAnswers
    <3>5. answers[c].state = "SUCCESS"
      BY <3>4, ConvertedAnswers
    <3>6. s \in NativePresent(answers)
      BY <1>8, <3>5 DEF NativePresent, Good
    <3> QED
      BY <1>6, <3>3, <3>6
  <2>3. CASE s # "users"
    <3>1. /\ s \in {"security", "updates", "persistence"}
          /\ \A d \in DOMAIN answers : d.category = c.category => s \in Fills(d)
      BY <1>8, <2>1, <2>3 DEF Fills, Categories
    <3>2. s \in DOMAIN needs
      BY <1>8, <2>1, <2>3, <3>1, ContributorsAre DEF needs, Fills, Categories
    <3>3. s \in NativePresent(answers)
      BY <1>7, <1>8, <2>1, <3>1
    <3> QED
      BY <1>6, <3>2, <3>3
  <2> QED
    BY <2>2, <2>3
<1>9. ASSUME NEW c \in DOMAIN answers PROVE Fills(c) \subseteq new
  BY <1>5, <1>8 DEF Fills
<1> QED
  BY <1>4, <1>9 DEF new

(* Something observed was delivered by a check that succeeded.               *)
LEMMA ObservedHasSuccess ==
    ASSUME NEW p, NEW categories, NEW answers, NEW state,
           NativeRun(p, categories, answers, state),
           NativeObserved(p, categories, answers, state) # {}
    PROVE  \E c \in DOMAIN answers : state[c] = "SUCCESS"
<1> DEFINE needs == Contributors(p, categories)
<1>1. PICK s \in NativeObserved(p, categories, answers, state) : TRUE
  OBVIOUS
<1>2. CASE \E c \in DOMAIN answers : state[c] = "SUCCESS"
  BY <1>2
<1>3. CASE s \in DOMAIN needs /\ needs[s] \subseteq Completed(categories, state)
  <2>1. needs[s] # {}
    <3> USE DEF needs
    <3>1. s \in {"security", "updates", "persistence", "users"}
      BY <1>3, ContributorsAre
    <3>2. CASE s = "security"
      BY <1>3, <3>2, ContributorsAre
    <3>3. CASE s = "updates"
      BY <1>3, <3>3, ContributorsAre
    <3>4. CASE s = "persistence"
      BY <1>3, <3>4, ContributorsAre
    <3>5. CASE s = "users"
      BY <1>3, <3>5, ContributorsAre
    <3> QED
      BY <3>1, <3>2, <3>3, <3>4, <3>5
  <2>2. PICK k \in Completed(categories, state) : TRUE
    BY <1>3, <2>1
  <2> QED
    BY <2>2, CompletedAnswers
<1> QED
  BY <1>1, <1>2, <1>3 DEF NativeObserved

-----------------------------------------------------------------------------
(* The bundle                                                               *)

\* The stages after native collection.
Later == {"osquery", "openscap", "osv", "depscan", "merge", "collected"}

\* While no contributor fell short, nothing is incomplete and the native
\* sections are observed; what is observed was delivered by some contributor.
CoverBundle ==
    /\ stage = "attack" => job.type = "ATTACK_SURFACE"
    /\ Clean(statuses) => incomplete = {}
    /\ Clean(statuses) /\ stage \in Later => NativeSections(job) \subseteq observed
    /\ observed # {} => \E n \in statuses : n[2] \in Good

LEMMA CleanBefore ==
    ASSUME NEW some, NEW all, some \subseteq all, Clean(all)
    PROVE  Clean(some)
BY DEF Clean, AllStates

LEMMA BlankCovers ==
    ASSUME ResetBundle, stage' \notin Later \cup {"attack"}
    PROVE  CoverBundle'
BY DEF ResetBundle, CoverBundle

(* A stage that only adds to what is observed.                               *)
LEMMA LaterCovers ==
    ASSUME CoverBundle, stage \in Later, stage' \in Later, job' = job,
           statuses \subseteq statuses', observed \subseteq observed',
           Clean(statuses') => incomplete' = incomplete,
           observed' = observed \/ \E n \in statuses' : n[2] \in Good
    PROVE  CoverBundle'
<1>1. Clean(statuses') => Clean(statuses)
  BY CleanBefore
<1>2. stage' # "attack"
  BY DEF Later
<1>3. (NativeSections(job))' = NativeSections(job)
  BY DEF NativeSections
<1>4. (Clean(statuses))' <=> Clean(statuses')
  BY DEF Clean, AllStates
<1>5. (\E n \in statuses : n[2] \in Good) => \E n \in statuses' : n[2] \in Good
  OBVIOUS
<1> QED
  BY <1>1, <1>2, <1>3, <1>4, <1>5 DEF CoverBundle

(* A contributor that falls short of good leaves a mark.                     *)
LEMMA ReportCovers ==
    ASSUME NEW tool, NEW states
    PROVE  /\ statuses \subseteq Report(tool, states)
           /\ \A s \in states : s \in Good => \E n \in Report(tool, states) : n[2] \in Good
           /\ \A s \in states : s \notin {"SUCCESS", "SKIPPED"} => ~Clean(Report(tool, states))
<1>1. \A s \in states : <<tool, s>> \in Report(tool, states) /\ <<tool, s>>[2] = s
  BY DEF Report
<1>2. statuses \subseteq Report(tool, states)
  BY DEF Report
<1> QED
  BY <1>1, <1>2, CleanReport
LEMMA NativeCovers ==
    ASSUME TypeOK, BundleSound, CoverBundle, NativeStage \/ NativeRaises
    PROVE  CoverBundle'
<1> DEFINE p == job.platform
           categories == NativeCategories(job)
           checks == NativeChecks(p, categories)
<1>1. stage' = "osquery" /\ job' = job /\ p \in Platforms
  BY CollectionAssumption DEF NativeStage, NativeRaises, TypeOK, IsJob
<1>2. categories \in SUBSET Categories
  BY DEF NativeCategories, Categories
<1>3. (NativeSections(job))' = NativeSections(job)
  BY <1>1 DEF NativeSections
<1>4. (Clean(statuses))' <=> Clean(statuses')
  BY DEF Clean, AllStates
<1>5. CASE NativeRaises
  <2>1. statuses' = Report("native", {"FAILED"}) /\ observed' = observed
    BY <1>5 DEF NativeRaises
  <2>2. ~Clean(statuses') /\ statuses \subseteq statuses'
    BY <2>1, ReportCovers
  <2> QED
    BY <1>1, <1>4, <2>1, <2>2 DEF CoverBundle
<1>6. CASE NativeStage /\ categories = {}
  <2>1. UNCHANGED bundle
    BY <1>6 DEF NativeStage
  <2>2. NativeSections(job) = {}
    BY <1>6 DEF NativeSections, NativeChecks
  <2> QED
    BY <1>1, <1>3, <1>4, <2>1, <2>2 DEF CoverBundle, bundle
<1>7. CASE NativeStage /\ categories # {}
  <2>1. PICK answers \in Varying([c \in checks |-> Answers(c.kind)]) :
          LET rejected == NativeRejected(answers)
              state == [c \in checks |-> Converted(p, c, answers[c], rejected)]
          IN  /\ observed' = observed \cup NativeObserved(p, categories, answers, state)
              /\ incomplete' = incomplete \cup NativeIncomplete(p, categories, state)
              /\ statuses' = Report("native", {state[c] : c \in checks})
    BY <1>7 DEF NativeStage
  <2> DEFINE state == [c \in checks |-> Converted(p, c, answers[c], NativeRejected(answers))]
             states == {state[c] : c \in checks}
             new == NativeObserved(p, categories, answers, state)
             gaps == NativeIncomplete(p, categories, state)
  <2>2. /\ observed' = observed \cup new /\ incomplete' = incomplete \cup gaps
        /\ statuses' = Report("native", states)
    BY <2>1
  <2>3. NativeRun(p, categories, answers, state)
    BY <1>1, NativeAnswers
  <2>4. DOMAIN answers = checks
    BY <2>3 DEF NativeRun
  <2> HIDE DEF state, new, gaps, checks
  <2>5. Clean(statuses') => Clean(statuses) /\ \A c \in DOMAIN answers : state[c] \in {"SUCCESS", "SKIPPED"}
    <3>1. Clean(statuses') => Clean(statuses) /\ states \subseteq {"SUCCESS", "SKIPPED"}
      <4> HIDE DEF states
      <4> QED
        BY <2>2, CleanReport
    <3> QED
      BY <2>4, <3>1
  <2>6. Clean(statuses') => gaps = {} /\ \A c \in DOMAIN answers : Fills(c) \subseteq new
    BY <1>2, <2>3, <2>5, CleanRunCovers DEF new, gaps
  <2>7. NativeSections(job) \subseteq UNION {Fills(c) : c \in DOMAIN answers}
    BY <2>4 DEF NativeSections, checks
  <2>8. Clean(statuses') => NativeSections(job) \subseteq new
    BY <2>6, <2>7
  <2>9. new # {} => \E n \in statuses' : n[2] \in Good
    <3>1. new # {} => "SUCCESS" \in states
      BY <2>3, <2>4, ObservedHasSuccess DEF new
    <3> HIDE DEF states
    <3>2. "SUCCESS" \in Good
      BY DEF Good
    <3> QED
      BY <2>2, <3>1, <3>2, ReportCovers
  <2>10. statuses \subseteq statuses'
    BY <2>2, ReportCovers
  <2>11. stage' # "attack"
    BY <1>1
  <2>12. (Clean(statuses) => incomplete = {})'
    BY <1>4, <2>2, <2>5, <2>6 DEF CoverBundle
  <2>13. (Clean(statuses) /\ stage \in Later => NativeSections(job) \subseteq observed)'
    BY <1>3, <1>4, <2>2, <2>8
  <2>14. (observed # {} => \E n \in statuses : n[2] \in Good)'
    BY <2>2, <2>9, <2>10 DEF CoverBundle
  <2> QED
    BY <2>11, <2>12, <2>13, <2>14 DEF CoverBundle
<1> QED
  BY <1>5, <1>6, <1>7

LEMMA OsqueryCovers ==
    ASSUME CoverBundle, OsqueryStage
    PROVE  CoverBundle'
<1> DEFINE records == {[name |-> n] : n \in SelectedQueries}
<1>1. PICK named \in Varying([q \in records |-> QueryAnswers]) :
        LET answers == [n \in SelectedQueries |-> named[[name |-> n]]]
            states == {answers[n].state : n \in SelectedQueries}
            present == OsqueryPresent(answers)
            rejected == OsqueryRejected(answers)
        IN  /\ observed' = observed \cup (present \ rejected)
            /\ statuses' = Report("osquery", states \cup {Aggregate(states, rejected)})
  BY DEF OsqueryStage
<1> DEFINE answers == [n \in SelectedQueries |-> named[[name |-> n]]]
           states == {answers[n].state : n \in SelectedQueries}
           present == OsqueryPresent(answers)
           rejected == OsqueryRejected(answers)
           all == states \cup {Aggregate(states, rejected)}
<1>2. /\ observed' = observed \cup (present \ rejected)
      /\ statuses' = Report("osquery", all)
      /\ stage = "osquery" /\ stage' = "openscap" /\ incomplete' = incomplete /\ job' = job
  BY <1>1 DEF OsqueryStage
<1>3. DOMAIN answers = SelectedQueries
  OBVIOUS
<1> HIDE DEF answers, rejected
<1>4. ASSUME NEW s \in present PROVE \E t \in all : t \in Good
  <2>1. PICK q \in SelectedQueries : answers[q].state \in Good
    BY <1>3 DEF OsqueryPresent
  <2> QED
    BY <2>1
<1> HIDE DEF states, present, all
<1>5. observed' = observed \/ \E n \in statuses' : n[2] \in Good
  BY <1>2, <1>4, ReportCovers
<1>6. statuses \subseteq statuses' /\ observed \subseteq observed'
  BY <1>2, ReportCovers
<1>7. stage \in Later /\ stage' \in Later
  BY <1>2 DEF Later
<1> QED
  BY <1>2, <1>5, <1>6, <1>7, LaterCovers

LEMMA OpenScapCovers ==
    ASSUME CoverBundle, OpenScapStage
    PROVE  CoverBundle'
<1>1. stage \in Later /\ stage' \in Later /\ job' = job
  BY DEF OpenScapStage, Later
<1>2. ASSUME NEW r \in InTime(OpenScapReports), NEW version \in Versions,
             statuses' = Report("openscap", {r.state} \cup version),
             observed' = observed \cup (IF r.state \in Good THEN {"compliance"} ELSE {}),
             incomplete' = incomplete
      PROVE  CoverBundle'
  <2> DEFINE states == {r.state} \cup version
  <2>1. r.state \in states
    OBVIOUS
  <2>2. statuses' = Report("openscap", states)
    BY <1>2
  <2> HIDE DEF states
  <2>3. statuses \subseteq statuses' /\ (r.state \in Good => \E n \in statuses' : n[2] \in Good)
    BY <2>1, <2>2, ReportCovers
  <2> QED
    BY <1>1, <1>2, <2>3, LaterCovers
<1>3. ASSUME statuses' = Report("openscap", {"FAILED"}), observed' = observed
      PROVE  CoverBundle'
  <2>1. statuses \subseteq statuses' /\ ~Clean(statuses')
    BY <1>3, ReportCovers
  <2> QED
    BY <1>1, <1>3, <2>1, LaterCovers
<1> QED
  BY <1>2, <1>3 DEF OpenScapStage

LEMMA VulnerabilitiesCover ==
    ASSUME CoverBundle, NEW tool, NEW requests, requests # {}, NEW contract, NEW skipped,
           Vulnerabilities(tool, requests, Reports(contract), skipped),
           stage \in Later, stage' \in Later, job' = job
    PROVE  CoverBundle'
<1>1. PICK reports \in [requests -> InTime(Reports(contract))], merged \in BOOLEAN,
           version \in Versions :
        LET states == {reports[q].state : q \in requests}
            good == merged /\ states \subseteq Good
        IN  /\ statuses' = Report(tool, states \cup skipped \cup version
                                        \cup (IF merged THEN {} ELSE {"FAILED"}))
            /\ observed' = observed \cup (IF good THEN {"vulnerabilities"} ELSE {})
            /\ incomplete' = incomplete \cup (IF good THEN {} ELSE {"vulnerabilities"})
  BY DEF Vulnerabilities
<1> DEFINE states == {reports[q].state : q \in requests}
           good == merged /\ states \subseteq Good
           all == states \cup skipped \cup version \cup (IF merged THEN {} ELSE {"FAILED"})
<1>2. /\ statuses' = Report(tool, all)
      /\ observed' = observed \cup (IF good THEN {"vulnerabilities"} ELSE {})
      /\ incomplete' = incomplete \cup (IF good THEN {} ELSE {"vulnerabilities"})
  BY <1>1
<1>3. states # {} /\ states \subseteq ToolStates
  BY ReportsTyped DEF InTime
<1> HIDE DEF states
<1>4. good => \E s \in all : s \in Good
  BY <1>3
<1>5. ~good => \E s \in all : s \notin {"SUCCESS", "SKIPPED"}
  BY <1>3 DEF Good, ToolStates
<1> HIDE DEF all, good
<1>6. statuses \subseteq statuses' /\ (good => \E n \in statuses' : n[2] \in Good)
      /\ (~good => ~Clean(statuses'))
  BY <1>2, <1>4, <1>5, ReportCovers
<1>7. observed \subseteq observed' /\ (observed' = observed \/ good)
      /\ (good => incomplete' = incomplete)
  BY <1>2
<1> QED
  BY <1>6, <1>7, LaterCovers

LEMMA MergeCovers ==
    ASSUME BundleSound, CoverBundle, Merge
    PROVE  CoverBundle'
<1>1. /\ stage \in Later /\ stage' = "collected" /\ observed' = observed \ incomplete
      /\ UNCHANGED <<job, incomplete, statuses>>
  BY DEF Merge, Later
<1>2. (NativeSections(job))' = NativeSections(job)
  BY <1>1 DEF NativeSections
<1>3. (Clean(statuses))' <=> Clean(statuses)
  BY <1>1 DEF Clean, AllStates
<1> QED
  BY <1>1, <1>2, <1>3 DEF CoverBundle

LEMMA AttackCovers ==
    ASSUME BundleSound, CoverBundle, AttackSurface
    PROVE  CoverBundle'
<1>1. /\ stage = "attack" /\ observed = {} /\ incomplete = {} /\ job.type = "ATTACK_SURFACE"
      /\ job' = job
  BY DEF AttackSurface, BundleSound, CoverBundle
<1>2. CASE settings.discovery /\ ~job.allowed
  <2>1. ResetBundle /\ stage' = "raised"
    BY <1>2 DEF AttackSurface
  <2> QED
    BY <2>1, BlankCovers DEF Later
<1>3. CASE ~(settings.discovery /\ ~job.allowed)
  <2>1. stage' = "collected" /\ incomplete' = {}
    BY <1>1, <1>3 DEF AttackSurface
  <2>2. NativeSections(job) = {} /\ (NativeSections(job))' = NativeSections(job)
    <3>1. NativeCategories(job) = {}
      BY <1>1 DEF NativeCategories
    <3>2. NativeSections(job) = {}
      BY <3>1 DEF NativeSections, NativeChecks
    <3> QED
      BY <1>1, <3>2 DEF NativeSections
  <2>3. observed' # {} => \E n \in statuses' : n[2] \in Good
    <3>1. CASE settings.discovery /\ settings.amass
      <4>1. PICK r \in InTime(AmassReports), version \in Versions :
              /\ statuses' = Report("amass", {r.state} \cup version)
              /\ observed' = observed \cup (IF r.state \in Good THEN {"attack_surface"} ELSE {})
        BY <1>3, <3>1 DEF AttackSurface
      <4> DEFINE states == {r.state} \cup version
      <4>2. r.state \in states /\ statuses' = Report("amass", states)
        BY <4>1
      <4> HIDE DEF states
      <4>3. r.state \in Good => \E n \in statuses' : n[2] \in Good
        BY <4>2, ReportCovers
      <4> QED
        BY <1>1, <4>1, <4>3
    <3>2. CASE ~(settings.discovery /\ settings.amass)
      <4>1. observed' = observed
        BY <1>3, <3>2 DEF AttackSurface
      <4> QED
        BY <1>1, <4>1
    <3> QED
      BY <3>1, <3>2
  <2> QED
    BY <2>1, <2>2, <2>3 DEF CoverBundle
<1> QED
  BY <1>2, <1>3

LEMMA CollectCovers ==
    ASSUME TypeOK, BundleSound, CoverBundle, Collect
    PROVE  CoverBundle'
<1>1. CASE NativeStage \/ NativeRaises
  BY <1>1, NativeCovers
<1>2. CASE OsqueryStage
  BY <1>2, OsqueryCovers
<1>3. CASE OsquerySkipped \/ OsqueryRaises \/ OpenScapSkipped \/ OsvSkipped \/ DepScanSkipped
  <2>1. /\ stage \in Later /\ stage' \in Later /\ job' = job
        /\ observed' = observed /\ incomplete' = incomplete
    BY <1>3 DEF OsquerySkipped, OsqueryRaises, OpenScapSkipped, OsvSkipped, DepScanSkipped, Later
  <2>2. statuses' = statuses \/ \E tool, states : statuses' = Report(tool, states)
    BY <1>3 DEF OsquerySkipped, OsqueryRaises, OpenScapSkipped, OsvSkipped, DepScanSkipped
  <2>3. statuses \subseteq statuses'
    BY <2>2, ReportCovers
  <2> QED
    BY <2>1, <2>3, LaterCovers
<1>4. CASE OpenScapStage
  BY <1>4, OpenScapCovers
<1>5. CASE OsvStage
  <2>1. /\ Vulnerabilities("osv-scanner", job.sources, Reports(OsvScanner), {})
        /\ job.sources # {} /\ stage \in Later /\ stage' \in Later /\ job' = job
    BY <1>5 DEF OsvStage, OsvReports, Later
  <2> QED
    BY <2>1, VulnerabilitiesCover
<1>6. CASE DepScanStage
  <2> DEFINE skipped == IF "other" \in job.sources THEN {"SKIPPED"} ELSE {}
             requests == {"live-os"} \cup (job.sources \ {"other"})
  <2>1. /\ Vulnerabilities("depscan", requests, Reports(DepScan), skipped)
        /\ requests # {} /\ stage \in Later /\ stage' \in Later /\ job' = job
    BY <1>6 DEF DepScanStage, DepScanReports, Later
  <2> HIDE DEF skipped, requests
  <2> QED
    BY <2>1, VulnerabilitiesCover
<1>7. CASE Merge
  BY <1>7, MergeCovers
<1>8. CASE AttackSurface
  BY <1>8, AttackCovers
<1>9. CASE TooManyRecords \/ DeadlinePasses
  <2>1. ResetBundle /\ stage' = "raised"
    BY <1>9 DEF TooManyRecords, DeadlinePasses
  <2> QED
    BY <2>1, BlankCovers DEF Later
<1> QED
  BY <1>1, <1>2, <1>3, <1>4, <1>5, <1>6, <1>7, <1>8, <1>9 DEF Collect

-----------------------------------------------------------------------------
(* The scans of a request                                                   *)

\* A scan that was cut off has failed; the status of any other is that of its
\* contributors, and without a failure it covers the native sections.
ResultCovers(r, j) ==
    /\ AllStates(r.statuses) \subseteq CollectorStates
    /\ \/ r.ended = "terminal" /\ r.status = "FAILED" /\ ~Clean(r.statuses)
       \/ /\ r.ended = "analysed" /\ (r.linux <=> j.platform = "linux")
          /\ r.status = OverallStatus(AllStates(r.statuses))
          /\ Clean(r.statuses) => NativeSections(j) \subseteq r.observed
          /\ r.observed # {} => \E n \in r.statuses : n[2] \in Good

\* The report is the last step, and complete or successful only on the evidence.
ReportEarned ==
    /\ report # NoReport => stage = "ended" /\ Len(results) = Len(request.jobs)
    /\ report.complete \/ report.status = "SUCCESS" => report.complete /\ Complete

CoverInv ==
    /\ DeepInv /\ CoverBundle /\ ReportEarned
    /\ stage # "ended" => job = request.jobs[Len(results) + 1]
    /\ \A i \in DOMAIN results : ResultCovers(results[i], request.jobs[i])

LEMMA NoReportYet ==
    ASSUME report = NoReport
    PROVE  ~(report.complete \/ report.status = "SUCCESS")
BY DEF NoReport

LEMMA CompleteKept ==
    ASSUME UNCHANGED <<settings, request, results>>
    PROVE  Complete' <=> Complete
<1>1. settings' = settings /\ request' = request /\ results' = results
  OBVIOUS
<1>2. RequiredSections' = RequiredSections /\ Degraded' = Degraded
  BY <1>1 DEF RequiredSections, Degraded, Evidence, AllStates
<1>3. \A t : /\ ToolScheduled(t)' <=> ToolScheduled(t)
             /\ Readiness(t)' = Readiness(t)
  BY <1>1 DEF Readiness, ToolScheduled, ToolConfigured, AttackRequested, StatesOf, Evidence, Reduced,
              Known
<1>4. ReadinessGaps' = ReadinessGaps
  BY <1>3 DEF ReadinessGaps
<1> QED
  BY <1>1, <1>2, <1>4 DEF Complete

(* A result joins the ones before it.                                       *)
LEMMA ResultJoins ==
    ASSUME CoverInv, DeepInv', CoverBundle', stage # "ended", stage' = "ended", NEW r,
           results' = Append(results, r), ResultCovers(r, job), UNCHANGED <<request, report>>
    PROVE  CoverInv'
<1>1. PICK S : results \in Seq(S)
  BY DEF CoverInv, DeepInv
<1>2. results \in Seq(S \cup {r}) /\ Len(results) \in Nat /\ DOMAIN results = 1..Len(results)
  BY <1>1
<1>3. /\ DOMAIN results' = 1..(Len(results) + 1) /\ results'[Len(results) + 1] = r
      /\ \A i \in 1..Len(results) : results'[i] = results[i]
  <2>1. /\ results' \in Seq(S \cup {r}) /\ Len(results') = Len(results) + 1
        /\ \A i \in 1..Len(results) : results'[i] = results[i]
        /\ results'[Len(results) + 1] = r
    BY <1>2, AppendProperties
  <2> QED
    BY <1>2, <2>1
<1>4. (\A i \in DOMAIN results : ResultCovers(results[i], request.jobs[i]))'
  <2> SUFFICES ASSUME NEW i \in DOMAIN results'
               PROVE  ResultCovers(results'[i], request.jobs[i])
    BY DEF ResultCovers, NativeSections
  <2>1. CASE i = Len(results) + 1
    BY <1>3, <2>1 DEF CoverInv
  <2>2. CASE i # Len(results) + 1
    <3>1. i \in DOMAIN results /\ results'[i] = results[i]
      BY <1>2, <1>3, <2>2
    <3> QED
      BY <3>1 DEF CoverInv
  <2> QED
    BY <2>1, <2>2
<1>5. report = NoReport
  BY DEF CoverInv, ReportEarned
<1>6. ReportEarned'
  BY <1>5, NoReportYet DEF ReportEarned, NoReport
<1> QED
  BY <1>4, <1>6 DEF CoverInv

(* A step that leaves the results and the report alone.                      *)
LEMMA CoverKept ==
    ASSUME CoverInv, DeepInv', CoverBundle', UNCHANGED <<settings, request, results, report>>,
           stage' # "ended" => job' = request.jobs[Len(results) + 1],
           report # NoReport => stage' = "ended"
    PROVE  CoverInv'
<1>1. settings' = settings /\ request' = request /\ results' = results /\ report' = report
  OBVIOUS
<1>2. (\A i \in DOMAIN results : ResultCovers(results[i], request.jobs[i]))'
  BY <1>1 DEF CoverInv, ResultCovers, NativeSections
<1>3. ReportEarned'
  BY <1>1, CompleteKept DEF CoverInv, ReportEarned, NoReport
<1> QED
  BY <1>1, <1>2, <1>3 DEF CoverInv

LEMMA CoverInitially == Init => CoverInv
<1> SUFFICES ASSUME Init PROVE CoverInv
  OBVIOUS
<1>1. DeepInv /\ request \in Requests /\ results = <<>> /\ report = NoReport
  BY DeepInitially DEF Init
<1>2. CoverBundle
  BY DEF Init, EmptyBundle, CoverBundle, FirstStage, Later
<1>3. ReportEarned
  BY <1>1, NoReportYet DEF ReportEarned
<1>4. job = request.jobs[Len(results) + 1]
  <2>1. request.jobs \in Seq(Jobs) /\ request.jobs # <<>> /\ job = Head(request.jobs)
    BY <1>1, RequestJobs DEF Init
  <2>2. Head(request.jobs) = request.jobs[1]
    BY <2>1
  <2>3. Len(results) + 1 = 1
    BY <1>1
  <2> QED
    BY <2>1, <2>2, <2>3
<1>5. DOMAIN results = {}
  BY <1>1
<1> QED
  BY <1>1, <1>2, <1>3, <1>4, <1>5 DEF CoverInv

LEMMA CoverStep ==
    ASSUME CoverInv, [Next]_vars
    PROVE  CoverInv'
<1>1. DeepInv' /\ DeepInv /\ TypeOK /\ BundleSound /\ CoverBundle
  BY DeepStep DEF CoverInv, DeepInv
<1>2. report # NoReport => stage = "ended" /\ Len(results) = Len(request.jobs)
  BY DEF CoverInv, ReportEarned
<1>3. CASE CollectStep
  <2>1. CoverBundle' /\ stage \in Stages /\ UNCHANGED <<settings, job, request, results, report>>
    BY <1>1, <1>3, CollectCovers, CollectSound DEF CollectStep
  <2>2. stage # "ended"
    BY <2>1 DEF Stages
  <2> QED
    BY <1>1, <1>2, <2>1, <2>2, CoverKept DEF CoverInv
<1>4. CASE Analyze
  <2>1. /\ stage = "collected" /\ stage' = "ended" /\ results' = Append(results, Result)
        /\ ResetBundle /\ UNCHANGED <<request, report>>
    BY <1>4 DEF Analyze
  <2>2. CoverBundle'
    BY <2>1, BlankCovers DEF Later
  <2>3. AllStates(statuses) \subseteq CollectorStates
    BY <1>1 DEF AllStates, BundleSound
  <2>4. Clean(statuses) => NativeSections(job) \subseteq observed
    BY <1>1, <2>1 DEF CoverBundle, Later
  <2>5. /\ Result.ended = "analysed" /\ (Result.linux <=> job.platform = "linux")
        /\ Result.status = OverallStatus(AllStates(statuses))
        /\ Result.observed = observed /\ Result.statuses = statuses
    BY DEF Result
  <2> HIDE DEF Result
  <2>6. ResultCovers(Result, job)
    BY <1>1, <2>3, <2>4, <2>5 DEF ResultCovers, CoverBundle
  <2> QED
    BY <1>1, <2>1, <2>2, <2>6, ResultJoins
<1>5. CASE AnalysisRaises
  <2>1. /\ stage = "collected" /\ stage' = "raised" /\ ResetBundle
        /\ UNCHANGED <<settings, job, request, results, report>>
    BY <1>5 DEF AnalysisRaises
  <2>2. CoverBundle'
    BY <2>1, BlankCovers DEF Later
  <2> QED
    BY <1>1, <1>2, <2>1, <2>2, CoverKept DEF CoverInv
<1>6. CASE RecordTerminal
  <2>1. PICK state \in {"TIMEOUT", "FAILED"} : results' = Append(results, Terminal(state))
    BY <1>6 DEF RecordTerminal
  <2>2. stage = "raised" /\ stage' = "ended" /\ UNCHANGED <<settings, job, bundle, request, report>>
    BY <1>6 DEF RecordTerminal
  <2>3. CoverBundle'
    BY <1>1, <2>2 DEF CoverBundle, bundle, Clean, AllStates, Later
  <2>4. AllStates({<<"deep-scan", state>>}) = {state}
    BY DEF AllStates
  <2>5. ResultCovers(Terminal(state), job)
    BY <2>4 DEF ResultCovers, Terminal, Clean, CollectorStates, ToolStates
  <2> QED
    BY <1>1, <2>1, <2>2, <2>3, <2>5, ResultJoins
<1>7. CASE NextScan
  <2>1. /\ stage = "ended" /\ Len(results) < Len(request.jobs)
        /\ job' = request.jobs[Len(results) + 1] /\ stage' = FirstStage(job')
        /\ UNCHANGED <<settings, bundle, request, results, report>>
    BY <1>7 DEF NextScan
  <2>2. Len(results) # Len(request.jobs)
    <3>1. Len(request.jobs) \in Nat
      BY <1>1, RequestJobs DEF TypeOK
    <3> QED
      BY <2>1, <3>1
  <2>3. CoverBundle'
    <3>1. stage' \notin Later /\ (stage' = "attack" => job'.type = "ATTACK_SURFACE")
      BY <2>1 DEF FirstStage, Later
    <3> QED
      BY <1>1, <2>1, <3>1 DEF CoverBundle, bundle, Clean, AllStates
  <2> QED
    BY <1>1, <1>2, <2>1, <2>2, <2>3, CoverKept
<1>8. CASE BuildReport \/ ReportLost
  <2>1. stage = "ended" /\ Len(results) = Len(request.jobs) /\ UNCHANGED <<collectionVars, request, results>>
    BY <1>8 DEF BuildReport, ReportLost, Reporting
  <2>2. UNCHANGED <<settings, job, stage, observed, incomplete, statuses>>
    BY <2>1 DEF collectionVars, bundle
  <2>3. CoverBundle'
    BY <1>1, <2>2 DEF CoverBundle, Clean, AllStates, NativeSections
  <2>4. Complete' <=> Complete
    BY <2>1, <2>2, CompleteKept
  <2>5. report'.complete \/ report'.status = "SUCCESS" => report'.complete /\ Complete
    <3>1. CASE BuildReport
      <4>1. /\ report'.complete = Complete
            /\ report'.status = IF CombinedStatus = "SUCCESS" /\ ~Complete THEN "PARTIAL"
                                ELSE CombinedStatus
        BY <3>1 DEF BuildReport
      <4> QED
        BY <4>1
    <3>2. CASE ReportLost
      <4>1. report'.complete = FALSE /\ report'.status = "none"
        BY <3>2 DEF ReportLost, NoReport
      <4> QED
        BY <4>1
    <3> QED
      BY <1>8, <3>1, <3>2
  <2>6. ReportEarned'
    BY <2>1, <2>2, <2>4, <2>5 DEF ReportEarned
  <2>7. (\A i \in DOMAIN results : ResultCovers(results[i], request.jobs[i]))'
    BY <2>1 DEF CoverInv, ResultCovers, NativeSections
  <2> QED
    BY <1>1, <2>1, <2>2, <2>3, <2>6, <2>7 DEF CoverInv
<1>9. CASE UNCHANGED vars
  <2>1. UNCHANGED <<settings, job, stage, observed, incomplete, statuses, request, results, report>>
    BY <1>9 DEF vars, collectionVars, bundle
  <2>2. CoverBundle'
    BY <1>1, <2>1 DEF CoverBundle, Clean, AllStates, NativeSections
  <2> QED
    BY <1>1, <1>2, <2>1, <2>2, CoverKept DEF CoverInv
<1> QED
  BY <1>3, <1>4, <1>5, <1>6, <1>7, <1>8, <1>9 DEF Next

THEOREM CoverInvariant == Spec => []CoverInv
<1>1. Init => CoverInv
  BY CoverInitially
<1>2. CoverInv /\ [Next]_vars => CoverInv'
  BY CoverStep
<1> QED
  BY <1>1, <1>2, PTL DEF Spec

(* A scan whose overall status is SUCCESS observed every section of the native *)
(* categories it scheduled: behind no optional, skipped or partial check hides *)
(* a gap (overall_status over the states that _collect_native converts).      *)
THEOREM SuccessCovers == Spec => []SuccessCoversNative
<1>1. ASSUME CoverInv, NEW i \in DOMAIN results, results[i].status = "SUCCESS"
      PROVE  NativeSections(request.jobs[i]) \subseteq results[i].observed
  <2>1. ResultCovers(results[i], request.jobs[i])
    BY <1>1 DEF CoverInv
  <2>2. /\ OverallStatus(AllStates(results[i].statuses)) = "SUCCESS"
        /\ Clean(results[i].statuses) => NativeSections(request.jobs[i]) \subseteq results[i].observed
    BY <1>1, <2>1 DEF ResultCovers
  <2> QED
    BY <2>2, SuccessIsClean
<1>2. CoverInv => SuccessCoversNative
  BY <1>1 DEF SuccessCoversNative
<1> QED
  BY <1>2, CoverInvariant, PTL

(* No state is reduced to success unless a contributor succeeded.            *)
LEMMA ReducedToSuccess ==
    ASSUME NEW states, Reduced(states) = "SUCCESS"
    PROVE  "SUCCESS" \in states
<1> DEFINE known == Known(states)
           Worst(s) == \/ s = "FAILED"
                       \/ s = "TIMEOUT" /\ "FAILED" \notin states
                       \/ states \cap {"FAILED", "TIMEOUT"} = {}
<1>1. CASE known = {"SUCCESS"}
  BY <1>1 DEF Known
<1>2. CASE known # {} /\ known # {"SUCCESS"} /\ known \cap Good # {}
  BY <1>2 DEF Reduced
<1>3. CASE known # {} /\ known # {"SUCCESS"} /\ known \cap Good = {}
  <2>1. \E s \in known : Worst(s)
    <3>1. CASE "FAILED" \in states
      BY <3>1 DEF Known
    <3>2. CASE "FAILED" \notin states /\ "TIMEOUT" \in states
      BY <3>2 DEF Known
    <3>3. CASE states \cap {"FAILED", "TIMEOUT"} = {}
      BY <1>3, <3>3
    <3> QED
      BY <3>1, <3>2, <3>3
  <2>2. (CHOOSE s \in known : Worst(s)) \in known
    <3> HIDE DEF known, Worst
    <3> QED
      BY <2>1
  <2>3. Reduced(states) = CHOOSE s \in known : Worst(s)
    BY <1>3 DEF Reduced
  <2> QED
    BY <1>3, <2>2, <2>3 DEF Good
<1>4. CASE known = {}
  BY <1>4 DEF Reduced
<1> QED
  BY <1>1, <1>2, <1>3, <1>4

(* Where nothing is degraded, every scan was analysed and is clean.          *)
LEMMA UndegradedIsClean ==
    ASSUME CoverInv, Degraded = {}, NEW i \in DOMAIN results
    PROVE  /\ results[i].ended = "analysed"
           /\ results[i].observed # {} => results[i].status = "SUCCESS"
<1>1. ResultCovers(results[i], request.jobs[i])
  BY DEF CoverInv
<1>2. Clean(results[i].statuses)
  <2>1. results[i].statuses \subseteq Evidence
    BY DEF Evidence
  <2>2. AllStates(results[i].statuses) \subseteq AllStates(Evidence)
    BY <2>1 DEF AllStates
  <2>3. AllStates(results[i].statuses) \subseteq CollectorStates
    BY <1>1 DEF ResultCovers
  <2> QED
    BY <2>2, <2>3 DEF Degraded, Clean, CollectorStates, ToolStates
<1> QED
  BY <1>1, <1>2, CleanIsSuccess DEF ResultCovers

(* A report that declares its evidence complete, or itself a success, hides   *)
(* neither a scan that was cut off nor a tool that did not run, and every      *)
(* section that a full assessment needs was answered with success            *)
(* (build_deep_scan_report over the results of _run_deep_jobs).               *)
THEOREM CompleteCorrect == Spec => []CompleteHidesNothing
<1>1. ASSUME CoverInv, report.complete \/ report.status = "SUCCESS"
      PROVE  /\ report.complete
             /\ \A i \in DOMAIN results :
                  results[i].ended = "analysed" /\ results[i].status = "SUCCESS"
             /\ \A s \in RequiredSections : Answered(results[1].heard, s, {"SUCCESS"})
             /\ request.jobs[1].platform = "linux" => "compliance" \in results[1].observed
             /\ \A t \in Tools : ToolScheduled(t) => "SUCCESS" \in StatesOf(t, Evidence)
  <2>1. report.complete /\ Complete /\ Len(results) = Len(request.jobs)
    <3>1. report.complete /\ Complete
      BY <1>1 DEF CoverInv, ReportEarned
    <3>2. report # NoReport
      BY <1>1, NoReportYet
    <3> QED
      BY <1>1, <3>1, <3>2 DEF CoverInv, ReportEarned
  <2>2. /\ RequiredSections \subseteq results[1].observed
        /\ \A i \in 2..Len(results) : "attack_surface" \in results[i].observed
        /\ Degraded = {} /\ ReadinessGaps = {}
    BY <2>1 DEF Complete
  <2>3. /\ DOMAIN results = 1..Len(results) /\ Len(results) \in Nat /\ Len(results) > 0
    <3>1. PICK S : results \in Seq(S)
      BY <1>1 DEF CoverInv, DeepInv
    <3>2. Len(request.jobs) > 0
      BY <1>1, RequestJobs DEF CoverInv, DeepInv, TypeOK
    <3> QED
      BY <2>1, <3>1, <3>2
  <2>4. ASSUME NEW i \in DOMAIN results
        PROVE  results[i].ended = "analysed" /\ results[i].status = "SUCCESS"
    <3>1. results[i].observed # {}
      <4>1. CASE i = 1
        BY <2>2, <4>1 DEF RequiredSections
      <4>2. CASE i # 1
        BY <2>2, <2>3, <4>2
      <4> QED
        BY <4>1, <4>2
    <3> QED
      BY <1>1, <2>2, <3>1, UndegradedIsClean
  <2>5. 1 \in DOMAIN results
    BY <2>3
  <2>6. ASSUME NEW s \in RequiredSections PROVE Answered(results[1].heard, s, {"SUCCESS"})
    <3>1. ResultSound(results[1]) /\ s \in results[1].observed
      BY <1>1, <2>2, <2>5 DEF CoverInv, DeepInv
    <3>2. Answered(results[1].heard, s, Accepted(s))
      BY <3>1 DEF ResultSound
    <3>3. "PARTIAL" \notin AllStates(results[1].statuses)
      <4>1. results[1].statuses \subseteq Evidence
        BY <2>5 DEF Evidence
      <4> QED
        BY <2>2, <4>1 DEF AllStates, Degraded
    <3>4. s = "vulnerabilities" =>
              \A c \in results[1].heard : c.section = s => "PARTIAL" \notin c.states
      BY <3>1, <3>3 DEF ResultSound, PartialShown
    <3> QED
      BY <3>2, <3>4 DEF Answered, Accepted, Good
  <2>7. request.jobs[1].platform = "linux" => "compliance" \in results[1].observed
    <3>1. ResultCovers(results[1], request.jobs[1]) /\ results[1].ended = "analysed"
      BY <1>1, <2>4, <2>5 DEF CoverInv
    <3>2. results[1].linux <=> request.jobs[1].platform = "linux"
      BY <3>1 DEF ResultCovers
    <3> QED
      BY <2>2, <3>2 DEF RequiredSections
  <2>8. ASSUME NEW t \in Tools, ToolScheduled(t)
        PROVE  "SUCCESS" \in StatesOf(t, Evidence)
    <3>1. Readiness(t) = "SUCCESS"
      BY <2>2, <2>8 DEF ReadinessGaps
    <3>2. Reduced(StatesOf(t, Evidence)) = "SUCCESS"
      BY <2>8, <3>1 DEF Readiness
    <3> QED
      BY <3>2, ReducedToSuccess
  <2> QED
    BY <2>1, <2>4, <2>6, <2>7, <2>8
<1>2. CoverInv => CompleteHidesNothing
  BY <1>1 DEF CompleteHidesNothing
<1> QED
  BY <1>2, CoverInvariant, PTL
=============================================================================

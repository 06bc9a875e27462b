---------------------------- MODULE DeepScanProofs ----------------------------
(***************************************************************************)
(* Proofs about DeepScan: a result is authoritative only for sections that    *)
(* some source answered and no binding source failed, and its verdict rests   *)
(* on controls that this scan delivered, for every set of jobs, settings and  *)
(* approved controls, and for every outcome of every tool.                  *)
(***************************************************************************)
EXTENDS DeepScan, SequenceTheorems, TLAPS

-----------------------------------------------------------------------------
(* What checks and queries may answer                                       *)

AnswerType == [state : ToolStates, lossy : BOOLEAN]

LEMMA AnswerIsTyped ==
    ASSUME NEW s \in ToolStates, NEW l \in BOOLEAN
    PROVE  Answer(s, l) \in AnswerType
BY DEF Answer, AnswerType

LEMMA ConcludedType ==
    ASSUME NEW contract, NEW input, NEW run \in Runs, NEW flaw
    PROVE  Concluded(contract, input, run, flaw) \in ToolStates
<1> DEFINE ends == run.end
<1>1. run.end \in {"missing", "refused", "timeout", "exited"}
  BY DEF Runs
<1>2. CASE input = "deadline"
  BY <1>2 DEF Concluded, ToolStates
<1>3. CASE input \notin {"deadline", "none"}
  BY <1>3 DEF Concluded, ToolStates
<1>4. CASE input = "none" /\ run.end = "missing"
  BY <1>4 DEF Concluded, ToolStates
<1>5. CASE input = "none" /\ run.end = "refused"
  BY <1>5 DEF Concluded, ToolStates
<1>6. CASE input = "none" /\ run.end = "timeout"
  BY <1>6 DEF Concluded, ToolStates
<1>7. CASE input = "none" /\ run.end = "exited"
  BY <1>7 DEF Concluded, ToolStates
<1> QED
  BY <1>1, <1>2, <1>3, <1>4, <1>5, <1>6, <1>7

(* A tool whose contract knows no partial output is never partial.           *)
LEMMA ConcludedWhole ==
    ASSUME NEW contract, NEW input, NEW run \in Runs, NEW flaw,
           contract.partial = {}, contract.cut # "PARTIAL"
    PROVE  Concluded(contract, input, run, flaw) # "PARTIAL"
<1>1. run.end \in {"missing", "refused", "timeout", "exited"}
  BY DEF Runs
<1>2. "PARTIAL" \notin Flaws(contract, run, flaw)
  BY DEF Flaws
<1>3. CASE input # "none"
  BY <1>3 DEF Concluded
<1>4. CASE input = "none" /\ run.end # "exited"
  BY <1>1, <1>4 DEF Concluded
<1>5. CASE input = "none" /\ run.end = "exited"
  BY <1>2, <1>5 DEF Concluded
<1> QED
  BY <1>1, <1>3, <1>4, <1>5

LEMMA CommandTyped == CommandAnswers \subseteq AnswerType
<1> SUFFICES ASSUME NEW r \in Runs, NEW f \in FlawsOf(Native)
             PROVE  LET state == Concluded(Native, "none", r, f)
                    IN  Answer(state, state = "SUCCESS" /\ f \in Native.misses) \in AnswerType
  BY DEF CommandAnswers
<1> DEFINE state == Concluded(Native, "none", r, f)
           lossy == state = "SUCCESS" /\ f \in Native.misses
<1>1. state \in ToolStates
  BY ConcludedType
<1>2. lossy \in BOOLEAN
  OBVIOUS
<1> HIDE DEF state, lossy
<1>3. Answer(state, lossy) \in AnswerType
  BY <1>1, <1>2, AnswerIsTyped
<1> QED
  BY <1>3 DEF state, lossy

LEMMA ChosenTyped ==
    ASSUME NEW a \in AnswerType, NEW b \in AnswerType
    PROVE  Chosen(<<a, b>>) \in AnswerType
<1> DEFINE attempts == <<a, b>>
           installed == {i \in DOMAIN attempts : attempts[i].state # "UNAVAILABLE"}
           good == {i \in DOMAIN attempts : attempts[i].state \in Good}
           first == CHOOSE i \in good : \A j \in good : i <= j
           last == CHOOSE i \in installed : \A j \in installed : j <= i
<1>1. DOMAIN attempts = {1, 2} /\ \A i \in {1, 2} : attempts[i] \in AnswerType
  OBVIOUS
<1>2. good \subseteq {1, 2} /\ installed \subseteq {1, 2}
  BY <1>1
<1> HIDE DEF attempts
<1>3. good # {} => first \in {1, 2}
  <2> HIDE DEF good
  <2>1. ASSUME good # {} PROVE \E i \in good : \A j \in good : i <= j
    <3>1. CASE 1 \in good
      <4>1. \A j \in good : 1 <= j
        BY <1>2
      <4> QED
        BY <3>1, <4>1
    <3>2. CASE 1 \notin good
      <4>1. good = {2}
        BY <1>2, <2>1, <3>2
      <4>2. 2 <= 2
        OBVIOUS
      <4> QED
        BY <4>1, <4>2
    <3> QED
      BY <3>1, <3>2
  <2> QED
    BY <1>2, <2>1
<1>4. installed # {} => last \in {1, 2}
  <2> HIDE DEF installed
  <2>1. ASSUME installed # {} PROVE \E i \in installed : \A j \in installed : j <= i
    <3>1. CASE 2 \in installed
      <4>1. \A j \in installed : j <= 2
        BY <1>2
      <4> QED
        BY <3>1, <4>1
    <3>2. CASE 2 \notin installed
      <4>1. installed = {1}
        BY <1>2, <2>1, <3>2
      <4>2. 1 <= 1
        OBVIOUS
      <4> QED
        BY <4>1, <4>2
    <3> QED
      BY <3>1, <3>2
  <2> QED
    BY <1>2, <2>1
<1>5. Answer("TIMEOUT", FALSE) \in AnswerType /\ Answer("UNAVAILABLE", FALSE) \in AnswerType
  BY AnswerIsTyped DEF ToolStates
<1>6. \/ good # {} /\ Chosen(attempts) = attempts[first]
      \/ Chosen(attempts) = Answer("TIMEOUT", FALSE)
      \/ installed # {} /\ Chosen(attempts) = attempts[last]
      \/ Chosen(attempts) = Answer("UNAVAILABLE", FALSE)
  BY DEF Chosen
<1>7. Chosen(attempts) \in AnswerType
  <2> HIDE DEF good, installed, first, last
  <2> QED
    BY <1>1, <1>3, <1>4, <1>5, <1>6
<1> QED
  BY <1>7 DEF attempts

LEMMA ReaderTyped ==
    ASSUME NEW reader
    PROVE  ReaderAnswers(reader) \subseteq AnswerType
<1> DEFINE sources == reader.must \cup reader.may \cup reader.each
           fates == [sources -> Fates]
           cuts == {FALSE, reader.capped}
           outcomes == {ReaderStates(reader, fate, cut) : fate \in fates, cut \in cuts}
           read == UNION outcomes
           states == {"TIMEOUT"} \cup read
<1>1. \A fate, cut : ReaderStates(reader, fate, cut) \subseteq ToolStates
  BY DEF ReaderStates, ToolStates
<1>2. states \subseteq ToolStates
  <2>1. ASSUME NEW o \in outcomes PROVE o \subseteq ToolStates
    <3> HIDE DEF fates, cuts
    <3>1. PICK fate \in fates, cut \in cuts : o = ReaderStates(reader, fate, cut)
      OBVIOUS
    <3> QED
      BY <1>1, <3>1
  <2> HIDE DEF outcomes
  <2>2. read \subseteq ToolStates
    BY <2>1
  <2> HIDE DEF read
  <2> QED
    BY <2>2 DEF ToolStates
<1> HIDE DEF states
<1>3. \A s \in states : Answer(s, FALSE) \in AnswerType /\ Answer(s, TRUE) \in AnswerType
  BY <1>2, AnswerIsTyped
<1>4. ReaderAnswers(reader) =
          {Answer(s, FALSE) : s \in states} \cup {Answer(s, TRUE) : s \in states \cap Good}
  BY DEF ReaderAnswers, states, outcomes, read
<1> QED
  BY <1>3, <1>4

Kinds == {"command", "choice", "fixed_file", "sudo", "directory", "probe", "os_release",
          "hardware", "procfs", "passwd", "net", "sockets"}

LEMMA AnswersTyped ==
    ASSUME NEW kind \in Kinds
    PROVE  Answers(kind) \subseteq AnswerType
<1>1. CASE kind = "command"
  BY <1>1, CommandTyped DEF Answers
<1>2. CASE kind = "choice"
  <2>1. Answers(kind) = {Chosen(<<a, b>>) : a, b \in CommandAnswers}
    BY <1>2 DEF Answers
  <2>2. \A a, b \in CommandAnswers : Chosen(<<a, b>>) \in AnswerType
    BY CommandTyped, ChosenTyped
  <2>3. ASSUME NEW c \in Answers(kind) PROVE c \in AnswerType
    <3>1. PICK a \in CommandAnswers, b \in CommandAnswers : c = Chosen(<<a, b>>)
      BY <2>1
    <3> QED
      BY <2>2, <3>1
  <2> QED
    BY <2>3
<1>3. CASE kind = "fixed_file"
  <2>1. \A f \in Fates : (CASE f = "read" -> "SUCCESS" [] f = "absent" -> "UNAVAILABLE"
                            [] f = "unreadable" -> "FAILED") \in ToolStates
    BY DEF Fates, ToolStates
  <2>2. FixedFileAnswers \subseteq AnswerType
    BY <2>1, AnswerIsTyped DEF FixedFileAnswers
  <2> QED
    BY <1>3, <2>2 DEF Answers
<1>4. CASE kind = "sudo"
  <2>1. SudoAnswers \subseteq AnswerType
    BY AnswerIsTyped DEF SudoAnswers, ToolStates
  <2> QED
    BY <1>4, <2>1 DEF Answers
<1>5. CASE kind = "directory"
  <2>1. DirectoryAnswers \subseteq AnswerType
    <3> DEFINE some(fate, kinds) == \E d \in DOMAIN fate : fate[d] \in kinds
               state(fate) == IF ~some(fate, {"unreadable", "overlong"}) THEN "SUCCESS"
                              ELSE IF some(fate, {"listed", "overlong"}) THEN "PARTIAL"
                              ELSE "FAILED"
    <3>1. \A fate : state(fate) \in ToolStates
      BY DEF ToolStates
    <3>2. DirectoryAnswers = {Answer("TIMEOUT", FALSE)} \cup
             {Answer(state(fate), FALSE) : fate \in [{"first", "second"} -> DirectoryFates]}
      BY DEF DirectoryAnswers
    <3> HIDE DEF state
    <3>3. \A fate : Answer(state(fate), FALSE) \in AnswerType
      BY <3>1, AnswerIsTyped
    <3>4. Answer("TIMEOUT", FALSE) \in AnswerType
      BY AnswerIsTyped DEF ToolStates
    <3> QED
      BY <3>2, <3>3, <3>4
  <2> QED
    BY <1>5, <2>1 DEF Answers
<1>6. CASE kind = "probe"
  <2>1. Answer("SUCCESS", FALSE) \in AnswerType
    BY AnswerIsTyped DEF ToolStates
  <2>2. Answers(kind) = {Answer("SUCCESS", FALSE)}
    BY <1>6 DEF Answers
  <2> QED
    BY <2>1, <2>2
<1>7. CASE kind = "os_release"
  BY <1>7, ReaderTyped DEF Answers, OsAnswers
<1>8. CASE kind = "hardware"
  BY <1>8, ReaderTyped DEF Answers, HardwareAnswers
<1>9. CASE kind = "procfs"
  BY <1>9, ReaderTyped DEF Answers, ProcessesAnswers
<1>10. CASE kind = "passwd"
  BY <1>10, ReaderTyped DEF Answers, UsersAnswers
<1>11. CASE kind = "net"
  BY <1>11, ReaderTyped DEF Answers, InterfacesAnswers
<1>12. CASE kind = "sockets"
  BY <1>12, ReaderTyped DEF Answers, PortsAnswers
<1> QED
  BY <1>1, <1>2, <1>3, <1>4, <1>5, <1>6, <1>7, <1>8, <1>9, <1>10, <1>11, <1>12 DEF Kinds

(* An osquery answer is all or nothing.                                     *)
LEMMA QueryAllOrNothing ==
    ASSUME NEW a \in QueryAnswers
    PROVE  a \in AnswerType /\ a.state # "PARTIAL"
<1>1. CASE a = Answer("SUCCESS", TRUE)
  BY <1>1 DEF Answer, AnswerType, ToolStates
<1>2. ASSUME NEW r \in InTime(OsqueryReports), a = Answer(r.state, FALSE)
      PROVE  a \in AnswerType /\ a.state # "PARTIAL"
  <2>1. r \in Reports(Osquery)
    BY <1>2 DEF InTime, OsqueryReports
  <2>2. PICK i \in Osquery.inputs \cup {"none"}, run \in Runs, f \in FlawsOf(Osquery),
             l \in BOOLEAN :
            r = [state |-> Concluded(Osquery, i, run, f), late |-> l]
    BY <2>1 DEF Reports
  <2>3. Osquery.partial = {} /\ Osquery.cut # "PARTIAL"
    BY DEF Osquery
  <2>4. r.state \in ToolStates /\ r.state # "PARTIAL"
    BY <2>2, <2>3, ConcludedType, ConcludedWhole
  <2> QED
    BY <1>2, <2>4, AnswerIsTyped DEF Answer
<1> QED
  BY <1>1, <1>2 DEF QueryAnswers

(* Checks that do not vary answer in full.                                  *)
LEMMA VaryingAnswers ==
    ASSUME NEW possible, NEW a \in Varying(possible)
    PROVE  /\ DOMAIN a = DOMAIN possible
           /\ \A c \in DOMAIN possible :
                a[c] \in possible[c] \/ a[c] = Answer("SUCCESS", FALSE)
<1> DEFINE varying == {c \in DOMAIN possible : c.name \in Varied}
           all == UNION {possible[c] : c \in varying}
<1>1. PICK v \in [varying -> all] :
        /\ \A c \in varying : v[c] \in possible[c]
        /\ a = [c \in DOMAIN possible |-> IF c \in varying THEN v[c] ELSE Answer("SUCCESS", FALSE)]
  BY DEF Varying
<1> QED
  BY <1>1

-----------------------------------------------------------------------------
(* Native collection                                                        *)

LEMMA ChecksFields ==
    ASSUME NEW category, NEW kind, NEW names, NEW c \in Checks(category, kind, names)
    PROVE  c.category = category /\ c.kind = kind /\ c.name \in names
BY DEF Checks

LEMMA ChecksKnown ==
    ASSUME NEW p \in Platforms, NEW c \in AdapterChecks(p)
    PROVE  /\ c.kind \in Kinds
           /\ c.category \in Categories
           /\ c.category = "inventory" => c \in InventoryChecks
           /\ p = "windows" => \E d \in AdapterChecks(p) :
                                  d.category = "posture" /\ d.name = "local_users"
           /\ c.category = "posture" /\ c.name = "local_users" => p = "windows"
<1> USE ChecksFields DEF Kinds, Categories
<1>1. CASE p = "linux"
  <2>1. c \in LinuxInventory => c.kind \in Kinds /\ c.category = "inventory"
    BY DEF LinuxInventory
  <2>2. c \in LinuxPosture =>
            c.kind \in Kinds /\ c.category = "posture" /\ c.name # "local_users"
    BY DEF LinuxPosture
  <2>3. c \in LinuxPatches => c.kind \in Kinds /\ c.category = "patches"
    BY DEF LinuxPatches
  <2>4. c \in LinuxPersistence => c.kind \in Kinds /\ c.category = "persistence"
    BY DEF LinuxPersistence
  <2> QED
    BY <1>1, <2>1, <2>2, <2>3, <2>4 DEF AdapterChecks, InventoryChecks
<1>2. CASE p = "windows"
  <2>1. c \in WindowsInventory => c.kind \in Kinds /\ c.category = "inventory"
    BY DEF WindowsInventory
  <2>2. c \in WindowsPosture => c.kind \in Kinds /\ c.category = "posture"
    BY DEF WindowsPosture
  <2>3. c \in WindowsPatches => c.kind \in Kinds /\ c.category = "patches"
    BY DEF WindowsPatches
  <2>4. c \in WindowsPersistence => c.kind \in Kinds /\ c.category = "persistence"
    BY DEF WindowsPersistence
  <2>5. AdapterChecks(p) = WindowsInventory \cup WindowsPosture \cup WindowsPatches
                           \cup WindowsPersistence
    BY <1>2 DEF AdapterChecks
  <2>6. [name |-> "local_users", category |-> "posture", kind |-> "command"] \in WindowsPosture
    BY DEF WindowsPosture, Checks
  <2>7. \E d \in AdapterChecks(p) : d.category = "posture" /\ d.name = "local_users"
    BY <2>5, <2>6
  <2> QED
    BY <1>2, <2>1, <2>2, <2>3, <2>4, <2>5, <2>7 DEF InventoryChecks
<1>3. CASE p = "macos"
  <2>1. c \in MacInventory => c.kind \in Kinds /\ c.category = "inventory"
    BY DEF MacInventory
  <2>2. c \in MacPosture =>
            c.kind \in Kinds /\ c.category = "posture" /\ c.name # "local_users"
    BY DEF MacPosture
  <2>3. c \in MacPatches => c.kind \in Kinds /\ c.category = "patches"
    BY DEF MacPatches
  <2>4. c \in MacPersistence => c.kind \in Kinds /\ c.category = "persistence"
    BY DEF MacPersistence
  <2> QED
    BY <1>3, <2>1, <2>2, <2>3, <2>4 DEF AdapterChecks, InventoryChecks
<1> QED
  BY <1>1, <1>2, <1>3 DEF Platforms

(* The categories each composite section needs.                             *)
LEMMA ContributorsAre ==
    ASSUME NEW p, NEW categories
    PROVE  LET c == Contributors(p, categories)
           IN  /\ DOMAIN c \subseteq {"security", "updates", "persistence", "users"}
               /\ "security" \in DOMAIN c <=> "posture" \in categories
               /\ "security" \in DOMAIN c => c["security"] = {"posture", "patches"} \cap categories
               /\ "updates" \in DOMAIN c <=> "patches" \in categories
               /\ "updates" \in DOMAIN c => c["updates"] = {"patches"}
               /\ "persistence" \in DOMAIN c <=> "persistence" \in categories
               /\ "persistence" \in DOMAIN c => c["persistence"] = {"persistence"}
               /\ "users" \in DOMAIN c <=> p = "windows" /\ "posture" \in categories
               /\ "users" \in DOMAIN c => c["users"] = {"posture"}
<1> DEFINE security == {"posture"} \cup (IF "posture" \in categories THEN {"patches"} ELSE {})
           users == IF p = "windows" THEN {"posture"} ELSE {}
           feeds == [security |-> security, updates |-> {"patches"},
                     persistence |-> {"persistence"}, users |-> users]
           fed == {s \in DOMAIN feeds : feeds[s] \cap categories # {}}
           c == Contributors(p, categories)
<1>1. /\ DOMAIN feeds = {"security", "updates", "persistence", "users"}
      /\ feeds["security"] = security /\ feeds["updates"] = {"patches"}
      /\ feeds["persistence"] = {"persistence"} /\ feeds["users"] = users
  BY DEF feeds
<1>2. c = [s \in fed |-> feeds[s] \cap categories]
  BY DEF Contributors
<1> HIDE DEF feeds, c
<1>3. DOMAIN c = fed /\ \A s \in fed : c[s] = feeds[s] \cap categories
  BY <1>2
<1>4. "security" \in fed <=> "posture" \in categories
  BY <1>1
<1>5. "updates" \in fed <=> "patches" \in categories
  BY <1>1
<1>6. "persistence" \in fed <=> "persistence" \in categories
  BY <1>1
<1>7. "users" \in fed <=> p = "windows" /\ "posture" \in categories
  BY <1>1
<1>8. fed \subseteq {"security", "updates", "persistence", "users"}
  BY <1>1
<1> HIDE DEF fed
<1> QED
  BY <1>1, <1>3, <1>4, <1>5, <1>6, <1>7, <1>8 DEF c

(* One native collection: its checks, answers and the recorded states.       *)
NativeRun(p, categories, answers, state) ==
    /\ p \in Platforms
    /\ DOMAIN answers = NativeChecks(p, categories)
    /\ \A c \in DOMAIN answers : answers[c] \in AnswerType
    /\ state = [c \in NativeChecks(p, categories) |->
                   Converted(p, c, answers[c], NativeRejected(answers))]

(* What the checks of a collection answer makes a run.                       *)
LEMMA NativeAnswers ==
    ASSUME NEW p \in Platforms, NEW categories,
           NEW answers \in Varying([c \in NativeChecks(p, categories) |-> Answers(c.kind)])
    PROVE  NativeRun(p, categories, answers,
                     [c \in NativeChecks(p, categories) |->
                         Converted(p, c, answers[c], NativeRejected(answers))])
<1> DEFINE checks == NativeChecks(p, categories)
           possible == [c \in checks |-> Answers(c.kind)]
<1>1. DOMAIN possible = checks /\ \A c \in checks : possible[c] = Answers(c.kind)
  OBVIOUS
<1>2. answers \in Varying(possible)
  OBVIOUS
<1> HIDE DEF possible
<1>3. /\ DOMAIN answers = DOMAIN possible
      /\ \A c \in DOMAIN possible :
           answers[c] \in possible[c] \/ answers[c] = Answer("SUCCESS", FALSE)
  BY <1>2, VaryingAnswers
<1>4. \A c \in checks : c.kind \in Kinds
  BY ChecksKnown DEF NativeChecks
<1>5. \A c \in checks : possible[c] \subseteq AnswerType
  BY <1>1, <1>4, AnswersTyped
<1>6. Answer("SUCCESS", FALSE) \in AnswerType
  BY AnswerIsTyped DEF ToolStates
<1>7. DOMAIN answers = checks /\ \A c \in checks : answers[c] \in AnswerType
  BY <1>1, <1>3, <1>5, <1>6
<1> QED
  BY <1>7 DEF NativeRun

LEMMA ConvertedAnswers ==
    ASSUME NEW p, NEW categories, NEW answers, NEW state,
           NativeRun(p, categories, answers, state), NEW c \in DOMAIN answers
    PROVE  /\ c \in DOMAIN state /\ c.category \in categories /\ c \in AdapterChecks(p)
           /\ state[c] = "SUCCESS" => answers[c].state = "SUCCESS"
           /\ state[c] \in {"SUCCESS", "SKIPPED"} /\ c.category # "inventory" =>
                  Heard(p, c, answers[c]) \subseteq {"SUCCESS"}
           /\ state[c] = "SKIPPED" => p = "linux"
<1>1. /\ c \in NativeChecks(p, categories) /\ answers[c] \in AnswerType
      /\ DOMAIN state = NativeChecks(p, categories)
      /\ state[c] = Converted(p, c, answers[c], NativeRejected(answers))
  BY DEF NativeRun
<1>2. answers[c].state \in ToolStates /\ answers[c].state # "SKIPPED"
  BY <1>1 DEF AnswerType, ToolStates
<1>3. \/ state[c] = "PARTIAL"
      \/ /\ state[c] = "SKIPPED" /\ p = "linux" /\ answers[c].state = "UNAVAILABLE"
         /\ c.name \in OptionalChecks
      \/ state[c] = answers[c].state
  BY <1>1 DEF Converted
<1> QED
  BY <1>1, <1>2, <1>3 DEF Heard, NativeChecks

(* A completed category was answered by all of its checks.                   *)
LEMMA CompletedAnswers ==
    ASSUME NEW p, NEW categories, NEW answers, NEW state,
           NativeRun(p, categories, answers, state), NEW k \in Completed(categories, state)
    PROVE  /\ \A c \in DOMAIN answers : c.category = k =>
                /\ k # "inventory" => Heard(p, c, answers[c]) \subseteq {"SUCCESS"}
                /\ state[c] \in {"SUCCESS", "SKIPPED"}
           /\ \E c \in DOMAIN answers : c.category = k /\ state[c] = "SUCCESS"
                                        /\ answers[c].state = "SUCCESS"
<1> DEFINE own == {state[c] : c \in {d \in DOMAIN state : d.category = k}}
<1>1. own \subseteq {"SUCCESS", "SKIPPED"} /\ "SUCCESS" \in own
  BY DEF Completed
<1>2. DOMAIN state = DOMAIN answers
  BY DEF NativeRun
<1>3. \A c \in DOMAIN answers : c.category = k => state[c] \in {"SUCCESS", "SKIPPED"}
  BY <1>1, <1>2
<1>4. \E c \in DOMAIN answers : c.category = k /\ state[c] = "SUCCESS"
  BY <1>1, <1>2
<1> QED
  BY <1>3, <1>4, ConvertedAnswers

LEMMA UsersIsSection == "users" \in Sections
<1>1. [name |-> "users", category |-> "inventory", kind |-> "passwd"] \in LinuxInventory
  BY DEF LinuxInventory, Checks
<1> QED
  BY <1>1 DEF Sections, InventorySections, InventoryChecks, InventorySection

(* A check of a category other than the inventory feeds sections that its    *)
(* category has to be complete for.                                         *)
LEMMA FeedsContribute ==
    ASSUME NEW p \in Platforms, NEW categories, NEW c \in NativeChecks(p, categories),
           c.category # "inventory", NEW s \in Feeds(p, categories, c)
    PROVE  /\ s \in DOMAIN Contributors(p, categories)
           /\ c.category \in Contributors(p, categories)[s]
           /\ s \in Sections /\ s # "vulnerabilities"
<1>1. /\ c \in AdapterChecks(p) /\ c.category \in categories
      /\ c.category \in {"posture", "patches", "persistence"}
  BY ChecksKnown DEF NativeChecks, Categories
<1>2. s \in {"security", "updates", "persistence", "users"}
  BY <1>1 DEF Feeds, Fills
<1>3. s \in Sections /\ s # "vulnerabilities"
  BY <1>2, UsersIsSection DEF Sections, CompositeSections
<1>4. CASE s = "users"
  <2>1. c.category = "posture" /\ c.name = "local_users"
    BY <1>1, <1>4 DEF Feeds, Fills
  <2>2. p = "windows"
    BY <1>1, <2>1, ChecksKnown
  <2> QED
    BY <1>1, <1>3, <1>4, <2>1, <2>2, ContributorsAre
<1>5. CASE s = "security"
  <2>1. c.category = "posture" \/ (c.category = "patches" /\ "posture" \in categories)
    BY <1>1, <1>5 DEF Feeds, Fills
  <2> QED
    BY <1>1, <1>3, <1>5, <2>1, ContributorsAre
<1>6. CASE s = "updates"
  <2>1. c.category = "patches"
    BY <1>1, <1>6 DEF Feeds, Fills
  <2> QED
    BY <1>1, <1>3, <1>6, <2>1, ContributorsAre
<1>7. CASE s = "persistence"
  <2>1. c.category = "persistence"
    BY <1>1, <1>7 DEF Feeds, Fills
  <2> QED
    BY <1>1, <1>3, <1>7, <2>1, ContributorsAre
<1> QED
  BY <1>2, <1>4, <1>5, <1>6, <1>7

LEMMA FillsAreSections ==
    ASSUME NEW p \in Platforms, NEW c \in AdapterChecks(p)
    PROVE  Fills(c) \subseteq Sections
<1>1. c.category \in Categories /\ (c.category = "inventory" => c \in InventoryChecks)
  BY ChecksKnown
<1>2. CASE c.category = "inventory"
  BY <1>1, <1>2 DEF Fills, Sections, InventorySections
<1>3. CASE c.category # "inventory"
  BY <1>1, <1>3, UsersIsSection DEF Fills, Sections, CompositeSections, Categories
<1> QED
  BY <1>2, <1>3

LEMMA InventoryIsNoScanner ==
    ASSUME NEW c \in InventoryChecks
    PROVE  InventorySection(c.name) # "vulnerabilities"
<1>1. c.name # "vulnerabilities"
  <2>1. CASE c \in LinuxInventory
    BY <2>1, ChecksFields DEF LinuxInventory
  <2>2. CASE c \in WindowsInventory
    BY <2>2, ChecksFields DEF WindowsInventory
  <2>3. CASE c \in MacInventory
    BY <2>3, ChecksFields DEF MacInventory
  <2> QED
    BY <2>1, <2>2, <2>3 DEF InventoryChecks
<1> QED
  BY <1>1 DEF InventorySection

-----------------------------------------------------------------------------
(* What native collection heard                                             *)

(* A contribution keeps its good states and has no others but FAILED.        *)
LEMMA ContributionIs ==
    ASSUME NEW section, NEW source, NEW states
    PROVE  LET new == Contribution(section, source, states)
           IN  /\ new.section = section /\ new.source = source
               /\ new.states = {} <=> states = {}
               /\ new.states \subseteq {"SUCCESS"} <=> states \subseteq {"SUCCESS"}
               /\ new.states \subseteq Good <=> states \subseteq Good
               /\ "PARTIAL" \in new.states <=> "PARTIAL" \in states
               /\ section \in Sections /\ source \in Sources /\ states # {} =>
                      new \in Contributions
<1> DEFINE kept(s) == IF s \in Good THEN s ELSE "FAILED"
           named == {kept(s) : s \in states}
<1>1. Contribution(section, source, states) =
          [section |-> section, source |-> source, states |-> named]
  BY DEF Contribution
<1>2. \A s : /\ kept(s) \in Good \cup {"FAILED"}
             /\ kept(s) = "SUCCESS" <=> s = "SUCCESS"
             /\ kept(s) = "PARTIAL" <=> s = "PARTIAL"
             /\ kept(s) \in Good <=> s \in Good
  BY DEF Good
<1> HIDE DEF kept
<1>3. \A x : x \in named <=> \E s \in states : x = kept(s)
  OBVIOUS
<1>4. \A s \in states : kept(s) \in named
  OBVIOUS
<1> HIDE DEF named
<1>5. /\ named = {} <=> states = {}
      /\ named \subseteq {"SUCCESS"} <=> states \subseteq {"SUCCESS"}
      /\ named \subseteq Good <=> states \subseteq Good
      /\ "PARTIAL" \in named <=> "PARTIAL" \in states
      /\ named \subseteq Good \cup {"FAILED"}
  BY <1>2, <1>3, <1>4
<1>6. section \in Sections /\ source \in Sources /\ states # {} =>
          [section |-> section, source |-> source, states |-> named] \in Contributions
  BY <1>5 DEF Contributions
<1> QED
  BY <1>1, <1>5, <1>6

\* The states of a category's answers for a section.
CategoryHeard(p, categories, answers, s, k) ==
    UNION {Heard(p, c, answers[c]) : c \in {d \in DOMAIN answers :
              d.category = k /\ s \in Feeds(p, categories, d)}}

LEMMA NativeHeardIs ==
    ASSUME NEW p, NEW categories, NEW answers
    PROVE  \A h : h \in NativeHeard(p, categories, answers) <=>
               /\ h.states # {}
               /\ \/ \E d \in DOMAIN answers :
                        /\ d.category = "inventory"
                        /\ h = Contribution(InventorySection(d.name), "inventory",
                                            Heard(p, d, answers[d]))
                  \/ \E s \in Sections, k \in categories \ {"inventory"} :
                        h = Contribution(s, k, CategoryHeard(p, categories, answers, s, k))
<1> DEFINE inventory == {c \in DOMAIN answers : c.category = "inventory"}
           own == {Contribution(InventorySection(d.name), "inventory",
                                Heard(p, d, answers[d])) : d \in inventory}
           shared == {Contribution(s, k, CategoryHeard(p, categories, answers, s, k)) :
                        s \in Sections, k \in categories \ {"inventory"}}
<1>1. NativeHeard(p, categories, answers) = {c \in own \cup shared : c.states # {}}
  BY DEF NativeHeard, CategoryHeard
<1>2. \A h : h \in own <=> \E d \in DOMAIN answers :
                 /\ d.category = "inventory"
                 /\ h = Contribution(InventorySection(d.name), "inventory",
                                     Heard(p, d, answers[d]))
  OBVIOUS
<1>3. \A h : h \in shared <=> \E s \in Sections, k \in categories \ {"inventory"} :
                 h = Contribution(s, k, CategoryHeard(p, categories, answers, s, k))
  OBVIOUS
<1> HIDE DEF own, shared
<1> QED
  BY <1>1, <1>2, <1>3

(* A contribution that binds is that of a category, some check of which       *)
(* answered for the section.                                                *)
LEMMA NativeHeardFrom ==
    ASSUME NEW p \in Platforms, NEW categories, NEW answers,
           DOMAIN answers = NativeChecks(p, categories),
           NEW h \in NativeHeard(p, categories, answers)
    PROVE  /\ h \in Contributions /\ h.section # "vulnerabilities"
           /\ h.source \in Binding =>
                \E c \in NativeChecks(p, categories) :
                    /\ c.category # "inventory" /\ h.section \in Feeds(p, categories, c)
                    /\ h.states \subseteq {"SUCCESS"}
                         \/ ~ Heard(p, c, answers[c]) \subseteq {"SUCCESS"}
<1>1. CASE \E d \in DOMAIN answers :
             /\ d.category = "inventory"
             /\ h = Contribution(InventorySection(d.name), "inventory", Heard(p, d, answers[d]))
  <2>1. PICK d \in DOMAIN answers :
          /\ d.category = "inventory"
          /\ h = Contribution(InventorySection(d.name), "inventory", Heard(p, d, answers[d]))
    BY <1>1
  <2>2. d \in InventoryChecks
    BY <2>1, ChecksKnown DEF NativeChecks
  <2>3. /\ InventorySection(d.name) \in Sections
        /\ InventorySection(d.name) # "vulnerabilities"
        /\ "inventory" \in Sources /\ "inventory" \notin Binding
    BY <2>2, InventoryIsNoScanner DEF Sections, InventorySections, Sources, Categories, Binding
  <2>4. h.states # {}
    BY NativeHeardIs
  <2> QED
    BY <2>1, <2>3, <2>4, ContributionIs
<1>2. CASE \E s \in Sections, k \in categories \ {"inventory"} :
             h = Contribution(s, k, CategoryHeard(p, categories, answers, s, k))
  <2>1. PICK s \in Sections, k \in categories \ {"inventory"} :
          h = Contribution(s, k, CategoryHeard(p, categories, answers, s, k))
    BY <1>2
  <2> DEFINE states == CategoryHeard(p, categories, answers, s, k)
             asked == {c \in DOMAIN answers : c.category = k /\ s \in Feeds(p, categories, c)}
  <2>2. /\ h.section = s /\ h.source = k /\ states # {}
        /\ h.states \subseteq {"SUCCESS"} <=> states \subseteq {"SUCCESS"}
        /\ s \in Sections /\ k \in Sources => h \in Contributions
    <3>1. h.states # {}
      BY NativeHeardIs
    <3> QED
      BY <2>1, <3>1, ContributionIs
  <2>3. \A x : x \in states <=> \E c \in asked : x \in Heard(p, c, answers[c])
    BY DEF CategoryHeard
  <2> HIDE DEF states
  <2>4. PICK c \in asked :
          states \subseteq {"SUCCESS"} \/ ~ Heard(p, c, answers[c]) \subseteq {"SUCCESS"}
    BY <2>2, <2>3
  <2>5. c \in NativeChecks(p, categories) /\ c.category = k /\ s \in Feeds(p, categories, c)
    BY <2>4
  <2>6. k \in Sources /\ s # "vulnerabilities"
    BY <2>5, ChecksKnown, FeedsContribute DEF Sources, NativeChecks
  <2> QED
    BY <2>2, <2>4, <2>5, <2>6
<1> QED
  BY <1>1, <1>2, NativeHeardIs

(* A contribution that binds and fell short leaves its section incomplete.    *)
LEMMA ShortIsIncomplete ==
    ASSUME NEW p, NEW categories, NEW answers, NEW state,
           NativeRun(p, categories, answers, state),
           NEW h \in NativeHeard(p, categories, answers), h.source \in Binding,
           ~ h.states \subseteq {"SUCCESS"}
    PROVE  h.section \in NativeIncomplete(p, categories, state)
<1>1. p \in Platforms /\ DOMAIN answers = NativeChecks(p, categories)
  BY DEF NativeRun
<1>2. PICK c \in NativeChecks(p, categories) :
        /\ c.category # "inventory" /\ h.section \in Feeds(p, categories, c)
        /\ ~ Heard(p, c, answers[c]) \subseteq {"SUCCESS"}
  BY <1>1, NativeHeardFrom
<1>3. c.category \notin Completed(categories, state)
  BY <1>1, <1>2, CompletedAnswers
<1>4. /\ h.section \in DOMAIN Contributors(p, categories)
      /\ c.category \in Contributors(p, categories)[h.section]
  BY <1>1, <1>2, FeedsContribute
<1> QED
  BY <1>3, <1>4 DEF NativeIncomplete

\* A section is backed by a source that answered it with success.
Backed(s, h) == \E c \in h : c.section = s /\ c.states \subseteq {"SUCCESS"}

(* A composite section whose categories are complete is backed by one.       *)
LEMMA CompositeBacked ==
    ASSUME NEW p, NEW categories, NEW answers, NEW state,
           NativeRun(p, categories, answers, state),
           NEW s \in DOMAIN Contributors(p, categories),
           Contributors(p, categories)[s] \subseteq Completed(categories, state)
    PROVE  s \in Sections /\ Backed(s, NativeHeard(p, categories, answers))
<1> DEFINE done == Completed(categories, state)
<1>1. s \in {"security", "updates", "persistence", "users"}
  BY ContributorsAre
<1>2. s \in Sections
  BY <1>1, UsersIsSection DEF Sections, CompositeSections
<1>3. \E c \in DOMAIN answers :
          /\ s \in Feeds(p, categories, c) /\ answers[c].state = "SUCCESS"
          /\ c.category \in done /\ c.category # "inventory"
  <2>1. CASE s = "security"
    <3>1. "posture" \in done
      BY <2>1, ContributorsAre
    <3>2. PICK c \in DOMAIN answers : c.category = "posture" /\ answers[c].state = "SUCCESS"
      BY <3>1, CompletedAnswers
    <3> QED
      BY <2>1, <3>1, <3>2 DEF Feeds, Fills
  <2>2. CASE s = "updates"
    <3>1. "patches" \in done
      BY <2>2, ContributorsAre
    <3>2. PICK c \in DOMAIN answers : c.category = "patches" /\ answers[c].state = "SUCCESS"
      BY <3>1, CompletedAnswers
    <3> QED
      BY <2>2, <3>1, <3>2 DEF Feeds, Fills
  <2>3. CASE s = "persistence"
    <3>1. "persistence" \in done
      BY <2>3, ContributorsAre
    <3>2. PICK c \in DOMAIN answers : c.category = "persistence" /\ answers[c].state = "SUCCESS"
      BY <3>1, CompletedAnswers
    <3> QED
      BY <2>3, <3>1, <3>2 DEF Feeds, Fills
  <2>4. CASE s = "users"
    <3>1. p = "windows" /\ "posture" \in done /\ "posture" \in categories /\ p \in Platforms
      BY <2>4, ContributorsAre DEF NativeRun
    <3>2. PICK d \in DOMAIN answers : d.category = "posture"
      BY <3>1, CompletedAnswers
    <3>3. d \in AdapterChecks(p)
      BY ConvertedAnswers
    <3>4. PICK c \in AdapterChecks(p) : c.category = "posture" /\ c.name = "local_users"
      BY <3>1, <3>3, ChecksKnown
    <3>5. c \in DOMAIN answers
      BY <3>1, <3>4 DEF NativeRun, NativeChecks
    <3>6. answers[c].state = "SUCCESS"
      BY <3>1, <3>4, <3>5, CompletedAnswers, ConvertedAnswers
    <3> QED
      BY <2>4, <3>1, <3>4, <3>5, <3>6 DEF Feeds, Fills
  <2> QED
    BY <1>1, <2>1, <2>2, <2>3, <2>4
<1>4. PICK c \in DOMAIN answers :
        /\ s \in Feeds(p, categories, c) /\ answers[c].state = "SUCCESS"
        /\ c.category \in done /\ c.category # "inventory"
  BY <1>3
<1> DEFINE k == c.category
           states == CategoryHeard(p, categories, answers, s, k)
<1>5. "SUCCESS" \in states
  <2>1. Heard(p, c, answers[c]) = {"SUCCESS"}
    BY <1>4 DEF Heard
  <2> QED
    BY <1>4, <2>1 DEF CategoryHeard
<1>6. states \subseteq {"SUCCESS"}
  <2>1. \A d \in DOMAIN answers : d.category = k => Heard(p, d, answers[d]) \subseteq {"SUCCESS"}
    BY <1>4, CompletedAnswers
  <2> QED
    BY <2>1 DEF CategoryHeard
<1>7. k \in categories \ {"inventory"}
  BY <1>4 DEF Completed
<1> DEFINE own == Contribution(s, k, states)
<1>8. own.section = s /\ own.states # {} /\ own.states \subseteq {"SUCCESS"}
  <2>1. own.section = s
    BY ContributionIs
  <2>2. own.states # {}
    BY <1>5, ContributionIs
  <2>3. own.states \subseteq {"SUCCESS"}
    BY <1>6, ContributionIs
  <2> QED
    BY <2>1, <2>2, <2>3
<1>9. own \in NativeHeard(p, categories, answers)
  BY <1>2, <1>7, <1>8, NativeHeardIs
<1> HIDE DEF own
<1> QED
  BY <1>2, <1>8, <1>9 DEF Backed

(* What native collection declares observed is backed by what it heard.      *)
LEMMA NativeObservedBacked ==
    ASSUME NEW p, NEW categories, NEW answers, NEW state,
           NativeRun(p, categories, answers, state),
           NEW s \in NativeObserved(p, categories, answers, state)
    PROVE  s \in Sections /\ Backed(s, NativeHeard(p, categories, answers))
<1> DEFINE needs == Contributors(p, categories)
           inventory == {t \in NativePresent(answers) \ NativeRejected(answers) :
               \E c \in DOMAIN answers : /\ c.category = "inventory" /\ t = InventorySection(c.name)
                                         /\ state[c] = "SUCCESS"}
           composite == {t \in NativePresent(answers) \cap DOMAIN needs :
                            needs[t] \subseteq Completed(categories, state)}
<1>1. s \in inventory \/ s \in composite
  BY DEF NativeObserved
<1>2. CASE s \in inventory
  <2>1. s \notin NativeRejected(answers)
    BY <1>2
  <2>2. PICK c \in DOMAIN answers : /\ c.category = "inventory" /\ s = InventorySection(c.name)
                                    /\ state[c] = "SUCCESS"
    BY <1>2
  <2>3. answers[c].state = "SUCCESS" /\ c \in AdapterChecks(p) /\ p \in Platforms
    BY <2>2, ConvertedAnswers DEF NativeRun
  <2>4. s \in Sections
    BY <2>2, <2>3, ChecksKnown DEF Sections, InventorySections
  <2>5. ~answers[c].lossy
    BY <2>1, <2>2, <2>3 DEF NativeRejected, Good
  <2>6. Heard(p, c, answers[c]) = {"SUCCESS"}
    BY <2>3, <2>5 DEF Heard
  <2> DEFINE h == Contribution(s, "inventory", Heard(p, c, answers[c]))
  <2>7. h.section = s /\ h.states # {} /\ h.states \subseteq {"SUCCESS"}
    BY <2>6, ContributionIs
  <2>8. h \in NativeHeard(p, categories, answers)
    BY <2>2, <2>7, NativeHeardIs
  <2> QED
    BY <2>4, <2>7, <2>8 DEF Backed
<1>3. CASE s \in composite
  BY <1>3, CompositeBacked
<1> QED
  BY <1>1, <1>2, <1>3

-----------------------------------------------------------------------------
(* The bundle                                                               *)

\* What is observed was answered by some source.
ObservedSound(o, h) ==
    \A s \in o : \E c \in h : c.section = s /\ c.states \subseteq Accepted(s)

\* A binding source that fell short leaves its section incomplete.
IncompleteSound(i, h) ==
    \A c \in h : c.source \in Binding /\ ~ c.states \subseteq Accepted(c.section) => c.section \in i

\* A partial report on vulnerabilities shows in the collectors' states.
PartialShown(named, h) ==
    \A c \in h : c.section = "vulnerabilities" /\ "PARTIAL" \in c.states =>
                     "PARTIAL" \in AllStates(named)

\* The known controls of a posture were delivered.
Delivered(p, t) == \A f \in Fields : p[f] # "unknown" => <<f, p[f]>> \in t

(* Observed sections were answered, those that a binding source failed are    *)
(* incomplete, and no longer observed once the bundle is merged; what is known *)
(* of the posture was delivered.                                            *)
BundleSound ==
    /\ observed \subseteq Sections /\ incomplete \subseteq Sections
    /\ statuses \subseteq Tools \X CollectorStates /\ posture \in Postures
    /\ heard \subseteq Contributions /\ told \subseteq Fields \X {"on", "off"}
    /\ dropped \subseteq Sections
    /\ ObservedSound(observed, heard) /\ IncompleteSound(incomplete, heard)
    /\ PartialShown(statuses, heard)
    /\ Delivered(posture, told)
    /\ stage = "collected" => observed \cap incomplete = {}
    /\ stage \in {"attack", "raised", "ended"} => observed = {} /\ incomplete = {}

AllStages == Stages \cup Ends \cup {"ended"}

LEMMA ReportTyped ==
    ASSUME statuses \subseteq Tools \X CollectorStates, NEW tool \in Tools,
           NEW states, states \subseteq CollectorStates
    PROVE  /\ Report(tool, states) \subseteq Tools \X CollectorStates
           /\ statuses \subseteq Report(tool, states)
           /\ states \subseteq AllStates(Report(tool, states))
<1>1. ASSUME NEW s \in states PROVE s \in AllStates(Report(tool, states))
  <2>1. <<tool, s>> \in Report(tool, states) /\ <<tool, s>>[2] = s
    BY DEF Report
  <2> QED
    BY <2>1 DEF AllStates
<1> QED
  BY <1>1 DEF Report

LEMMA MoreShown ==
    ASSUME NEW named, NEW more, named \subseteq more
    PROVE  AllStates(named) \subseteq AllStates(more)
BY DEF AllStates

LEMMA BlankSound ==
    ASSUME ResetBundle
    PROVE  BundleSound'
<1>1. NoPosture \in Postures /\ \A f \in Fields : NoPosture[f] = "unknown"
  BY DEF NoPosture, Postures
<1> QED
  BY <1>1 DEF ResetBundle, BundleSound, ObservedSound, IncompleteSound, PartialShown, Delivered

(* One source contributes to a section.                                      *)
LEMMA ContributionSound ==
    ASSUME BundleSound, NEW section \in Sections, NEW source \in Sources, NEW states,
           states # {}, NEW new, NEW gaps,
           new \subseteq {section}, gaps \subseteq {section},
           new # {} => states \subseteq {"SUCCESS"}
                         \/ (section = "vulnerabilities" /\ states \subseteq Good),
           source \in Binding /\ ~ states \subseteq {"SUCCESS"} =>
               section \in gaps \/ (section = "vulnerabilities" /\ states \subseteq Good),
           observed' = observed \cup new, incomplete' = incomplete \cup gaps,
           heard' = heard \cup {Contribution(section, source, states)},
           statuses \subseteq statuses',
           section = "vulnerabilities" /\ "PARTIAL" \in states => "PARTIAL" \in AllStates(statuses')
    PROVE  /\ observed' \subseteq Sections /\ incomplete' \subseteq Sections
           /\ heard' \subseteq Contributions
           /\ ObservedSound(observed, heard)' /\ IncompleteSound(incomplete, heard)'
           /\ PartialShown(statuses, heard)'
<1> DEFINE c == Contribution(section, source, states)
<1>1. /\ c.section = section /\ c.source = source /\ c \in Contributions
      /\ c.states \subseteq {"SUCCESS"} <=> states \subseteq {"SUCCESS"}
      /\ c.states \subseteq Good <=> states \subseteq Good
      /\ "PARTIAL" \in c.states <=> "PARTIAL" \in states
  BY ContributionIs
<1>2. heard' = heard \cup {c}
  OBVIOUS
<1> HIDE DEF c
<1>3. c.states \subseteq {"SUCCESS"} => c.states \subseteq Accepted(section)
  BY DEF Accepted, Good
<1>4. ObservedSound(observed', heard')
  BY <1>1, <1>2, <1>3 DEF ObservedSound, BundleSound, Accepted
<1>5. IncompleteSound(incomplete', heard')
  BY <1>1, <1>2, <1>3 DEF IncompleteSound, BundleSound, Accepted
<1>6. PartialShown(statuses', heard')
  BY <1>1, <1>2, MoreShown DEF PartialShown, BundleSound
<1> QED
  BY <1>1, <1>2, <1>4, <1>5, <1>6 DEF BundleSound

(* A source's controls are merged into the posture.                          *)
LEMMA ToldSound ==
    ASSUME BundleSound, NEW controls, Told(controls)
    PROVE  /\ posture' \in Postures /\ told' \subseteq Fields \X {"on", "off"}
           /\ Delivered(posture', told')
<1>1. PICK seen \in Seen(controls) :
        posture' = Merged(posture, seen) /\ told' = told \cup Values(seen)
  BY DEF Told
<1>2. seen \in Postures /\ posture \in Postures
  BY DEF Seen, BundleSound
<1>3. posture' \in Postures
  BY <1>1, <1>2 DEF Merged, Postures
<1>4. \A f \in Fields : seen[f] # "unknown" =>
          /\ <<f, seen[f]>> \in Values(seen) /\ seen[f] \in {"on", "off"}
  BY <1>2 DEF Values, Postures
<1>5. Values(seen) \subseteq Fields \X {"on", "off"}
  BY <1>4 DEF Values
<1>6. ASSUME NEW f \in Fields, posture'[f] # "unknown" PROVE <<f, posture'[f]>> \in told'
  <2>1. posture'[f] = IF seen[f] = "unknown" THEN posture[f] ELSE seen[f]
    BY <1>1 DEF Merged
  <2> QED
    BY <1>1, <1>4, <1>6, <2>1 DEF BundleSound, Delivered
<1> QED
  BY <1>1, <1>3, <1>5, <1>6 DEF Delivered, BundleSound

(* The states of a tool whose sections are added as they are.                *)
LEMMA StatesAdded ==
    ASSUME BundleSound, NEW tool \in Tools, NEW states, states \subseteq CollectorStates,
           statuses' = Report(tool, states) \/ statuses' = statuses,
           UNCHANGED <<observed, incomplete, posture, heard, told, dropped>>,
           stage' \notin {"collected", "attack", "raised", "ended"}
    PROVE  BundleSound'
<1>1. statuses \subseteq Tools \X CollectorStates
  BY DEF BundleSound
<1>2. statuses' \subseteq Tools \X CollectorStates /\ statuses \subseteq statuses'
  BY <1>1, ReportTyped
<1>3. PartialShown(statuses', heard')
  BY <1>2, MoreShown DEF BundleSound, PartialShown
<1> QED
  BY <1>2, <1>3 DEF BundleSound

LEMMA NativeStageSound ==
    ASSUME TypeOK, BundleSound, NativeStage
    PROVE  BundleSound'
<1> DEFINE categories == NativeCategories(job)
           checks == NativeChecks(job.platform, categories)
<1>1. stage' = "osquery" /\ job.platform \in Platforms
  BY CollectionAssumption DEF NativeStage, TypeOK, IsJob
<1>2. CASE categories = {}
  <2>1. UNCHANGED bundle
    BY <1>2 DEF NativeStage
  <2> QED
    BY <1>1, <2>1 DEF bundle, BundleSound
<1>3. CASE categories # {}
  <2>1. PICK answers \in Varying([c \in checks |-> Answers(c.kind)]) :
          LET rejected == NativeRejected(answers)
              state == [c \in checks |-> Converted(job.platform, c, answers[c], rejected)]
          IN  /\ Told(NativeControls(job.platform, answers))
              /\ observed' = observed
                     \cup NativeObserved(job.platform, categories, answers, state)
              /\ incomplete' = incomplete
                     \cup NativeIncomplete(job.platform, categories, state)
              /\ statuses' = Report("native", {state[c] : c \in checks})
              /\ heard' = heard \cup NativeHeard(job.platform, categories, answers)
              /\ dropped' = dropped \cup NativeDropped(answers)
    BY <1>3 DEF NativeStage
  <2> DEFINE rejected == NativeRejected(answers)
             state == [c \in checks |-> Converted(job.platform, c, answers[c], rejected)]
             states == {state[c] : c \in checks}
             new == NativeObserved(job.platform, categories, answers, state)
             gaps == NativeIncomplete(job.platform, categories, state)
             more == NativeHeard(job.platform, categories, answers)
             rows == NativeDropped(answers)
  <2>2. /\ Told(NativeControls(job.platform, answers))
        /\ observed' = observed \cup new /\ incomplete' = incomplete \cup gaps
        /\ statuses' = Report("native", states)
        /\ heard' = heard \cup more /\ dropped' = dropped \cup rows
    BY <2>1
  <2>3. NativeRun(job.platform, categories, answers, state)
    BY <1>1, NativeAnswers
  <2>4. DOMAIN answers = checks /\ \A c \in checks : answers[c] \in AnswerType
    BY <2>3 DEF NativeRun
  <2>5. states \subseteq CollectorStates
    <3>1. \A c \in checks : Converted(job.platform, c, answers[c], rejected) \in CollectorStates
      <4>1. \A c \in checks : answers[c].state \in ToolStates
        BY <2>4 DEF AnswerType
      <4> QED
        BY <4>1 DEF Converted, CollectorStates, ToolStates
    <3> QED
      BY <3>1
  <2>6. rows \subseteq Sections
    <3>1. \A c \in DOMAIN answers : Fills(c) \subseteq Sections
      BY <1>1, <2>3, ConvertedAnswers, FillsAreSections
    <3> QED
      BY <3>1 DEF NativeDropped
  <2>7. /\ \A s \in new : s \in Sections /\ Backed(s, more)
        /\ \A c \in more : c.source \in Binding /\ ~ c.states \subseteq {"SUCCESS"} =>
               c.section \in gaps
        /\ \A c \in more : c \in Contributions /\ c.section # "vulnerabilities"
    <3>1. \A c \in more : c \in Contributions /\ c.section # "vulnerabilities"
      BY <1>1, <2>4, NativeHeardFrom
    <3> QED
      BY <2>3, <3>1, NativeObservedBacked, ShortIsIncomplete
  <2>8. gaps \subseteq Sections
    <3>1. gaps \subseteq DOMAIN Contributors(job.platform, categories)
      BY DEF NativeIncomplete
    <3> QED
      BY <3>1, ContributorsAre, UsersIsSection DEF Sections, CompositeSections
  <2> HIDE DEF states, new, gaps, more, rows
  <2>9. \A c \in more : c.states \subseteq {"SUCCESS"} => c.states \subseteq Accepted(c.section)
    BY DEF Accepted, Good
  <2>10. /\ posture' \in Postures /\ told' \subseteq Fields \X {"on", "off"}
         /\ Delivered(posture', told')
    BY <2>2, ToldSound
  <2>11. statuses' \subseteq Tools \X CollectorStates /\ statuses \subseteq statuses'
    BY <2>2, <2>5, ReportTyped DEF BundleSound, Tools
  <2>12. /\ observed' \subseteq Sections /\ incomplete' \subseteq Sections
         /\ heard' \subseteq Contributions /\ dropped' \subseteq Sections
    BY <2>2, <2>6, <2>7, <2>8 DEF BundleSound
  <2>13. ObservedSound(observed', heard')
    BY <2>2, <2>7, <2>9 DEF BundleSound, ObservedSound, Backed
  <2>14. IncompleteSound(incomplete', heard')
    BY <2>2, <2>7, <2>9 DEF BundleSound, IncompleteSound
  <2>15. PartialShown(statuses', heard')
    BY <2>2, <2>7, <2>11, MoreShown DEF BundleSound, PartialShown
  <2> QED
    BY <1>1, <2>10, <2>11, <2>12, <2>13, <2>14, <2>15 DEF BundleSound
<1> QED
  BY <1>2, <1>3

LEMMA NativeRaisesSound ==
    ASSUME TypeOK, BundleSound, NativeRaises
    PROVE  BundleSound'
<1> DEFINE categories == NativeCategories(job)
           checks == NativeChecks(job.platform, categories)
           answers == [c \in checks |-> Answer("FAILED", FALSE)]
           more == NativeHeard(job.platform, categories, answers)
           lost == (IF categories \cap {"posture", "patches"} # {} THEN {"security"} ELSE {})
                   \cup (IF "posture" \in categories THEN {"users"} ELSE {})
                   \cup (IF "patches" \in categories THEN {"updates"} ELSE {})
                   \cup (IF "persistence" \in categories THEN {"persistence"} ELSE {})
<1>1. /\ stage' = "osquery" /\ incomplete' = incomplete \cup lost
      /\ heard' = heard \cup more
      /\ statuses' = Report("native", {"FAILED"})
      /\ UNCHANGED <<observed, posture, told, dropped>>
  BY DEF NativeRaises, postureVars
<1>2. job.platform \in Platforms /\ DOMAIN answers = checks
  BY CollectionAssumption DEF TypeOK, IsJob
<1>3. lost \subseteq Sections /\ DOMAIN Contributors(job.platform, categories) \subseteq lost
  <2>1. lost \subseteq Sections
    BY UsersIsSection DEF Sections, CompositeSections
  <2>2. ASSUME NEW s \in DOMAIN Contributors(job.platform, categories) PROVE s \in lost
    BY ContributorsAre
  <2> QED
    BY <2>1, <2>2
<1> HIDE DEF answers
<1>4. ASSUME NEW c \in more
      PROVE  /\ c \in Contributions /\ c.section # "vulnerabilities"
             /\ c.source \in Binding => c.section \in lost
  <2>1. /\ c \in Contributions /\ c.section # "vulnerabilities"
        /\ c.source \in Binding => \E d \in checks :
               d.category # "inventory" /\ c.section \in Feeds(job.platform, categories, d)
    BY <1>2, <1>4, NativeHeardFrom
  <2>2. c.source \in Binding => c.section \in DOMAIN Contributors(job.platform, categories)
    BY <1>2, <2>1, FeedsContribute
  <2> QED
    BY <1>3, <2>1, <2>2
<1> HIDE DEF lost, more
<1>5. statuses' \subseteq Tools \X CollectorStates /\ statuses \subseteq statuses'
  BY <1>1, ReportTyped DEF BundleSound, Tools, CollectorStates, ToolStates
<1>6. ObservedSound(observed', heard')
  BY <1>1 DEF BundleSound, ObservedSound
<1>7. IncompleteSound(incomplete', heard')
  BY <1>1, <1>4 DEF BundleSound, IncompleteSound
<1>8. PartialShown(statuses', heard')
  BY <1>1, <1>4, <1>5, MoreShown DEF BundleSound, PartialShown
<1> QED
  BY <1>1, <1>3, <1>4, <1>5, <1>6, <1>7, <1>8 DEF BundleSound

(* A section that osquery delivers without dropping a row is backed by it.    *)
LEMMA OsqueryStageSound ==
    ASSUME TypeOK, BundleSound, OsqueryStage
    PROVE  BundleSound'
<1> DEFINE records == {[name |-> n] : n \in SelectedQueries}
<1>1. PICK named \in Varying([q \in records |-> QueryAnswers]) :
        LET answers == [n \in SelectedQueries |-> named[[name |-> n]]]
            states == {answers[n].state : n \in SelectedQueries}
            present == OsqueryPresent(answers)
            rejected == OsqueryRejected(answers)
        IN  /\ Told({f \in {"secure_boot_enabled"} : "security" \in present})
            /\ observed' = observed \cup (present \ rejected)
            /\ statuses' = Report("osquery", states \cup {Aggregate(states, rejected)})
            /\ heard' = heard \cup OsqueryHeard(answers)
            /\ dropped' = dropped \ (present \ rejected)
  BY DEF OsqueryStage
<1> DEFINE answers == [n \in SelectedQueries |-> named[[name |-> n]]]
           states == {answers[n].state : n \in SelectedQueries}
           present == OsqueryPresent(answers)
           rejected == OsqueryRejected(answers)
           more == OsqueryHeard(answers)
           asked(s) == QueriesOf(s) \cap SelectedQueries
           told_of(s) == {IF answers[q].lossy THEN "PARTIAL" ELSE answers[q].state : q \in asked(s)}
<1>2. /\ Told({f \in {"secure_boot_enabled"} : "security" \in present})
      /\ observed' = observed \cup (present \ rejected)
      /\ statuses' = Report("osquery", states \cup {Aggregate(states, rejected)})
      /\ heard' = heard \cup more
      /\ dropped' = dropped \ (present \ rejected)
      /\ stage' = "openscap" /\ UNCHANGED incomplete
  BY <1>1 DEF OsqueryStage
<1>3. \A n \in SelectedQueries : answers[n] \in AnswerType /\ answers[n].state # "PARTIAL"
  <2> SUFFICES ASSUME NEW n \in SelectedQueries
               PROVE  answers[n] \in AnswerType /\ answers[n].state # "PARTIAL"
    OBVIOUS
  <2> DEFINE possible == [q \in records |-> QueryAnswers]
  <2>1. [name |-> n] \in records /\ DOMAIN possible = records
        /\ possible[[name |-> n]] = QueryAnswers
    OBVIOUS
  <2>2. named \in Varying(possible)
    OBVIOUS
  <2> HIDE DEF records, possible
  <2>3. named[[name |-> n]] \in QueryAnswers \/ named[[name |-> n]] = Answer("SUCCESS", FALSE)
    BY <2>1, <2>2, VaryingAnswers
  <2>4. Answer("SUCCESS", FALSE) \in AnswerType /\ Answer("SUCCESS", FALSE).state # "PARTIAL"
    BY DEF Answer, AnswerType, ToolStates
  <2> QED
    BY <2>3, <2>4, QueryAllOrNothing
<1>4. DOMAIN answers = SelectedQueries
  OBVIOUS
<1> HIDE DEF answers
<1>5. states \subseteq ToolStates
  BY <1>3 DEF AnswerType
<1>6. Aggregate(states, rejected) \in ToolStates
  <2> HIDE DEF states, rejected
  <2> QED
    BY DEF Aggregate, ToolStates
<1>7. more = {Contribution(s, "osquery", told_of(s)) : s \in {t \in Sections : asked(t) # {}}}
  BY <1>4 DEF OsqueryHeard
<1>8. ASSUME NEW c \in more
      PROVE  c \in Contributions /\ c.source \notin Binding /\ c.section # "vulnerabilities"
  <2>1. PICK s \in Sections : asked(s) # {} /\ c = Contribution(s, "osquery", told_of(s))
    BY <1>7
  <2>2. told_of(s) # {}
    BY <2>1
  <2>3. s # "vulnerabilities"
    BY <2>1 DEF QueriesOf
  <2>4. "osquery" \in Sources /\ "osquery" \notin Binding
    BY DEF Sources, Tools, Binding
  <2> HIDE DEF told_of, asked
  <2> QED
    BY <2>1, <2>2, <2>3, <2>4, ContributionIs
<1>9. ASSUME NEW s \in present, s \notin rejected
      PROVE  s \in Sections /\ Backed(s, more)
  <2>1. s \in Sections /\ asked(s) # {} /\ \A q \in asked(s) : answers[q].state \in Good
    BY <1>4 DEF OsqueryPresent
  <2>2. s \in Together(s)
    BY DEF Together
  <2>3. \A q \in asked(s) : ~answers[q].lossy
    BY <1>4, <1>9, <2>2 DEF OsqueryRejected
  <2>4. \A q \in asked(s) : answers[q].state = "SUCCESS"
    BY <1>3, <2>1 DEF Good
  <2>5. told_of(s) \subseteq {"SUCCESS"}
    BY <2>3, <2>4
  <2>6. Contribution(s, "osquery", told_of(s)) \in more
    BY <1>7, <2>1
  <2> HIDE DEF told_of, more
  <2> QED
    BY <2>1, <2>5, <2>6, ContributionIs DEF Backed
<1> HIDE DEF states, present, rejected, more
<1>10. /\ posture' \in Postures /\ told' \subseteq Fields \X {"on", "off"}
       /\ Delivered(posture', told')
  BY <1>2, ToldSound
<1>11. statuses' \subseteq Tools \X CollectorStates /\ statuses \subseteq statuses'
  <2>1. states \cup {Aggregate(states, rejected)} \subseteq CollectorStates
    BY <1>5, <1>6 DEF CollectorStates
  <2> QED
    BY <1>2, <2>1, ReportTyped DEF BundleSound, Tools
<1>12. /\ observed' \subseteq Sections /\ dropped' \subseteq Sections
       /\ heard' \subseteq Contributions
  BY <1>2, <1>8, <1>9 DEF BundleSound
<1>13. ObservedSound(observed', heard')
  <2>1. \A s, states_ : states_ \subseteq {"SUCCESS"} => states_ \subseteq Accepted(s)
    BY DEF Accepted, Good
  <2> QED
    BY <1>2, <1>9, <2>1 DEF BundleSound, ObservedSound, Backed
<1>14. IncompleteSound(incomplete', heard')
  BY <1>2, <1>8 DEF BundleSound, IncompleteSound
<1>15. PartialShown(statuses', heard')
  <2>1. AllStates(statuses) \subseteq AllStates(statuses')
    BY <1>11, MoreShown
  <2>2. heard' = heard \cup more /\ PartialShown(statuses, heard)
    BY <1>2 DEF BundleSound
  <2> QED
    BY <1>8, <2>1, <2>2 DEF PartialShown
<1>16. stage' = "openscap" /\ incomplete' \subseteq Sections
  BY <1>2 DEF BundleSound
<1> QED
  BY <1>10, <1>11, <1>12, <1>13, <1>14, <1>15, <1>16 DEF BundleSound

(* A report's state, for each tool.                                         *)
LEMMA ReportsTyped ==
    ASSUME NEW contract, NEW r \in Reports(contract)
    PROVE  /\ r.state \in ToolStates
           /\ contract.partial = {} /\ contract.cut # "PARTIAL" => r.state # "PARTIAL"
<1>1. PICK i \in contract.inputs \cup {"none"}, run \in Runs, f \in FlawsOf(contract),
           l \in BOOLEAN : r = [state |-> Concluded(contract, i, run, f), late |-> l]
  BY DEF Reports
<1> QED
  BY <1>1, ConcludedType, ConcludedWhole

LEMMA OpenScapStageSound ==
    ASSUME BundleSound, OpenScapStage
    PROVE  BundleSound'
<1>1. /\ stage' = "osv" /\ UNCHANGED <<posture, told, dropped>> /\ "compliance" \in Sections
      /\ "openscap" \in Tools /\ "openscap" \in Sources /\ "openscap" \notin Binding
  BY DEF OpenScapStage, Sections, Tools, Sources, Binding, postureVars
<1>2. ASSUME NEW r \in InTime(OpenScapReports), NEW version \in Versions,
             statuses' = Report("openscap", {r.state} \cup version),
             observed' = observed \cup (IF r.state \in Good THEN {"compliance"} ELSE {}),
             heard' = heard \cup {Contribution("compliance", "openscap", {r.state})},
             UNCHANGED incomplete
      PROVE  BundleSound'
  <2>1. r.state \in ToolStates /\ r.state # "PARTIAL"
    BY ReportsTyped DEF InTime, OpenScapReports, OpenScap
  <2>2. {r.state} \cup version \subseteq CollectorStates
    BY <2>1 DEF Versions, CollectorStates, ToolStates
  <2>3. statuses' \subseteq Tools \X CollectorStates /\ statuses \subseteq statuses'
    BY <1>1, <1>2, <2>2, ReportTyped DEF BundleSound
  <2> DEFINE new == IF r.state \in Good THEN {"compliance"} ELSE {}
  <2>4. /\ new \subseteq {"compliance"} /\ (new # {} => {r.state} \subseteq {"SUCCESS"})
        /\ observed' = observed \cup new /\ incomplete' = incomplete \cup {}
    BY <1>2, <2>1 DEF Good
  <2> HIDE DEF new
  <2>5. /\ observed' \subseteq Sections /\ incomplete' \subseteq Sections
        /\ heard' \subseteq Contributions
        /\ ObservedSound(observed, heard)' /\ IncompleteSound(incomplete, heard)'
        /\ PartialShown(statuses, heard)'
    BY <1>1, <1>2, <2>3, <2>4, ContributionSound
  <2> QED
    BY <1>1, <2>3, <2>5 DEF BundleSound
<1>3. ASSUME statuses' = Report("openscap", {"FAILED"}),
             incomplete' = incomplete \cup {"compliance"},
             heard' = heard \cup {Contribution("compliance", "openscap", {"FAILED"})},
             UNCHANGED observed
      PROVE  BundleSound'
  <2>1. statuses' \subseteq Tools \X CollectorStates /\ statuses \subseteq statuses'
    BY <1>1, <1>3, ReportTyped DEF BundleSound, CollectorStates, ToolStates
  <2>2. observed' = observed \cup {} /\ {} \subseteq {"compliance"} /\ {"FAILED"} # {}
    BY <1>3
  <2>3. /\ observed' \subseteq Sections /\ incomplete' \subseteq Sections
        /\ heard' \subseteq Contributions
        /\ ObservedSound(observed, heard)' /\ IncompleteSound(incomplete, heard)'
        /\ PartialShown(statuses, heard)'
    BY <1>1, <1>3, <2>1, <2>2, ContributionSound
  <2> QED
    BY <1>1, <2>1, <2>3 DEF BundleSound
<1> QED
  BY <1>2, <1>3 DEF OpenScapStage

LEMMA VulnerabilitiesSound ==
    ASSUME BundleSound, NEW tool \in Tools, NEW requests, requests # {}, NEW contract,
           NEW skipped, skipped \subseteq CollectorStates,
           Vulnerabilities(tool, requests, Reports(contract), skipped),
           UNCHANGED <<posture, told, dropped>>,
           stage' \notin {"collected", "attack", "raised", "ended"}
    PROVE  BundleSound'
<1>1. PICK reports \in [requests -> InTime(Reports(contract))], merged \in BOOLEAN,
           version \in Versions :
        LET states == {reports[q].state : q \in requests}
            good == merged /\ states \subseteq Good
        IN  /\ statuses' = Report(tool, states \cup skipped \cup version
                                        \cup (IF merged THEN {} ELSE {"FAILED"}))
            /\ observed' = observed \cup (IF good THEN {"vulnerabilities"} ELSE {})
            /\ incomplete' = incomplete \cup (IF good THEN {} ELSE {"vulnerabilities"})
            /\ heard' = heard \cup {Contribution("vulnerabilities", tool,
                                                states \cup (IF merged THEN {} ELSE {"FAILED"}))}
  BY DEF Vulnerabilities
<1> DEFINE states == {reports[q].state : q \in requests}
           good == merged /\ states \subseteq Good
           said == states \cup (IF merged THEN {} ELSE {"FAILED"})
           all == states \cup skipped \cup version \cup (IF merged THEN {} ELSE {"FAILED"})
           new == IF good THEN {"vulnerabilities"} ELSE {}
           gaps == IF good THEN {} ELSE {"vulnerabilities"}
<1>2. /\ statuses' = Report(tool, all)
      /\ observed' = observed \cup new /\ incomplete' = incomplete \cup gaps
      /\ heard' = heard \cup {Contribution("vulnerabilities", tool, said)}
  BY <1>1
<1>3. states \subseteq ToolStates /\ states # {}
  BY ReportsTyped DEF InTime
<1> HIDE DEF states
<1>4. all \subseteq CollectorStates /\ said \subseteq all
  BY <1>3 DEF Versions, CollectorStates, ToolStates
<1>5. /\ said # {} /\ new \subseteq {"vulnerabilities"} /\ gaps \subseteq {"vulnerabilities"}
      /\ new # {} => said \subseteq Good
      /\ "vulnerabilities" \in gaps \/ said \subseteq Good
  BY <1>3
<1> HIDE DEF all, said, good, new, gaps
<1>6. /\ statuses' \subseteq Tools \X CollectorStates /\ statuses \subseteq statuses'
      /\ all \subseteq AllStates(statuses')
  BY <1>2, <1>4, ReportTyped DEF BundleSound
<1>7. "vulnerabilities" \in Sections /\ tool \in Sources
  BY DEF Sections, Sources
<1>8. "PARTIAL" \in said => "PARTIAL" \in AllStates(statuses')
  BY <1>4, <1>6
<1>9. /\ observed' \subseteq Sections /\ incomplete' \subseteq Sections
      /\ heard' \subseteq Contributions
      /\ ObservedSound(observed, heard)' /\ IncompleteSound(incomplete, heard)'
      /\ PartialShown(statuses, heard)'
  BY <1>2, <1>5, <1>6, <1>7, <1>8, ContributionSound
<1> QED
  BY <1>6, <1>9 DEF BundleSound

LEMMA MergeSound ==
    ASSUME BundleSound, Merge
    PROVE  BundleSound'
BY DEF Merge, BundleSound, ObservedSound, sectionVars, postureVars, findingVars

LEMMA AttackSurfaceSound ==
    ASSUME BundleSound, AttackSurface
    PROVE  BundleSound'
<1>1. stage = "attack" /\ observed = {} /\ incomplete = {}
  BY DEF AttackSurface, BundleSound
<1>2. CASE settings.discovery /\ ~job.allowed
  BY <1>2, BlankSound DEF AttackSurface
<1>3. CASE ~(settings.discovery /\ ~job.allowed)
  <2>1. /\ stage' = "collected" /\ UNCHANGED <<incomplete, posture, told, dropped>>
        /\ "amass" \in Tools /\ "attack_surface" \in Sections
        /\ "amass" \in Sources /\ "amass" \notin Binding
    BY <1>3 DEF AttackSurface, Tools, Sections, Sources, Binding, postureVars
  <2>2. CASE settings.discovery /\ settings.amass
    <3>1. PICK r \in InTime(AmassReports), version \in Versions :
            /\ statuses' = Report("amass", {r.state} \cup version)
            /\ observed' = observed \cup (IF r.state \in Good THEN {"attack_surface"} ELSE {})
            /\ heard' = heard \cup {Contribution("attack_surface", "amass", {r.state})}
      BY <1>3, <2>2 DEF AttackSurface
    <3>2. r.state \in ToolStates /\ r.state # "PARTIAL"
      BY ReportsTyped DEF InTime, AmassReports, Amass
    <3>3. {r.state} \cup version \subseteq CollectorStates
      BY <3>2 DEF Versions, CollectorStates, ToolStates
    <3>4. statuses' \subseteq Tools \X CollectorStates /\ statuses \subseteq statuses'
      BY <2>1, <3>1, <3>3, ReportTyped DEF BundleSound
    <3> DEFINE new == IF r.state \in Good THEN {"attack_surface"} ELSE {}
    <3>5. /\ new \subseteq {"attack_surface"} /\ (new # {} => {r.state} \subseteq {"SUCCESS"})
          /\ observed' = observed \cup new /\ incomplete' = incomplete \cup {}
      BY <2>1, <3>1, <3>2 DEF Good
    <3> HIDE DEF new
    <3>6. /\ observed' \subseteq Sections /\ incomplete' \subseteq Sections
          /\ heard' \subseteq Contributions
          /\ ObservedSound(observed, heard)' /\ IncompleteSound(incomplete, heard)'
          /\ PartialShown(statuses, heard)'
      BY <2>1, <3>1, <3>4, <3>5, ContributionSound
    <3> QED
      BY <1>1, <2>1, <3>4, <3>6 DEF BundleSound
  <2>3. CASE ~(settings.discovery /\ settings.amass)
    <3>1. /\ statuses' = Report("amass", {IF settings.discovery THEN "SKIPPED" ELSE "FAILED"})
          /\ UNCHANGED <<observed, heard>>
      BY <1>3, <2>3 DEF AttackSurface
    <3>2. statuses' \subseteq Tools \X CollectorStates /\ statuses \subseteq statuses'
      BY <2>1, <3>1, ReportTyped DEF BundleSound, CollectorStates, ToolStates
    <3>3. PartialShown(statuses', heard')
      BY <3>1, <3>2, MoreShown DEF BundleSound, PartialShown
    <3> QED
      BY <1>1, <2>1, <3>1, <3>2, <3>3 DEF BundleSound
  <2> QED
    BY <2>2, <2>3
<1> QED
  BY <1>2, <1>3

LEMMA CollectSound ==
    ASSUME TypeOK, BundleSound, Collect
    PROVE  /\ BundleSound' /\ stage' \in Stages \cup Ends
           /\ stage \in Stages /\ settings' = settings /\ job' = job
<1>1. stage \in Stages /\ stage' \in Stages \cup Ends /\ settings' = settings /\ job' = job
  BY DEF Collect, NativeStage, NativeRaises, OsquerySkipped, OsqueryStage, OsqueryRaises,
         OpenScapSkipped, OpenScapStage, OsvSkipped, OsvStage, DepScanSkipped, DepScanStage,
         Merge, TooManyRecords, DeadlinePasses, AttackSurface, Watched, Stages, Ends
<1> SUFFICES BundleSound'
  BY <1>1
<1>2. CASE NativeStage \/ NativeRaises
  BY <1>2, NativeStageSound, NativeRaisesSound
<1>3. CASE OsqueryStage
  BY <1>3, OsqueryStageSound
<1>4. CASE OsquerySkipped \/ OsqueryRaises \/ OpenScapSkipped \/ OsvSkipped \/ DepScanSkipped
  <2>1. {"SKIPPED"} \subseteq CollectorStates /\ {"FAILED"} \subseteq CollectorStates
        /\ Missed \in CollectorStates /\ {Missed} \subseteq CollectorStates
        /\ {"osquery", "openscap", "osv-scanner", "depscan"} \subseteq Tools
    BY DEF Missed, CollectorStates, ToolStates, Tools
  <2>2. UNCHANGED <<observed, incomplete, posture, heard, told, dropped>>
        /\ stage' \notin {"collected", "attack", "raised", "ended"}
    BY <1>4 DEF OsquerySkipped, OsqueryRaises, OpenScapSkipped, OsvSkipped, DepScanSkipped,
                sectionVars, postureVars, findingVars
  <2>3. CASE OsquerySkipped
    BY <2>1, <2>2, <2>3, StatesAdded DEF OsquerySkipped
  <2>4. CASE OsqueryRaises
    BY <2>1, <2>2, <2>4, StatesAdded DEF OsqueryRaises
  <2>5. CASE OpenScapSkipped
    <3> DEFINE states == {IF job.platform # "linux" THEN "SKIPPED" ELSE Missed}
    <3>1. states \subseteq CollectorStates
      BY <2>1
    <3>2. statuses' = statuses \/ statuses' = Report("openscap", states)
      BY <2>5 DEF OpenScapSkipped
    <3> HIDE DEF states
    <3> QED
      BY <2>1, <2>2, <3>1, <3>2, StatesAdded
  <2>6. CASE OsvSkipped
    <3> DEFINE states == {IF settings.offload THEN "SKIPPED" ELSE Missed}
    <3>1. states \subseteq CollectorStates
      BY <2>1
    <3>2. statuses' = statuses \/ statuses' = Report("osv-scanner", states)
      BY <2>6 DEF OsvSkipped
    <3> HIDE DEF states
    <3> QED
      BY <2>1, <2>2, <3>1, <3>2, StatesAdded
  <2>7. CASE DepScanSkipped
    <3> DEFINE states == {IF settings.offload THEN "SKIPPED" ELSE Missed}
    <3>1. states \subseteq CollectorStates
      BY <2>1
    <3>2. statuses' = statuses \/ statuses' = Report("depscan", states)
      BY <2>7 DEF DepScanSkipped
    <3> HIDE DEF states
    <3> QED
      BY <2>1, <2>2, <3>1, <3>2, StatesAdded
  <2> QED
    BY <1>4, <2>3, <2>4, <2>5, <2>6, <2>7
<1>5. CASE OpenScapStage
  BY <1>5, OpenScapStageSound
<1>6. CASE OsvStage
  <2>1. Vulnerabilities("osv-scanner", job.sources, Reports(OsvScanner), {})
        /\ UNCHANGED <<posture, told, dropped>> /\ stage' = "depscan" /\ "osv-scanner" \in Tools
        /\ job.sources # {}
    BY <1>6 DEF OsvStage, OsvReports, Tools, postureVars
  <2> QED
    BY <2>1, VulnerabilitiesSound
<1>7. CASE DepScanStage
  <2> DEFINE skipped == IF "other" \in job.sources THEN {"SKIPPED"} ELSE {}
             requests == {"live-os"} \cup (job.sources \ {"other"})
  <2>1. Vulnerabilities("depscan", requests, Reports(DepScan), skipped)
        /\ UNCHANGED <<posture, told, dropped>> /\ stage' = "merge" /\ "depscan" \in Tools
    BY <1>7 DEF DepScanStage, DepScanReports, Tools, postureVars
  <2>2. skipped \subseteq CollectorStates /\ requests # {}
    BY DEF CollectorStates
  <2> HIDE DEF skipped, requests
  <2> QED
    BY <2>1, <2>2, VulnerabilitiesSound
<1>8. CASE Merge \/ AttackSurface
  BY <1>8, MergeSound, AttackSurfaceSound
<1>9. CASE TooManyRecords \/ DeadlinePasses
  BY <1>9, BlankSound DEF TooManyRecords, DeadlinePasses
<1> QED
  BY <1>2, <1>3, <1>4, <1>5, <1>6, <1>7, <1>8, <1>9 DEF Collect

-----------------------------------------------------------------------------
(* The scans of a request                                                   *)

\* What a verdict on the baseline rests on.
DriftSound(r) ==
    /\ r.drift # "unknown" => settings.baseline /\ "security" \in r.observed
    /\ r.drift = "conforms" => \A f \in Fields : <<f, Approved[f]>> \in r.told
    /\ r.drift = "drifted" =>
           \E f \in Fields, v \in {"on", "off"} : v # Approved[f] /\ <<f, v>> \in r.told

\* What a result declares authoritative, and its verdict, rest on evidence.
ResultSound(r) ==
    /\ \A s \in r.observed : Answered(r.heard, s, Accepted(s))
    /\ PartialShown(r.statuses, r.heard)
    /\ DriftSound(r)

DeepInv ==
    /\ TypeOK /\ BundleSound
    /\ \E S : results \in Seq(S)
    /\ stage # "ended" => Len(results) < Len(request.jobs)
    /\ \A i \in DOMAIN results : ResultSound(results[i])

LEMMA RequestJobs ==
    ASSUME NEW r \in Requests
    PROVE  /\ r.jobs \in Seq(Jobs) /\ r.jobs # <<>> /\ Len(r.jobs) \in Nat /\ Len(r.jobs) > 0
           /\ \A i \in 1..Len(r.jobs) : r.jobs[i] \in Jobs
           /\ Head(r.jobs) \in Jobs
<1>1. r.jobs \in Seq(Jobs) /\ r.jobs # <<>>
  BY DeepScanAssumption
<1> QED
  BY <1>1

LEMMA DeepInitially == Init => DeepInv
<1> SUFFICES ASSUME Init PROVE DeepInv
  OBVIOUS
<1>1. /\ settings \in Settings /\ request \in Requests /\ job \in Jobs
      /\ stage \in {"native", "attack"} /\ results = <<>> /\ report.state = "none"
  BY RequestJobs DEF Init, FirstStage, NoReport
<1>2. NoPosture \in Postures
  BY DEF NoPosture, Postures
<1>3. BundleSound
  BY <1>1, <1>2 DEF Init, EmptyBundle, BundleSound, ObservedSound, IncompleteSound,
                    PartialShown, Delivered, NoPosture
<1>4. results \in Seq({}) /\ Len(results) = 0 /\ DOMAIN results = {}
  BY <1>1
<1>5. Len(request.jobs) \in Nat /\ Len(request.jobs) > 0
  BY <1>1, RequestJobs
<1>6. TypeOK
  BY <1>1, <1>3, <1>4, <1>5 DEF TypeOK, BundleSound, Stages
<1> QED
  BY <1>1, <1>3, <1>4, <1>5, <1>6 DEF DeepInv

(* A result joins the ones before it.                                       *)
LEMMA ResultAdded ==
    ASSUME DeepInv, NEW r, results' = Append(results, r), ResultSound(r),
           UNCHANGED <<settings, job, request, report>>, BundleSound', stage' = "ended",
           stage # "ended"
    PROVE  DeepInv'
<1>1. PICK S : results \in Seq(S)
  BY DEF DeepInv
<1>2. results \in Seq(S \cup {r})
  BY <1>1
<1>3. /\ results' \in Seq(S \cup {r}) /\ Len(results') = Len(results) + 1
      /\ \A i \in 1..Len(results) : results'[i] = results[i]
      /\ results'[Len(results) + 1] = r
  BY <1>2, AppendProperties
<1>4. Len(results) \in Nat /\ DOMAIN results = 1..Len(results)
      /\ DOMAIN results' = 1..(Len(results) + 1)
  BY <1>2, <1>3
<1>5. (\A i \in DOMAIN results : ResultSound(results[i]))'
  <2> SUFFICES ASSUME NEW i \in DOMAIN results' PROVE ResultSound(results[i])'
    OBVIOUS
  <2>1. CASE i = Len(results) + 1
    BY <1>3, <2>1 DEF ResultSound, DriftSound
  <2>2. CASE i # Len(results) + 1
    <3>1. i \in DOMAIN results /\ results'[i] = results[i]
      BY <1>3, <1>4, <2>2
    <3>2. ResultSound(results[i]) /\ settings' = settings
      BY <3>1 DEF DeepInv
    <3> QED
      BY <3>1, <3>2 DEF ResultSound, DriftSound
  <2> QED
    BY <2>1, <2>2
<1>6. Len(results') <= Len(request'.jobs)
  <2>1. Len(request.jobs) \in Nat /\ Len(results) < Len(request.jobs)
    BY RequestJobs DEF DeepInv, TypeOK
  <2> QED
    BY <1>3, <1>4, <2>1
<1>7. TypeOK'
  <2>1. settings \in Settings /\ request \in Requests /\ job \in Jobs
        /\ report.state \in {"none", "written", "lost"}
    BY DEF DeepInv, TypeOK
  <2>2. BundleSound' /\ settings' = settings /\ request' = request /\ job' = job
        /\ report' = report /\ stage' = "ended"
    OBVIOUS
  <2> QED
    BY <1>6, <2>1, <2>2 DEF TypeOK, BundleSound
<1> QED
  BY <1>3, <1>5, <1>7 DEF DeepInv

(* A step that leaves the results alone.                                    *)
LEMMA ResultsKept ==
    ASSUME DeepInv, UNCHANGED <<settings, request, results>>, job' \in Jobs,
           report'.state \in {"none", "written", "lost"}, BundleSound',
           stage' \in AllStages,
           stage' # "ended" => Len(results) < Len(request.jobs)
    PROVE  DeepInv'
<1>1. settings' = settings /\ request' = request /\ results' = results
  OBVIOUS
<1>2. (\A i \in DOMAIN results : ResultSound(results[i]))'
  BY <1>1 DEF DeepInv, ResultSound, DriftSound
<1>3. TypeOK'
  <2>1. settings \in Settings /\ request \in Requests /\ Len(results) <= Len(request.jobs)
    BY DEF DeepInv, TypeOK
  <2> QED
    BY <1>1, <2>1 DEF TypeOK, BundleSound, AllStages
<1>4. (\E S : results \in Seq(S))'
  BY <1>1 DEF DeepInv
<1> QED
  BY <1>1, <1>2, <1>3, <1>4 DEF DeepInv

(* A merged bundle makes a sound result.                                     *)
LEMMA ResultIsSound ==
    ASSUME BundleSound, stage = "collected"
    PROVE  ResultSound(Result)
<1>1. /\ Result.observed = observed /\ Result.heard = heard /\ Result.told = told
      /\ Result.drift = Verdict /\ Result.statuses = statuses
  BY DEF Result
<1>2. ASSUME NEW s \in observed PROVE Answered(heard, s, Accepted(s))
  <2>1. s \notin incomplete
    BY DEF BundleSound
  <2> QED
    BY <2>1 DEF BundleSound, ObservedSound, IncompleteSound, Answered
<1>3. /\ posture \in Postures /\ Delivered(posture, told)
      /\ Approved \in [Fields -> {"on", "off"}]
  BY CollectionAssumption DEF BundleSound
<1>4. Verdict # "unknown" =>
          settings.baseline /\ "security" \in observed /\ Verdict = Drift(posture)
  BY DEF Verdict
<1>5. Drift(posture) = "conforms" => \A f \in Fields : <<f, Approved[f]>> \in told
  <2>1. Drift(posture) = "conforms" => \A f \in Fields : posture[f] = Approved[f]
    BY DEF Drift
  <2> QED
    BY <1>3, <2>1 DEF Delivered
<1>6. Drift(posture) = "drifted" =>
          \E f \in Fields, v \in {"on", "off"} : v # Approved[f] /\ <<f, v>> \in told
  <2>1. Drift(posture) = "drifted" =>
            \E f \in Fields : posture[f] \notin {"unknown", Approved[f]}
    BY DEF Drift
  <2> QED
    BY <1>3, <2>1 DEF Delivered, Postures
<1> HIDE DEF Result, Verdict
<1>7. DriftSound(Result)
  BY <1>1, <1>4, <1>5, <1>6 DEF DriftSound
<1> QED
  BY <1>1, <1>2, <1>7 DEF ResultSound, BundleSound

LEMMA DeepStep ==
    ASSUME DeepInv, [Next]_vars
    PROVE  DeepInv'
<1>1. TypeOK /\ BundleSound /\ job \in Jobs /\ request \in Requests /\ stage \in AllStages
      /\ report.state \in {"none", "written", "lost"}
  BY DEF DeepInv, TypeOK, AllStages
<1>2. CASE CollectStep
  <2>1. /\ BundleSound' /\ stage' \in Stages \cup Ends /\ stage \in Stages
        /\ settings' = settings /\ job' = job /\ UNCHANGED <<request, results, report>>
    BY <1>1, <1>2, CollectSound DEF CollectStep
  <2>2. stage # "ended" /\ stage' \in AllStages
    BY <2>1 DEF Stages, AllStages
  <2> QED
    BY <1>1, <2>1, <2>2, ResultsKept DEF DeepInv
<1>3. CASE Analyze
  <2>1. /\ stage = "collected" /\ stage' = "ended" /\ results' = Append(results, Result)
        /\ ResetBundle /\ UNCHANGED <<settings, job, request, report>>
    BY <1>3 DEF Analyze
  <2>2. ResultSound(Result)
    BY <1>1, <2>1, ResultIsSound
  <2> HIDE DEF Result
  <2> QED
    BY <2>1, <2>2, BlankSound, ResultAdded
<1>4. CASE AnalysisRaises
  <2>1. /\ stage = "collected" /\ stage' = "raised" /\ ResetBundle
        /\ UNCHANGED <<settings, job, request, results, report>>
    BY <1>4 DEF AnalysisRaises
  <2>2. BundleSound' /\ stage' \in AllStages /\ stage # "ended"
    BY <2>1, BlankSound DEF AllStages, Ends
  <2> QED
    BY <1>1, <2>1, <2>2, ResultsKept DEF DeepInv
<1>5. CASE RecordTerminal
  <2>1. PICK state \in {"TIMEOUT", "FAILED"} : results' = Append(results, Terminal(state))
    BY <1>5 DEF RecordTerminal
  <2>2. ResultSound(Terminal(state))
    BY DEF Terminal, ResultSound, DriftSound, PartialShown
  <2>3. stage = "raised" /\ stage' = "ended" /\ UNCHANGED <<settings, job, bundle, request, report>>
    BY <1>5 DEF RecordTerminal
  <2>4. BundleSound'
    BY <1>1, <2>3 DEF BundleSound, bundle
  <2> QED
    BY <2>1, <2>2, <2>3, <2>4, ResultAdded
<1>6. CASE NextScan
  <2>1. /\ stage = "ended" /\ Len(results) < Len(request.jobs)
        /\ job' = request.jobs[Len(results) + 1] /\ stage' = FirstStage(job')
        /\ UNCHANGED <<settings, bundle, request, results, report>>
    BY <1>6 DEF NextScan
  <2>2. PICK S : results \in Seq(S)
    BY DEF DeepInv
  <2>3. job' \in Jobs
    <3>1. Len(results) \in Nat
      BY <2>2
    <3>2. Len(results) + 1 \in 1..Len(request.jobs)
      BY <1>1, <2>1, <3>1, RequestJobs
    <3> QED
      BY <1>1, <2>1, <3>2, RequestJobs
  <2>4. stage' \in {"native", "attack"}
    BY <2>1 DEF FirstStage
  <2>5. BundleSound'
    BY <1>1, <2>1, <2>4 DEF BundleSound, bundle
  <2>6. stage' \in AllStages
    BY <2>4 DEF AllStages, Stages
  <2> QED
    BY <1>1, <2>1, <2>3, <2>5, <2>6, ResultsKept
<1>7. CASE BuildReport \/ ReportLost
  <2>1. stage = "ended" /\ UNCHANGED <<collectionVars, request, results>>
    BY <1>7 DEF BuildReport, ReportLost, Reporting
  <2>2. UNCHANGED <<settings, job, stage, observed, incomplete, statuses, advisories, posture,
                    heard, told, dropped, reported>>
    BY <2>1 DEF collectionVars, bundle
  <2>3. report'.state \in {"none", "written", "lost"}
    BY <1>7 DEF BuildReport, ReportLost, NoReport
  <2>4. BundleSound'
    BY <1>1, <2>2 DEF BundleSound
  <2> QED
    BY <1>1, <2>1, <2>2, <2>3, <2>4, ResultsKept
<1>8. CASE UNCHANGED vars
  <2>1. UNCHANGED <<settings, job, stage, observed, incomplete, statuses, advisories, posture,
                    heard, told, dropped, reported, request, results, report>>
    BY <1>8 DEF vars, collectionVars, bundle
  <2>2. BundleSound'
    BY <1>1, <2>1 DEF BundleSound
  <2> QED
    BY <1>1, <2>1, <2>2, ResultsKept DEF DeepInv
<1> QED
  BY <1>2, <1>3, <1>4, <1>5, <1>6, <1>7, <1>8 DEF Next

THEOREM DeepInvariant == Spec => []DeepInv
<1>1. Init => DeepInv
  BY DeepInitially
<1>2. DeepInv /\ [Next]_vars => DeepInv'
  BY DeepStep
<1> QED
  BY <1>1, <1>2, PTL DEF Spec

(* Requests, stages, bundles and results keep their types.                   *)
THEOREM TypeCorrect == Spec => []TypeOK
<1>1. DeepInv => TypeOK
  BY DEF DeepInv
<1> QED
  BY <1>1, DeepInvariant, PTL

(* Whatever every check, query and tool answers, a section that a result     *)
(* declares authoritative was answered by some source and by every binding    *)
(* source that was asked (_native_section_contributors and the final          *)
(* difference_update of _endpoint).                                         *)
THEOREM AuthorityEarned == Spec => []AuthoritativeIsAnswered
<1>1. DeepInv => AuthoritativeIsAnswered
  BY DEF DeepInv, ResultSound, AuthoritativeIsAnswered
<1> QED
  BY <1>1, DeepInvariant, PTL

(* The baseline's verdict is given only where configuration_baseline_observed *)
(* holds; conformity is declared only of controls that were delivered, drift  *)
(* only of one that was delivered with another value (BaselineAnalyzer).      *)
THEOREM DriftEarned == Spec => []DriftNeedsEvidence
<1>1. ASSUME DeepInv, NEW i \in DOMAIN results, results[i].drift # "unknown"
      PROVE  settings.baseline /\ Answered(results[i].heard, "security", {"SUCCESS"})
  <2>1. ResultSound(results[i])
    BY <1>1 DEF DeepInv
  <2>2. settings.baseline /\ Answered(results[i].heard, "security", Accepted("security"))
    BY <1>1, <2>1 DEF ResultSound, DriftSound
  <2> QED
    BY <2>2 DEF Accepted
<1>2. ASSUME DeepInv, NEW i \in DOMAIN results PROVE DriftSound(results[i])
  BY <1>2 DEF DeepInv, ResultSound
<1>3. DeepInv => DriftNeedsEvidence
  BY <1>1, <1>2 DEF DriftNeedsEvidence, DriftSound
<1> QED
  BY <1>3, DeepInvariant, PTL
=============================================================================

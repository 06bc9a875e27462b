---------------------------- MODULE ToolOutcomes ----------------------------
(***************************************************************************)
(* What one run of an external program is reported as.                      *)
(*                                                                         *)
(* The runner starts an allowlisted program with a time budget and keeps a  *)
(* bounded part of its output; the adapters of OSV-Scanner, dep-scan,        *)
(* OpenSCAP, Amass and osquery, and the native commands, turn how the run    *)
(* ended and what its output holds into a state.  They share their order of *)
(* decisions and differ in a few points, which their contracts list.         *)
(***************************************************************************)
EXTENDS Naturals, Sequences, FiniteSets

ToolStates == {"SUCCESS", "PARTIAL", "FAILED", "UNAVAILABLE", "TIMEOUT"}
Good == {"SUCCESS", "PARTIAL"}
CollectorStates == ToolStates \cup {"SKIPPED"}

\* Exit codes the contracts tell apart; 3 stands for every other one.
ExitCodes == 0..3

\* A run of the program: it is not found, not started (refused), killed when
\* its time is over, or it exits, with its console output cut at the bound.
Runs == [end : {"missing", "refused", "timeout"}, code : {0}, cut : {FALSE}]
        \cup [end : {"exited"}, code : ExitCodes, cut : BOOLEAN]

-----------------------------------------------------------------------------
(* Inputs and outputs                                                       *)

\* Why an adapter refuses its input before it starts the program; walking a
\* large tree of sources may also take until the deadline.
OsvTree == {"escaping link", "special file", "too many items", "deadline"}
OsvInputs == {"outside roots", "no manifest", "too large"} \cup OsvTree
Sboms == {"no document", "no CycloneDX", "unknown version", "too many components"}
DepScanTree ==
    {"escaping link", "special file", "too many items", "too large", "empty", "deadline"}
DepScanInputs ==
    {"outside roots", "unknown profile", "wrong mode"} \cup Sboms \cup DepScanTree
OpenScapInputs == {"outside roots", "invalid profile", "no content", "too large"}
AmassInputs ==
    {"no authorization", "no domain", "public suffix", "outside roots", "wide scope",
     "wide exclusions", "over limit"}

\* Why an adapter refuses the output as a whole, and which of its records it
\* misses without a word.
OsvRefuses == {"no document", "no results", "too many groups"}
OsvMisses == {"result", "package", "vulnerability", "identifier", "duplicate"}
VdrRefuses ==
    {"no document", "no CycloneDX", "unknown version", "no vulnerabilities",
     "too many components", "no identifier", "too many affected"}
VdrMisses == {"affected component", "duplicate"}
OpenScapRefuses ==
    {"no document", "declarations", "too large", "too many rules", "no rules", "bad content"}
OpenScapMisses == {"rule identifier"}
AmassRefuses == {"too large", "no record", "too many assets"}
AmassMisses == {"hostname", "no domain", "out of scope", "excluded"}
OsqueryRefuses == {"no document", "no row", "too many fields", "nested value", "too many rows"}
NativeRefuses == {"unusable", "too large"}

\* dep-scan writes a directory of reports: one that is refused costs its own
\* records; the directory, or a refusal of all of them, costs everything.
ReportDirectory == {"link", "escaped", "special file", "too many files", "too large", "no report"}
DepScanRefuses == ReportDirectory \cup {"all refused", "too many vulnerabilities"}

-----------------------------------------------------------------------------
(* Contracts                                                                *)

(* codes: exit codes that count as a success; partial: flaws that make it     *)
(* partial; misses: flaws that leave it alone; cut: the state when the output *)
(* was cut; budget: the program may use all the time the scan has left, so    *)
(* that its timeout is the scan's.                                           *)
OsvScanner ==
    [inputs |-> OsvInputs, codes |-> {0, 1}, refuses |-> OsvRefuses, partial |-> {},
     misses |-> OsvMisses, cut |-> "FAILED", budget |-> TRUE]
DepScan ==
    [inputs |-> DepScanInputs, codes |-> {0}, refuses |-> DepScanRefuses,
     partial |-> VdrRefuses, misses |-> VdrMisses, cut |-> "PARTIAL", budget |-> TRUE]
OpenScap ==
    [inputs |-> OpenScapInputs, codes |-> {0, 2}, refuses |-> OpenScapRefuses, partial |-> {},
     misses |-> OpenScapMisses, cut |-> "SUCCESS", budget |-> TRUE]
Osquery ==
    [inputs |-> {}, codes |-> {0}, refuses |-> OsqueryRefuses, partial |-> {}, misses |-> {},
     cut |-> "FAILED", budget |-> TRUE]
Amass ==
    [inputs |-> AmassInputs, codes |-> {0}, refuses |-> AmassRefuses, partial |-> {},
     misses |-> AmassMisses, cut |-> "SUCCESS", budget |-> FALSE]
Native ==
    [inputs |-> {}, codes |-> {0}, refuses |-> NativeRefuses, partial |-> {},
     misses |-> {"row"}, cut |-> "FAILED", budget |-> FALSE]

FlawsOf(contract) == contract.refuses \cup contract.partial \cup contract.misses \cup {"none"}

\* The states that flaws of the output call for.
Flaws(contract, run, flaw) ==
    (IF run.cut THEN {contract.cut} ELSE {})
    \cup (IF flaw \in contract.partial THEN {"PARTIAL"} ELSE {})
    \cup (IF flaw \in contract.refuses THEN {"FAILED"} ELSE {})

\* input: what is wrong with the input, flaw: what is wrong with the output.
Concluded(contract, input, run, flaw) ==
    CASE input = "deadline" -> "TIMEOUT"
      [] input \notin {"deadline", "none"} -> "FAILED"
      [] input = "none" /\ run.end = "missing" -> "UNAVAILABLE"
      [] input = "none" /\ run.end = "refused" -> "FAILED"
      [] input = "none" /\ run.end = "timeout" -> "TIMEOUT"
      [] input = "none" /\ run.end = "exited" ->
            LET flaws == Flaws(contract, run, flaw)
            IN  IF run.code \notin contract.codes \/ "FAILED" \in flaws THEN "FAILED"
                ELSE IF "PARTIAL" \in flaws THEN "PARTIAL" ELSE "SUCCESS"

\* What an adapter may report: the state, and whether the deadline of the scan
\* has passed meanwhile.  One whose budget has run out before the program is
\* started reports the same as one whose program used it up.
Reports(contract) ==
    {report \in {[state |-> Concluded(contract, i, r, f), late |-> l] :
                    i \in contract.inputs \cup {"none"}, r \in Runs,
                    f \in FlawsOf(contract), l \in BOOLEAN} :
        contract.budget /\ report.state = "TIMEOUT" => report.late}

OsvReports == Reports(OsvScanner)
DepScanReports == Reports(DepScan)
OpenScapReports == Reports(OpenScap)
AmassReports == Reports(Amass)

\* A query that runs in a batch reports what it would report alone, or the
\* timeout or the overflow of the batch.
OsqueryReports == Reports(Osquery)

-----------------------------------------------------------------------------
(* Native checks                                                           *)

\* A check's answer: its state, and whether unusable rows had to be dropped.
Answer(state, lossy) == [state |-> state, lossy |-> lossy]

\* Commands (_run_command); parsers drop the rows they cannot use.
CommandAnswers ==
    LET state(r, f) == Concluded(Native, "none", r, f)
    IN  {Answer(state(r, f), state(r, f) = "SUCCESS" /\ f \in Native.misses) :
            r \in Runs, f \in FlawsOf(Native)}

\* _run_choice: the first alternative that succeeds; otherwise one that timed
\* out, otherwise the last of those that are installed.
Chosen(attempts) ==
    LET states == {attempts[i].state : i \in DOMAIN attempts}
        installed == {i \in DOMAIN attempts : attempts[i].state # "UNAVAILABLE"}
        good == {i \in DOMAIN attempts : attempts[i].state \in Good}
    IN  IF good # {} THEN attempts[CHOOSE i \in good : \A j \in good : i <= j]
        ELSE IF "TIMEOUT" \in states THEN Answer("TIMEOUT", FALSE)
        ELSE IF installed # {}
             THEN attempts[CHOOSE i \in installed : \A j \in installed : j <= i]
        ELSE Answer("UNAVAILABLE", FALSE)
=============================================================================

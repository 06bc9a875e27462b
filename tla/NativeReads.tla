------------------------------ MODULE NativeReads ------------------------------
(***************************************************************************)
(* Native checks that read files and directories instead of running a        *)
(* command: how the fate of the sources they read decides their state.        *)
(***************************************************************************)
EXTENDS ToolOutcomes

\* A source is read, absent, or cannot be read (permission, kind, size).
Fates == {"read", "absent", "unreadable"}

(* must: sources whose absence means that the facility is not there; may:     *)
(* sources that may be absent; each: sources that are given up one by one;    *)
(* capped: an enumeration that may be cut at its limit.                       *)
OsReader         == [must |-> {}, may |-> {"os-release"}, each |-> {}, capped |-> FALSE]
HardwareReader   == [must |-> {}, may |-> {"cpuinfo", "meminfo", "mounts"}, each |-> {},
                     capped |-> FALSE]
ProcessesReader  == [must |-> {"proc"}, may |-> {"passwd"}, each |-> {"status"},
                     capped |-> TRUE]
UsersReader      == [must |-> {"passwd"}, may |-> {"group"}, each |-> {}, capped |-> FALSE]
InterfacesReader == [must |-> {"net"}, may |-> {"routes", "resolv.conf"},
                     each |-> {"address"}, capped |-> TRUE]
PortsReader      == [must |-> {"proc"}, may |-> {}, each |-> {"tcp", "udp"},
                     capped |-> TRUE]

\* The states a reader may report for given fates: the first failure it meets
\* decides, and failures of single entries only make the section partial.
ReaderStates(reader, fate, cut) ==
    LET fatal == (IF \E s \in reader.must : fate[s] = "absent" THEN {"UNAVAILABLE"} ELSE {})
                 \cup (IF \E s \in reader.must \cup reader.may : fate[s] = "unreadable"
                       THEN {"FAILED"} ELSE {})
    IN  IF fatal # {} THEN fatal
        ELSE IF cut \/ \E s \in reader.each : fate[s] = "unreadable" THEN {"PARTIAL"}
        ELSE {"SUCCESS"}

\* Every read looks at the deadline; rows may be unusable when normalized.
ReaderAnswers(reader) ==
    LET sources == reader.must \cup reader.may \cup reader.each
        states == {"TIMEOUT"} \cup UNION {ReaderStates(reader, fate, cut) :
                      fate \in [sources -> Fates], cut \in {FALSE, reader.capped}}
    IN  {Answer(s, FALSE) : s \in states} \cup {Answer(s, TRUE) : s \in states \cap Good}

\* One configuration file, parsed as a whole.
FixedFileAnswers ==
    {Answer(CASE f = "read" -> "SUCCESS" [] f = "absent" -> "UNAVAILABLE"
              [] f = "unreadable" -> "FAILED", FALSE) : f \in Fates}

\* The sudoers file and its included files: there if any of them is.
SudoAnswers ==
    {Answer(IF \E s \in {"sudoers", "included"} : fate[s] = "unreadable" THEN "FAILED"
            ELSE IF \E s \in {"sudoers", "included"} : fate[s] = "read" THEN "SUCCESS"
            ELSE "UNAVAILABLE", FALSE) : fate \in [{"sudoers", "included"} -> Fates]}

\* Directories: an absent one is skipped, an unreadable or overlong one leaves
\* what else was listed, and nothing is reported when only errors are left.
DirectoryFates == {"absent", "empty", "listed", "overlong", "unreadable"}
DirectoryAnswers ==
    LET some(fate, kinds) == \E d \in DOMAIN fate : fate[d] \in kinds
    IN  {Answer("TIMEOUT", FALSE)} \cup
        {Answer(IF ~some(fate, {"unreadable", "overlong"}) THEN "SUCCESS"
                ELSE IF some(fate, {"listed", "overlong"}) THEN "PARTIAL" ELSE "FAILED",
                FALSE) : fate \in [{"first", "second"} -> DirectoryFates]}

OsAnswers == ReaderAnswers(OsReader)
HardwareAnswers == ReaderAnswers(HardwareReader)
ProcessesAnswers == ReaderAnswers(ProcessesReader)
UsersAnswers == ReaderAnswers(UsersReader)
InterfacesAnswers == ReaderAnswers(InterfacesReader)
PortsAnswers == ReaderAnswers(PortsReader)

\* What a check of a kind may answer.
Answers(kind) ==
    CASE kind = "command" -> CommandAnswers
      [] kind = "choice" -> {Chosen(<<a, b>>) : a, b \in CommandAnswers}
      [] kind = "fixed_file" -> FixedFileAnswers
      [] kind = "sudo" -> SudoAnswers
      [] kind = "directory" -> DirectoryAnswers
      [] kind = "probe" -> {Answer("SUCCESS", FALSE)}
      [] kind = "os_release" -> OsAnswers
      [] kind = "hardware" -> HardwareAnswers
      [] kind = "procfs" -> ProcessesAnswers
      [] kind = "passwd" -> UsersAnswers
      [] kind = "net" -> InterfacesAnswers
      [] kind = "sockets" -> PortsAnswers
=============================================================================

------------------------------ MODULE MCDeepScan ------------------------------
(* Instances of DeepScan: jobs of every type and platform, with settings in   *)
(* which each tool is present and absent.                                     *)
EXTENDS DeepScan

\* On Linux osquery tells the one and a native check the other.
MCFields == {"secure_boot_enabled", "selinux_enabled"}
MCApproved == [f \in MCFields |-> "on"]

JobOf(type, platform, approved, sources) ==
    [type |-> type, platform |-> platform, approved |-> approved, sources |-> sources,
     allowed |-> TRUE]

Discovery == JobOf("ATTACK_SURFACE", "linux", {}, {})
OutOfScope == [Discovery EXCEPT !.allowed = FALSE]

\* The job whose reports hold vulnerabilities.
Aliased == JobOf("VULNERABILITY", "macos", {}, {"sbom"})

Advisory(package, ids, severity, exploited, source) ==
    [package |-> package, ids |-> ids, severity |-> severity, exploited |-> exploited,
     sources |-> {source}]

\* One issue under two names, a record that knows both, and another package.
MCFound(j) ==
    IF j # Aliased THEN {<<>>}
    ELSE LET cve == Advisory("openssl", {"cve"}, 2, FALSE, "osv")
             ghsa == Advisory("openssl", {"ghsa"}, 3, FALSE, "depscan")
             both == Advisory("openssl", {"ghsa", "cve"}, 1, TRUE, "depscan")
             other == Advisory("zlib", {"cve"}, 1, FALSE, "osv")
         IN  {<<>>, <<cve>>, <<cve, ghsa>>, <<ghsa, other>>, <<other, both>>, <<both, other, cve>>}

Deep(platform, sources, targets) ==
    [deep |-> TRUE, jobs |-> <<JobOf("FULL", platform, {}, sources)>> \o targets]
Single(j) == [deep |-> FALSE, jobs |-> <<j>>]

MCRequests ==
    {Deep("linux", {}, <<Discovery>>), Deep("windows", {"other"}, <<>>)}
    \cup {Single(j) : j \in
            {JobOf("QUICK", "macos", {}, {}), JobOf("COMPLIANCE", "linux", {}, {}),
             JobOf("VULNERABILITY", "windows", {}, {"directory", "other"}), Aliased,
             JobOf("ON_DEMAND", "linux", {"patches", "openscap", "secure_boot"}, {}),
             JobOf("ON_DEMAND", "linux", {"software"}, {}), OutOfScope}}

MCJobs == UNION {{r.jobs[i] : i \in DOMAIN r.jobs} : r \in MCRequests}

All == [osquery |-> TRUE, openscap |-> TRUE, depscan |-> TRUE, amass |-> TRUE, osv |-> TRUE,
        discovery |-> TRUE, offload |-> FALSE, baseline |-> TRUE, enabled |-> {}]
Bare == [All EXCEPT !.osquery = FALSE, !.openscap = FALSE, !.depscan = FALSE,
                    !.amass = FALSE, !.osv = FALSE]
Offloading == [All EXCEPT !.offload = TRUE, !.discovery = FALSE, !.baseline = FALSE,
                         !.enabled = {"os_info", "users", "secure_boot"}]

MCSettings == {All, Bare, Offloading}

\* One check of each category that counts, on each platform; the accounts are also
\* a query.
MCVaried == {"users", "local_users", "sudo_configuration", "screen_sharing", "pending_reboot"}

\* Only the accounts of a Windows endpoint, without osquery.
UsersRequests == {Deep("windows", {}, <<>>)}
UsersJobs == {r.jobs[1] : r \in UsersRequests}
UsersSettings == {Bare}
UsersVaried == {"users", "local_users"}
=============================================================================

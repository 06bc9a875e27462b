-------------------------- MODULE EvidenceSections --------------------------
(***************************************************************************)
(* Which checks and queries a scan schedules, and which sections of the      *)
(* inventory their answers fill.                                            *)
(*                                                                         *)
(* A section of the normalized data is "present" when a source delivered     *)
(* it and "rejected" when rows had to be dropped on the way.                *)
(***************************************************************************)
EXTENDS NativeReads, TLC

Platforms == {"linux", "windows", "macos"}
Categories == {"inventory", "posture", "patches", "persistence"}
Tools == {"native", "osquery", "openscap", "osv-scanner", "depscan", "amass"}

\* An ON_DEMAND job names its collectors; the other types imply them.
NativeCategories(job) ==
    CASE job.type = "ON_DEMAND" -> job.approved \cap Categories
      [] job.type \in {"QUICK", "COMPLIANCE"} -> {"inventory", "posture"}
      [] job.type = "FULL" -> Categories
      [] job.type = "VULNERABILITY" -> {"inventory", "patches"}
      [] OTHER -> {}

-----------------------------------------------------------------------------
(* The native checks of the three adapters                                  *)

Checks(category, kind, names) ==
    {[name |-> n, category |-> category, kind |-> kind] : n \in names}

LinuxInventory ==
    Checks("inventory", "choice", {"software", "services"})
    \cup Checks("inventory", "os_release", {"os_info"})
    \cup Checks("inventory", "hardware", {"hardware"})
    \cup Checks("inventory", "procfs", {"processes"})
    \cup Checks("inventory", "passwd", {"users"})
    \cup Checks("inventory", "net", {"network_interfaces"})
    \cup Checks("inventory", "sockets", {"listening_ports"})
LinuxPosture ==
    Checks("posture", "command",
        {"firewall_ufw", "firewall_firewalld", "firewall_nftables", "selinux", "apparmor",
         "ssh_configuration", "automatic_updates", "disk_encryption", "security_agents"})
    \cup Checks("posture", "fixed_file",
        {"ssh_configuration_file", "password_quality", "login_defaults"})
    \cup Checks("posture", "sudo", {"sudo_configuration"})
LinuxPatches ==
    Checks("patches", "command", {"running_kernel"})
    \cup Checks("patches", "choice", {"available_updates"})
    \cup Checks("patches", "probe", {"pending_reboot"})
LinuxPersistence ==
    Checks("persistence", "command", {"enabled_systemd_units"})
    \cup Checks("persistence", "directory", {"cron_entries"})

WindowsInventory ==
    Checks("inventory", "command",
        {"os_info", "hardware", "software", "processes", "services", "users",
         "network_interfaces", "listening_ports", "browser_extensions", "certificates"})
WindowsPosture ==
    Checks("posture", "choice", {"firewall"})
    \cup Checks("posture", "command",
        {"antivirus", "disk_encryption", "secure_boot", "tpm", "uac", "remote_desktop",
         "automatic_updates", "local_security_controls", "local_users"})
WindowsPatches ==
    Checks("patches", "command", {"installed_updates", "pending_reboot", "pending_updates"})
WindowsPersistence ==
    Checks("persistence", "command", {"machine_run_items", "user_run_items", "scheduled_tasks"})
    \cup Checks("persistence", "directory", {"startup_folders"})

MacInventory ==
    Checks("inventory", "command",
        {"os_info", "hardware", "software", "processes", "services", "users",
         "network_interfaces", "listening_ports"})
MacPosture ==
    Checks("posture", "command",
        {"firewall", "disk_encryption", "system_integrity_protection", "gatekeeper",
         "automatic_updates", "remote_login", "screen_sharing", "secure_boot_hardware",
         "lock_screen", "audit_logging"})
MacPatches == Checks("patches", "command", {"installed_updates", "pending_updates"})
MacPersistence ==
    Checks("persistence", "command", {"loaded_launch_services"})
    \cup Checks("persistence", "directory", {"launch_items"})

AdapterChecks(platform) ==
    CASE platform = "linux" ->
            LinuxInventory \cup LinuxPosture \cup LinuxPatches \cup LinuxPersistence
      [] platform = "windows" ->
            WindowsInventory \cup WindowsPosture \cup WindowsPatches \cup WindowsPersistence
      [] platform = "macos" ->
            MacInventory \cup MacPosture \cup MacPatches \cup MacPersistence

NativeChecks(platform, categories) ==
    {c \in AdapterChecks(platform) : c.category \in categories}

\* Facilities a Linux endpoint may lawfully lack.
OptionalChecks ==
    {"firewall_ufw", "firewall_firewalld", "firewall_nftables", "selinux", "apparmor",
     "ssh_configuration", "automatic_updates", "security_agents", "ssh_configuration_file",
     "sudo_configuration", "password_quality", "login_defaults", "enabled_systemd_units"}

-----------------------------------------------------------------------------
(* Sections of the native data                                              *)

InventorySection(name) ==
    CASE name = "os_info" -> "os"
      [] OTHER -> name
InventoryChecks == LinuxInventory \cup WindowsInventory \cup MacInventory
InventorySections == {InventorySection(c.name) : c \in InventoryChecks}
CompositeSections == {"security", "updates", "persistence"}
Sections == InventorySections \cup CompositeSections
            \cup {"compliance", "vulnerabilities", "attack_surface"}

\* The section a check of a category contributes data to; the accounts that
\* the Windows posture reads are users as well.
Fills(check) ==
    CASE check.category = "inventory" -> {InventorySection(check.name)}
      [] check.category = "posture" ->
            {"security"} \cup (IF check.name = "local_users" THEN {"users"} ELSE {})
      [] check.category = "patches" -> {"updates"}
      [] check.category = "persistence" -> {"persistence"}

\* normalize_native, by the answers of the checks.
NativePresent(answers) ==
    UNION {Fills(c) : c \in {d \in DOMAIN answers : answers[d].state \in Good}}

\* Only rows dropped from an inventory section reject it; those dropped from
\* posture, patches and persistence are warned about.
NativeRejected(answers) ==
    {InventorySection(c.name) : c \in {d \in DOMAIN answers :
        /\ d.category = "inventory"
        /\ answers[d].state \in Good /\ answers[d].lossy}}

-----------------------------------------------------------------------------
(* Controls of the security posture                                         *)

\* By control, the alternative sets of checks that make it known; a control
\* none of whose alternatives was answered stays unknown.
Each(fields, check) == [f \in fields |-> {{check}}]

LinuxControls ==
    [firewall_enabled |-> {{"firewall_ufw"}, {"firewall_firewalld"}, {"firewall_nftables"}},
     password_policy_compliant |-> {{"password_quality", "login_defaults"}},
     selinux_enabled |-> {{"selinux"}}, apparmor_enabled |-> {{"apparmor"}},
     automatic_updates_enabled |-> {{"automatic_updates"}},
     pending_security_updates_count |-> {{"available_updates"}},
     pending_reboot |-> {{"pending_reboot"}},
     disk_encryption_enabled |-> {{"disk_encryption"}},
     insecure_configuration |-> {{"sudo_configuration"}}]
    @@ Each({"ssh_root_login_enabled", "ssh_password_authentication_enabled",
             "ssh_permit_empty_passwords"}, "ssh_configuration")
    @@ Each({"security_agent_installed", "security_agent_running", "security_service_enabled",
             "security_service_running", "audit_logging_enabled"}, "security_agents")

WindowsControls ==
    [firewall_enabled |-> {{"firewall"}}, disk_encryption_enabled |-> {{"disk_encryption"}},
     secure_boot_enabled |-> {{"secure_boot"}}, uac_enabled |-> {{"uac"}},
     rdp_enabled |-> {{"remote_desktop"}}, automatic_updates_enabled |-> {{"automatic_updates"}},
     pending_security_updates_count |-> {{"pending_updates"}},
     pending_reboot |-> {{"pending_reboot"}}]
    @@ Each({"tpm_present", "tpm_version"}, "tpm")
    @@ Each({"antivirus_enabled", "antivirus_up_to_date", "security_service_enabled",
             "security_service_running"}, "antivirus")
    @@ Each({"guest_account_enabled", "lock_screen_enabled", "audit_logging_enabled",
             "local_admin_password_managed"}, "local_security_controls")

MacControls ==
    [firewall_enabled |-> {{"firewall"}}, disk_encryption_enabled |-> {{"disk_encryption"}},
     sip_enabled |-> {{"system_integrity_protection"}},
     secure_boot_enabled |-> {{"secure_boot_hardware"}},
     automatic_updates_enabled |-> {{"automatic_updates"}},
     remote_login_enabled |-> {{"remote_login"}},
     screen_sharing_enabled |-> {{"screen_sharing"}},
     lock_screen_enabled |-> {{"lock_screen"}}, audit_logging_enabled |-> {{"audit_logging"}}]
    @@ Each({"pending_security_updates_count", "pending_reboot"}, "pending_updates")

Controls(platform) ==
    CASE platform = "linux" -> LinuxControls
      [] platform = "windows" -> WindowsControls
      [] platform = "macos" -> MacControls

\* The controls that native answers may make known; without an answer of the
\* posture there is no security section to hold them.
NativeControls(platform, answers) ==
    LET good == {c \in DOMAIN answers : answers[c].state \in Good}
        names == {c.name : c \in {d \in good : d.category \in {"posture", "patches"}}}
        controls == Controls(platform)
    IN  {f \in DOMAIN controls :
            /\ \E c \in good : c.category = "posture"
            /\ \E checks \in controls[f] : checks \subseteq names}

-----------------------------------------------------------------------------
(* Sections of the osquery data                                             *)

\* The queries a section is assembled from; all of them that ran must have
\* been answered.  Queries read only to enrich rows are left out.
OsQueries == {"os_info", "system_info", "uptime", "kernel_info", "time_info"}
DiskQueries == {"mounts", "logical_drives"}
HardwareQueries ==
    {"system_info", "cpu_info", "platform_info", "video_info", "pci_devices", "tpm_info"}
    \cup DiskQueries
SoftwareQueries ==
    {"software", "software_macos", "packages", "packages_rpm", "packages_homebrew"}
ProcessQueries == {"processes"}
ServiceQueries == {"services", "services_linux", "services_macos"}
UserQueries == {"users", "groups", "user_groups", "last_logins"}
InterfaceQueries == {"interfaces", "interfaces_windows", "routes", "dns_resolvers"}
PortQueries == {"listening_ports"}
PersistenceQueries == {"startup_items", "scheduled_tasks_windows", "crontab"}
ExtensionQueries ==
    {"browser_extensions", "browser_extensions_firefox", "browser_extensions_safari"}
SecurityQueries == {"secure_boot"}

QueriesOf(section) ==
    CASE section = "os" -> OsQueries
      [] section = "hardware" -> HardwareQueries
      [] section = "software" -> SoftwareQueries
      [] section = "processes" -> ProcessQueries
      [] section = "services" -> ServiceQueries
      [] section = "users" -> UserQueries
      [] section = "network_interfaces" -> InterfaceQueries
      [] section = "listening_ports" -> PortQueries
      [] section = "persistence" -> PersistenceQueries
      [] section = "browser_extensions" -> ExtensionQueries
      [] section = "security" -> SecurityQueries
      [] OTHER -> {}

\* A section without its leading query has no rows of its own.
Leading(section) ==
    CASE section = "os" -> {"os_info"}
      [] section = "hardware" -> {"system_info"}
      [] section = "users" -> {"users"}
      [] OTHER -> {}

\* normalize_osquery, by the answers of the queries that ran.
OsqueryPresent(answers) ==
    {s \in Sections :
        LET ran == QueriesOf(s) \cap DOMAIN answers
        IN  /\ ran # {} /\ Leading(s) \subseteq ran
            /\ \A q \in ran : answers[q].state \in Good}

\* The system and its hardware are normalized together.
Together(section) == IF section \in {"os", "hardware"} THEN {"os", "hardware"} ELSE {section}

OsqueryRejected(answers) ==
    {s \in OsqueryPresent(answers) :
        \E t \in Together(s) : \E q \in QueriesOf(t) \cap DOMAIN answers : answers[q].lossy}

\* The queries of each kind of scan.
QueriesByScan(scan_type) ==
    LET system == (OsQueries \cup HardwareQueries \cup SecurityQueries) \ DiskQueries
        network == InterfaceQueries \cup PortQueries
        accounts == ServiceQueries \cup UserQueries \cup PersistenceQueries
                    \cup {"account_status_linux"}
    IN  CASE scan_type = "QUICK" -> system \cup SoftwareQueries \cup network
          [] scan_type = "FULL" ->
                system \cup DiskQueries \cup ProcessQueries \cup network \cup accounts
                \cup SoftwareQueries \cup ExtensionQueries
          [] scan_type = "COMPLIANCE" -> system \cup network \cup accounts
          [] scan_type = "VULNERABILITY" -> (system \ {"uptime"}) \cup SoftwareQueries
          [] OTHER -> {}

\* The queries whose tables a platform lacks.
Windows == {"video_info", "tpm_info", "software", "services", "interfaces_windows",
            "logical_drives", "scheduled_tasks_windows"}
Linux == {"packages", "packages_rpm", "services_linux", "account_status_linux"}
MacOs == {"software_macos", "packages_homebrew", "services_macos", "browser_extensions_safari"}
Posix == {"pci_devices", "last_logins", "dns_resolvers", "mounts", "crontab"}

Incompatible(platform) ==
    CASE platform = "windows" -> Linux \cup MacOs \cup Posix
      [] platform = "linux" -> Windows \cup MacOs
      [] platform = "macos" -> Windows \cup Linux

Registry == QueriesByScan("FULL")

\* Names an ON_DEMAND job may approve that are not queries.
Adapters == Categories \cup {"openscap", "osv_scanner", "depscan"}
=============================================================================

-------------------------- MODULE PolicyAssignment --------------------------
(***************************************************************************)
(* Policy documents on the endpoint: the cache in SQLite, the policy and    *)
(* registry the running agent holds in memory, start-up from both, and the  *)
(* installation of an assignment fetched from the cloud.                    *)
(*                                                                         *)
(* A document is an identity (policy ID and version), a content and the     *)
(* fault, if any, that its validation finds.  An assignment is a sequence   *)
(* of documents and the identity it makes active.                           *)
(***************************************************************************)
EXTENDS Naturals, Sequences, FiniteSets

CONSTANTS
    Ids,           \* policy ID/version pairs
    Contents,      \* contents a document of an identity can have
    Assignments,   \* assignments the cloud serves
    LocalFiles,    \* local policies the endpoint may be configured with
    None,
    MaxCorrupt     \* bound: cached rows that stop validating

Faults == {"none", "load", "checksum"}
Document == [id: Ids, content: Contents, fault: Faults]

\* A row validates while its document loads and matches its checksum.
Row == [content: Contents, source: {"local", "cloud"}, assigned: BOOLEAN, valid: BOOLEAN]
Bundle == [id: Ids, content: Contents]

ASSUME PolicyAssumption ==
    /\ None \notin Contents \cup Ids \cup Row \cup Bundle
    /\ LocalFiles \subseteq Document /\ LocalFiles # {}
    /\ Assignments \subseteq [docs: Seq(Document), active: Ids]
    /\ MaxCorrupt \in Nat

VARIABLES
    file,       \* the configured local policy, as loaded by the last start
    cache,      \* policy_documents: the row of each identity
    active,     \* the identity of the row with active = 1
    policy,     \* in memory: the active bundle, None when the agent is down
    registry,   \* in memory: the bundles jobs may name
    offered     \* the assignment the cloud serves now

pvars == <<file, cache, active, policy, registry, offered>>

PolicyTypeOK ==
    /\ file \in LocalFiles
    /\ cache \in [Ids -> Row \cup {None}]
    /\ active \in Ids \cup {None}
    /\ policy \in Bundle \cup {None}
    /\ registry \in [Ids -> Contents \cup {None}]
    /\ offered \in Assignments \cup {None}

Cached(i) == cache[i] # None
Running == policy # None

\* PolicyLoader.load_document: structure, schema, rule count, expression depth.
Loads(d) == d.fault # "load"

\* The checksum of the canonical form of the validated bundle.
ChecksumMatches(d) == d.fault # "checksum"

BundleOf(d) == [id |-> d.id, content |-> d.content]

-----------------------------------------------------------------------------
(* Start-up: _from_loaded_settings and the constructor.                     *)

CloudActive == active # None /\ cache[active].source = "cloud"

\* Mutant: rows of revoked assignments are considered as well.
UsableAnyRow(i) ==
    Cached(i) /\ cache[i].valid /\ (CloudActive => cache[i].source = "cloud")

\* Under an active cloud assignment only its own rows are considered; a row
\* that no longer validates is audited and skipped.
Usable(i) ==
    /\ Cached(i) /\ cache[i].valid
    /\ CloudActive => cache[i].source = "cloud" /\ cache[i].assigned

StartPolicy ==
    IF active # None /\ Usable(active)
    THEN [id |-> active, content |-> cache[active].content]
    ELSE BundleOf(file)

\* The local policy is registered unless a cloud assignment is active and one
\* of its rows is usable; rows replace it, the chosen policy replaces both.
StartRegistry ==
    [i \in Ids |->
        IF i = StartPolicy.id THEN StartPolicy.content
        ELSE IF Usable(i) THEN cache[i].content
        ELSE IF i = file.id /\ (~CloudActive \/ \A j \in Ids : ~Usable(j))
             THEN file.content ELSE None]

\* A local policy that does not load stops the start, whatever is cached, and
\* so does a row of the chosen identity with another checksum.
StartRefused ==
    \/ ~Loads(file)
    \/ /\ Cached(StartPolicy.id)
       /\ cache[StartPolicy.id].content # StartPolicy.content

\* The constructor caches the chosen policy or activates its row.
StartAgent ==
    /\ ~Running /\ ~StartRefused
    /\ policy' = StartPolicy
    /\ registry' = StartRegistry
    /\ active' = StartPolicy.id
    /\ cache' = IF Cached(StartPolicy.id) THEN cache
                ELSE [cache EXCEPT ![StartPolicy.id] =
                        [content |-> StartPolicy.content, source |-> "local",
                         assigned |-> TRUE, valid |-> TRUE]]
    /\ UNCHANGED <<file, offered>>

-----------------------------------------------------------------------------
(* sync and install_policy_assignment, in one transaction and then in       *)
(* memory.                                                                  *)

Documents(a) == {a.docs[k] : k \in DOMAIN a.docs}
Carried(a) == {d.id : d \in Documents(a)}
ContentIn(a, i) == (CHOOSE d \in Documents(a) : d.id = i).content

\* _validate_and_install: every document, no identity twice, the active one
\* among them.
Validates(a) ==
    /\ \A d \in Documents(a) : Loads(d) /\ ChecksumMatches(d)
    /\ Cardinality(Carried(a)) = Len(a.docs)
    /\ a.active \in Carried(a)

\* cache_policy_document: an identity never changes its content.
Conflicts(a) ==
    \E i \in Carried(a) :
        Cached(i) /\ (cache[i].content # ContentIn(a, i) \/ ~cache[i].valid)

\* Mutant: the rows of the assignment before are left assigned.
RevokedNot(row) == row

\* revoke_cloud_policy_assignments on one row.
Revoked(row) ==
    IF row # None /\ row.source = "cloud" THEN [row EXCEPT !.assigned = FALSE] ELSE row

CacheAfter(a) ==
    [i \in Ids |-> IF i \in Carried(a)
                   THEN [content |-> ContentIn(a, i), source |-> "cloud",
                         assigned |-> TRUE, valid |-> TRUE]
                   ELSE Revoked(cache[i])]

\* install_policy_assignment returns whether the active identity changed.
Activates(a) == policy.id # a.active

Installed(a) ==
    /\ Validates(a) /\ ~Conflicts(a)
    /\ cache' = CacheAfter(a)
    /\ active' = a.active
    /\ policy' = [id |-> a.active, content |-> ContentIn(a, a.active)]
    /\ registry' = [i \in Ids |-> IF i \in Carried(a) THEN ContentIn(a, i) ELSE None]
    /\ UNCHANGED <<file, offered>>

\* A refused assignment changes nothing but the audit log, once per fingerprint.
Refused(a) == ~Validates(a) \/ Conflicts(a)

Publish(a) ==
    /\ offered # a /\ offered' = a
    /\ UNCHANGED <<file, cache, active, policy, registry>>

\* A cached row stops validating: damaged content, or loader limits lowered.
Corrupt(i) ==
    /\ Cached(i) /\ cache[i].valid
    /\ Cardinality({j \in Ids : Cached(j) /\ ~cache[j].valid}) < MaxCorrupt
    /\ cache' = [cache EXCEPT ![i].valid = FALSE]
    /\ UNCHANGED <<file, active, policy, registry, offered>>

StopAgent ==
    /\ policy' = None
    /\ registry' = [i \in Ids |-> None]
    /\ UNCHANGED <<file, cache, active, offered>>

\* The local policy file is replaced; a start is what reads it.
EditFile(f) ==
    /\ ~Running /\ f # file /\ file' = f
    /\ UNCHANGED <<cache, active, policy, registry, offered>>

InitPolicy ==
    /\ file \in LocalFiles
    /\ cache = [i \in Ids |-> None] /\ active = None
    /\ policy = None /\ registry = [i \in Ids |-> None]
    /\ offered = None

-----------------------------------------------------------------------------
AllValid == \A i \in Ids : Cached(i) => cache[i].valid

\* A restart at any moment gives the agent the policy and the registry it had:
\* the one transaction and the swap that follows it never tell them apart.
RestartRestores ==
    (Running /\ AllValid) => /\ ~StartRefused
                             /\ StartPolicy = policy /\ StartRegistry = registry

\* A document the current assignment omits stays out of reach of jobs, after
\* any sequence of assignments and restarts, as long as the cache validates.
Revoking == \A i \in Ids : (Cached(i) /\ cache[i].source = "cloud" /\ ~cache[i].assigned)
                           => registry[i] = None
RevokedStaysRevoked == AllValid => Revoking
=============================================================================

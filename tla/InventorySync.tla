--------------------------- MODULE InventorySync ---------------------------
(***************************************************************************)
(* One endpoint's inventory: what its scans observe, the snapshots and the  *)
(* differences it stores, the documents it queues (full, delta, unchanged), *)
(* and the inventory the cloud rebuilds from them.                          *)
(*                                                                         *)
(* An inventory is a function from the sections it has to their values; its *)
(* hash is taken as itself.  Scans are numbered in the order in which they  *)
(* store their snapshots.  The outbox is the one of UploadQueue without     *)
(* leases and attempts: a row is sent when its predecessor is delivered or  *)
(* replaced by a delivered full resync, and ready rows go in any order,     *)
(* since backoff delays each on its own.  Terminal statuses, which wait in   *)
(* the same stream and carry no inventory, are left out (see ScanLifecycle). *)
(***************************************************************************)
EXTENDS Naturals, Sequences, SequencesExt

CONSTANTS
    Sections,       \* inventory sections that collectors observe
    Telemetry,      \* those normalize_snapshot leaves out
    Values,         \* what a section may contain
    Observations,   \* what one scan may observe
    Completeness,   \* the section "collection_completeness"
    None,           \* null
    Retention,      \* whether rows and scans grow old enough to be removed
    MaxScans,       \* bound: scans
    MaxRows,        \* bound: rows ever queued
    MaxRestores     \* bound: restores of the cloud's database

Scans == 1..MaxScans

\* observed: the sections a collector reported on; values: those it found.
Observation(o) ==
    /\ o.observed \subseteq Sections /\ DOMAIN o.values \subseteq o.observed
    /\ \A s \in DOMAIN o.values : o.values[s] \in Values

ASSUME InventoryAssumption ==
    /\ Telemetry \subseteq Sections /\ Completeness \notin Sections
    /\ \A o \in Observations : Observation(o)
    /\ Retention \in BOOLEAN /\ MaxScans \in Nat /\ MaxRows \in Nat /\ MaxRestores \in Nat

\* No inventory has null for its hash.
ASSUME NullAssumption ==
    \A D \in SUBSET (Sections \cup {Completeness}) :
        None \notin [D -> Values \cup SUBSET Sections]

VARIABLES
    seen,       \* what each scan so far has observed (history)
    snaps,      \* inventory_snapshots by scan; None when pruned
    rows,       \* upload_queue, by upload_id
    accepted,   \* the cloud's accepted uploads, in the order of acceptance
    expired,    \* scans whose evidence the cloud no longer takes
    restores    \* restores so far

vars == <<seen, snaps, rows, accepted, expired, restores>>

-----------------------------------------------------------------------------
(* Snapshots                                                               *)

\* normalize_snapshot: telemetry is left out, collections are unordered.
Normalized(inv) == [s \in DOMAIN inv \ Telemetry |-> inv[s]]

Stored == {k \in DOMAIN snaps : snaps[k] # None}
Latest == Len(snaps)

\* The sections in which two inventories differ.
Changes(before, after) ==
    {s \in DOMAIN before \cup DOMAIN after :
        ~(s \in DOMAIN before /\ s \in DOMAIN after /\ before[s] = after[s])}

\* Mutant: what a scan does not observe is taken as absent.
CarriedNothing(observed) == {}

\* Sections of the newest snapshot that this scan did not observe.
Carried(observed) ==
    IF snaps = <<>> THEN {}
    ELSE DOMAIN snaps[Latest].inv \ (observed \cup {Completeness})

\* save_scan_result: observed sections, the others as they were, and a section
\* that tells which were observed.
Inventory(o) ==
    Normalized([s \in DOMAIN o.values \cup Carried(o.observed) \cup {Completeness} |->
        IF s = Completeness THEN o.observed
        ELSE IF s \in o.observed THEN o.values[s]
        ELSE snaps[Latest].inv[s]])

\* store_snapshot: the difference to the newest snapshot is stored with it.
Snapshot(inv) ==
    [inv |-> inv, prev |-> Latest, initial |-> snaps = <<>>,
     changes |-> IF snaps = <<>> THEN {} ELSE Changes(snaps[Latest].inv, inv)]

-----------------------------------------------------------------------------
(* Documents                                                               *)

Empty == [s \in {} |-> None]

Full(k, inv, previous) ==
    [scan |-> k, mode |-> "full", hash |-> inv, previous |-> previous,
     snapshot |-> inv, sections |-> Empty, removed |-> {}]

\* Mutant: a section that is gone is not mentioned.
RemovedNothing(snap) == {}

Removed(snap) == snap.changes \ DOMAIN snap.inv

Replaced(snap) == [s \in snap.changes \cap DOMAIN snap.inv |-> snap.inv[s]]

PreviousHash(table, snap) == IF snap.prev = 0 THEN None ELSE table[snap.prev].inv

\* snapshot_upload_payload, rebuilt from the table whenever it is called.
Payload(table, k) ==
    LET snap == table[k]  previous == PreviousHash(table, snap)
        doc  == [scan |-> k, mode |-> "delta", hash |-> snap.inv, previous |-> previous,
                 snapshot |-> Empty, sections |-> Replaced(snap), removed |-> Removed(snap)]
    IN  CASE snap.initial -> Full(k, snap.inv, previous)
          [] ~snap.initial /\ snap.changes = {} ->
                [doc EXCEPT !.mode = "unchanged"]
          [] OTHER -> doc

-----------------------------------------------------------------------------
(* The outbox                                                              *)

Ids == DOMAIN rows
Live(i) == rows[i].status # "GONE"

Row(doc, pred, recovery) ==
    [doc |-> doc, status |-> "PENDING", pred |-> pred, by |-> 0, recovery |-> recovery]

Newest == LET live == {i \in Ids : Live(i)}
          IN  IF live = {} THEN 0 ELSE CHOOSE i \in live : \A j \in live : j <= i

\* The idempotency key: the scan and its snapshot's hash, or a resync of it.
SameKey(k, recovery) ==
    {i \in Ids : Live(i) /\ rows[i].doc.scan = k /\ rows[i].recovery = recovery}

Resolved(i) ==
    \/ rows[i].status = "SUCCEEDED"
    \/ rows[i].by # 0 /\ rows[rows[i].by].status = "SUCCEEDED"

\* Mutant: the causal link is not followed.
ReadyAtOnce(i) == rows[i].status = "PENDING"

Ready(i) ==
    /\ rows[i].status = "PENDING"
    /\ rows[i].pred # 0 => Resolved(rows[i].pred)

\* enqueue_upload behind the newest row of the stream.
Enqueued(doc) == Append(rows, Row(doc, Newest, FALSE))

\* The completing transaction of execute: snapshot and document.
Scan(o) ==
    LET table == Append(snaps, Snapshot(Inventory(o)))
    IN  /\ Len(snaps) < MaxScans /\ Len(rows) < MaxRows
        /\ seen' = Append(seen, o)
        /\ snaps' = table
        /\ rows' = Enqueued(Payload(table, Len(table)))
        /\ UNCHANGED <<accepted, expired, restores>>

AcceptedScans == {accepted[n].doc.scan : n \in DOMAIN accepted}

\* A job the cloud still holds as dispatched is handed out again and its stored
\* result queued again: nothing when its row is there, whatever it contains.
Reconcile(k) ==
    /\ k \in Stored /\ k \notin AcceptedScans /\ SameKey(k, FALSE) = {}
    /\ Len(rows) < MaxRows
    /\ rows' = Enqueued(Payload(snaps, k))
    /\ UNCHANGED <<seen, snaps, accepted, expired, restores>>

-----------------------------------------------------------------------------
(* The cloud                                                               *)

NoState == [hash |-> None, inv |-> Empty]
Current ==
    IF accepted = <<>> THEN NoState
    ELSE [hash |-> Last(accepted).inv, inv |-> Last(accepted).inv]

\* The inventory a document describes, given the current one.
Described(doc, base) ==
    CASE doc.mode = "full" -> doc.snapshot
      [] doc.mode = "unchanged" -> base
      [] doc.mode = "delta" ->
            [s \in (DOMAIN base \cup DOMAIN doc.sections) \ doc.removed |->
                IF s \in DOMAIN doc.sections THEN doc.sections[s] ELSE base[s]]

\* The base a document builds on is the current one; a full document without
\* one sets the inventory anew.
BaseMatches(doc) ==
    CASE doc.mode = "full" -> doc.previous = None \/ doc.previous = Current.hash
      [] doc.mode = "delta" -> Current.hash # None /\ doc.previous = Current.hash
      [] doc.mode = "unchanged" -> /\ Current.hash # None /\ doc.hash = Current.hash
                                   /\ doc.previous \in {None, Current.hash}

WellFormed(doc) ==
    /\ doc.mode = "delta" => DOMAIN doc.sections \cup doc.removed # {}
    /\ DOMAIN doc.sections \cap doc.removed = {}

\* reconstruct_inventory.
Reconstruct(doc) ==
    IF ~BaseMatches(doc) THEN "resync"
    ELSE IF WellFormed(doc) /\ Normalized(Described(doc, Current.inv)) = doc.hash
         THEN "accept" ELSE "malformed"

\* ingest_scan: the same key again is answered as before, evidence of an
\* accepted or an expired scan is refused.
Answer(i) ==
    LET doc == rows[i].doc
    IN  IF \E n \in DOMAIN accepted : accepted[n].row = i THEN "replay"
        ELSE IF doc.scan \in AcceptedScans \cup expired THEN "conflict"
        ELSE Reconstruct(doc)

Accepted(i) ==
    Append(accepted, [doc |-> rows[i].doc, row |-> i,
                      inv |-> Normalized(Described(rows[i].doc, Current.inv))])

-----------------------------------------------------------------------------
(* Delivery                                                                *)

\* The answer reaches the worker, or is lost and the row stays queued.
Deliver(i) ==
    /\ i \in Ids /\ Ready(i) /\ Answer(i) \in {"accept", "replay"}
    /\ accepted' = IF Answer(i) = "accept" THEN Accepted(i) ELSE accepted
    /\ \/ rows' = [rows EXCEPT ![i].status = "SUCCEEDED"]
       \/ rows' = rows
    /\ UNCHANGED <<seen, snaps, expired, restores>>

\* schedule_full_resync: the stored snapshot of the refused document, with a
\* null base.
Recovery(i) == Full(rows[i].doc.scan, snaps[rows[i].doc.scan].inv, None)

CanResync(i) == ~rows[i].recovery /\ rows[i].doc.scan \in Stored

Dead(i, by) == [rows EXCEPT ![i].status = "DEAD", ![i].by = by]

\* A refusal: the row is replaced by a full resync in its place, or dies.
Conflict(i) ==
    /\ i \in Ids /\ Ready(i) /\ Answer(i) \in {"resync", "malformed", "conflict"}
    /\ IF ~CanResync(i) THEN rows' = Dead(i, 0)
       ELSE LET known == SameKey(rows[i].doc.scan, TRUE)
            IN  IF known # {} THEN rows' = Dead(i, CHOOSE r \in known : TRUE)
                ELSE /\ Len(rows) < MaxRows
                     /\ rows' = Append(Dead(i, Len(rows) + 1),
                                       Row(Recovery(i), rows[i].pred, TRUE))
    /\ UNCHANGED <<seen, snaps, accepted, expired, restores>>

\* requeue_dead_upload.
Requeue(i) ==
    /\ i \in Ids /\ rows[i].status = "DEAD" /\ rows[i].by = 0
    /\ rows' = [rows EXCEPT ![i].status = "PENDING"]
    /\ UNCHANGED <<seen, snaps, accepted, expired, restores>>

-----------------------------------------------------------------------------
(* Retention and faults                                                    *)

Nulled(id, i) == IF id = i THEN 0 ELSE id

\* purge_succeeded_uploads on one row, with ON DELETE SET NULL.
Purge(i) ==
    /\ Retention /\ i \in Ids
    /\ \/ rows[i].status = "SUCCEEDED" /\ \A j \in Ids : rows[j].by # i
       \/ rows[i].status = "DEAD" /\ Resolved(i)
    /\ rows' = [j \in Ids |->
                  IF j = i THEN [rows[i] EXCEPT !.status = "GONE", !.pred = 0, !.by = 0]
                  ELSE [rows[j] EXCEPT !.pred = Nulled(@, i), !.by = Nulled(@, i)]]
    /\ UNCHANGED <<seen, snaps, accepted, expired, restores>>

\* The snapshot after a pruned one becomes a baseline.
Orphaned(snap) == [snap EXCEPT !.prev = 0, !.initial = TRUE, !.changes = {}]

\* prune_completed_scan_records on one scan.
Prune(k) ==
    /\ Retention /\ k \in Stored /\ k # Latest
    /\ \A i \in Ids : Live(i) /\ rows[i].doc.scan = k => Resolved(i)
    /\ snaps' = [n \in DOMAIN snaps |->
                   IF n = k THEN None
                   ELSE IF n \in Stored /\ snaps[n].prev = k THEN Orphaned(snaps[n])
                   ELSE snaps[n]]
    /\ UNCHANGED <<seen, rows, accepted, expired, restores>>

\* The cloud's database is restored from a backup taken after n acceptances.
Restore(n) ==
    /\ restores < MaxRestores /\ n < Len(accepted)
    /\ accepted' = SubSeq(accepted, 1, n)
    /\ restores' = restores + 1
    /\ UNCHANGED <<seen, snaps, rows, expired>>

\* A poll after its deadline marks a dispatched job expired.
Expire(k) ==
    /\ k \in DOMAIN snaps \ (AcceptedScans \cup expired)
    /\ expired' = expired \cup {k}
    /\ UNCHANGED <<seen, snaps, rows, accepted, restores>>

Init ==
    /\ seen = <<>> /\ snaps = <<>> /\ rows = <<>> /\ accepted = <<>>
    /\ expired = {} /\ restores = 0

Next ==
    \/ \E o \in Observations : Scan(o)
    \/ \E k \in Scans : Reconcile(k) \/ Prune(k) \/ Expire(k)
    \/ \E i \in 1..MaxRows : Deliver(i) \/ Conflict(i) \/ Requeue(i) \/ Purge(i)
    \/ \E n \in 0..MaxScans : Restore(n)

Spec == Init /\ [][Next]_vars

-----------------------------------------------------------------------------
\* What the scans up to k have last observed of a section; None when nothing
\* was found or nothing looked.
LastSeen(k, s) ==
    LET looked == {n \in 1..k : s \in seen[n].observed}
        n      == CHOOSE m \in looked : \A l \in looked : l <= m
    IN  IF looked = {} \/ s \notin DOMAIN seen[n].values THEN None ELSE seen[n].values[s]

\* Whatever was lost, pruned, replaced or restored: the inventory accepted for
\* a scan shows of every section what was last observed up to that scan.
ReportedAsObserved ==
    \A n \in DOMAIN accepted :
        \A s \in Sections \ Telemetry :
            (IF s \in DOMAIN accepted[n].inv THEN accepted[n].inv[s] ELSE None)
                = LastSeen(accepted[n].doc.scan, s)

\* A document of the endpoint is refused for its base or its scan's state, never
\* for its content: differences and their application fit each other.
NeverMalformed == \A i \in Ids : Ready(i) => Answer(i) # "malformed"

SetBack ==
    /\ Len(accepted') > Len(accepted) /\ accepted # <<>>
    /\ Last(accepted').doc.scan < Last(accepted).doc.scan

\* Only after a restore of the cloud's database is a newer inventory replaced by
\* that of an older scan.
SetBackOnlyByRestore == [][SetBack => restores > 0]_vars

\* "so stale full uploads cannot silently replace newer state": the code does
\* not guarantee this once the stream has forked.
NeverSetBack == [][~SetBack]_vars
=============================================================================

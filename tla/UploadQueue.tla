---------------------------- MODULE UploadQueue ----------------------------
(***************************************************************************)
(* The endpoint's durable outbox: the SQLite table upload_queue, the       *)
(* storage transactions that change it (app/storage/upload_queue.py), the  *)
(* scan-lifecycle transactions that fill it (app/orchestrator), the        *)
(* retention that empties it, and the workers that deliver its rows over   *)
(* HTTP (app/transport/worker.py).  Several workers may run at once: the   *)
(* agent service and the `upload` command are separate processes on one    *)
(* database.  Every storage operation is one IMMEDIATE transaction, hence  *)
(* one step here; between two operations anything may interleave, and a    *)
(* worker may die.                                                         *)
(*                                                                         *)
(* The cloud is external: it may accept a request, refuse it with 409/412, *)
(* or fail, and an answer may be lost after the cloud committed.  Module   *)
(* InventorySync puts the real ingest code in its place.                   *)
(***************************************************************************)
EXTENDS Integers, FiniteSets

CONSTANTS
    Scans,          \* scan identifiers
    EndpointOf,     \* [Scans -> endpoints]: the endpoint a scan inspects
    Failing,        \* scans whose execution may fail
    Rejected,       \* scans whose job document the agent may refuse
    Workers,        \* processes running UploadWorker.run_once
    MaxUploads,     \* bound: rows ever inserted (upload_id is AUTOINCREMENT)
    MaxTime,        \* bound: clock; its last tick stands for all later time
    Lease,          \* lease_seconds, in ticks
    Delays,         \* retry delays: backoff with jitter, or Retry-After
    MaxAttempts,    \* max_attempts of a queued upload
    RetryLimits,    \* values an operator may give max_attempts
    MaxGranted,     \* bound: attempts ever granted to one row by requeues
    PurgeLimits,    \* values of the purge's row limit
    None            \* SQL NULL where an id or a key is expected

ASSUME ConstantsAssumption ==
    /\ MaxUploads \in Nat /\ MaxTime \in Nat /\ Lease \in Nat /\ MaxGranted \in Nat
    /\ Delays \subseteq Nat
    /\ MaxAttempts \in Nat \ {0}
    /\ RetryLimits \subseteq Nat \ {0}
    /\ PurgeLimits \subseteq Nat \ {0}
    /\ \A s \in Scans : EndpointOf[s] # None

VARIABLES
    rows,       \* [Ids -> Row], the table; an id is FREE until inserted
    now,        \* the clock the claims and the backoff read
    worker,     \* [Workers -> Worker], the upload a worker has in its hands
    record,     \* [Scans -> "absent" | "stored" | "pruned"], the scan's
                \* result and inventory snapshot in the local database
    latest,     \* per endpoint, the scan of its newest snapshot, or None
    accepted    \* idempotency keys whose request the cloud has committed

vars == <<rows, now, worker, record, latest, accepted>>

-----------------------------------------------------------------------------
(* Data                                                                    *)

Ids == 1 .. MaxUploads
NoId == 0                              \* a NULL foreign key
Endpoints == {EndpointOf[s] : s \in Scans}

(* A scan queues its result, its terminal status (a distinct key when the  *)
(* status is FAILED), or the rejection of its job document.                *)
Kinds == {"result", "status", "failed", "rejection"}
CausalKinds == {"result", "status", "failed"}

Messages == [scan : Scans, kind : Kinds]

(* The idempotency key: the message's own, or that of its full resync.     *)
Keys == [msg : Messages, recovery : BOOLEAN]
UploadKey(m) == [msg |-> m, recovery |-> FALSE]

(* _causal_group: one stream per endpoint for the state-dependent kinds.   *)
CausalGroup(m) == IF m.kind \in CausalKinds THEN EndpointOf[m.scan] ELSE None

Status == {"FREE", "PENDING", "IN_FLIGHT", "SUCCEEDED", "DEAD", "GONE"}

Row ==
    [ key        : Keys \cup {None},
      group      : Endpoints \cup {None},
      status     : Status,
      attempts   : Nat,        \* attempt_count
      limit      : Nat,        \* max_attempts
      nextAt     : Nat,        \* next_attempt_at; read only when PENDING
      token      : Nat,        \* lease_token; 0 is NULL
      until      : Nat,        \* leased_until; read only when IN_FLIGHT
      pred       : Ids \cup {NoId},
      superseder : Ids \cup {NoId},
      resyncFor  : Ids \cup {NoId},
      claims     : Nat,        \* leases ever issued: makes tokens unique
      granted    : Nat ]       \* history: attempts ever granted

Answers == {"ok", "conflict", "retry", "permanent"}

(* What run_once holds between its storage calls: nothing, a claimed       *)
(* upload, or a claimed upload and the answer to its request.              *)
Worker ==
    [ phase  : {"idle", "claimed", "answered"},
      id     : Ids \cup {NoId},
      key    : Keys \cup {None},
      token  : Nat,
      answer : Answers \cup {None} ]

Idle == [phase |-> "idle", id |-> NoId, key |-> None, token |-> 0, answer |-> None]

NoRow(status) ==
    [ key |-> None, group |-> None, status |-> status, attempts |-> 0,
      limit |-> 0, nextAt |-> 0, token |-> 0, until |-> 0, pred |-> NoId,
      superseder |-> NoId, resyncFor |-> NoId, claims |-> 0, granted |-> 0 ]

(* The last tick stands for every later instant.                           *)
After(d) == IF now + d > MaxTime THEN MaxTime ELSE now + d

-----------------------------------------------------------------------------
(* The table                                                               *)

Live(rs, i) == rs[i].status \notin {"FREE", "GONE"}

(* The upload, or the full resync that replaced it, was delivered.         *)
Resolved(rs, i) ==
    \/ rs[i].status = "SUCCEEDED"
    \/ /\ rs[i].superseder # NoId
       /\ rs[rs[i].superseder].status = "SUCCEEDED"

(* What claim_uploads and the retention ask of a predecessor or a scan.    *)
PredecessorResolved(rs, i) ==
    rs[i].pred # NoId => Resolved(rs, rs[i].pred)

WithKey(rs, k) == {i \in Ids : Live(rs, i) /\ rs[i].key = k}

(* The next AUTOINCREMENT value; empty when the bound is reached.          *)
NextId(rs) ==
    {i \in Ids : rs[i].status = "FREE" /\ \A j \in Ids : j < i => rs[j].status # "FREE"}

(* Mutant: the oldest row of the stream instead of the newest.             *)
StreamHead(rs, g) ==
    LET stream == {i \in Ids : Live(rs, i) /\ rs[i].group = g}
    IN  IF g = None \/ stream = {} THEN {NoId}
        ELSE {i \in stream : \A j \in stream : i <= j}

(* ORDER BY upload_id DESC LIMIT 1 over one causal group.                  *)
StreamTail(rs, g) ==
    LET stream == {i \in Ids : Live(rs, i) /\ rs[i].group = g}
    IN  IF g = None \/ stream = {} THEN {NoId}
        ELSE {i \in stream : \A j \in stream : j <= i}

NewRow(k, g, limit, pred, resyncFor) ==
    [ NoRow("PENDING") EXCEPT
        !.key = k, !.group = g, !.limit = limit, !.granted = limit,
        !.nextAt = now, !.pred = pred, !.resyncFor = resyncFor ]

(* enqueue_upload: the tables that may result (a singleton, or none when   *)
(* the bound on ids is reached).  A key already queued inserts nothing.    *)
EnqueueUpload(rs, m) ==
    IF WithKey(rs, UploadKey(m)) # {} THEN {rs}
    ELSE {[rs EXCEPT ![i] = NewRow(UploadKey(m), CausalGroup(m), MaxAttempts, p, NoId)] :
             i \in NextId(rs), p \in StreamTail(rs, CausalGroup(m))}

Unleased(r, status) == [r EXCEPT !.status = status, !.token = 0, !.until = 0]
DeadAsFailed(r) == [Unleased(r, "FAILED") EXCEPT !.nextAt = 0]   \* mutant
Dead(r) == [Unleased(r, "DEAD") EXCEPT !.nextAt = 0]
Retry(r, at) == [Unleased(r, "PENDING") EXCEPT !.nextAt = at]

(* Mutant: a crash is not counted as an attempt.                           *)
ExpireLeasesRefundingAttempts(rs) ==
    [i \in Ids |->
        IF rs[i].status = "IN_FLIGHT" /\ rs[i].until <= now
        THEN [Retry(rs[i], now) EXCEPT !.attempts = @ - 1]
        ELSE rs[i]]

(* The two UPDATEs that open claim_uploads.                                *)
ExpireLeases(rs) ==
    [i \in Ids |->
        IF rs[i].status = "IN_FLIGHT" /\ rs[i].until <= now
        THEN IF rs[i].attempts >= rs[i].limit THEN Dead(rs[i]) ELSE Retry(rs[i], now)
        ELSE rs[i]]

(* Mutant: a dead predecessor is skipped.                                  *)
ClaimableBehindDead(rs, i) ==
    /\ rs[i].status = "PENDING" /\ rs[i].nextAt <= now /\ rs[i].attempts < rs[i].limit
    /\ rs[i].pred # NoId => rs[rs[i].pred].status \in {"SUCCEEDED", "DEAD"}

(* Mutant: the join on the replacement is missing.                         *)
ClaimableWithoutReplacement(rs, i) ==
    /\ rs[i].status = "PENDING" /\ rs[i].nextAt <= now /\ rs[i].attempts < rs[i].limit
    /\ rs[i].pred # NoId => rs[rs[i].pred].status = "SUCCEEDED"

Claimable(rs, i) ==
    /\ rs[i].status = "PENDING"
    /\ rs[i].nextAt <= now
    /\ rs[i].attempts < rs[i].limit
    /\ PredecessorResolved(rs, i)

(* ORDER BY next_attempt_at, upload_id LIMIT 1.                            *)
FirstClaimable(rs) ==
    {i \in Ids :
        /\ Claimable(rs, i)
        /\ \A j \in Ids :
              Claimable(rs, j) =>
                  \/ rs[i].nextAt < rs[j].nextAt
                  \/ rs[i].nextAt = rs[j].nextAt /\ i <= j}

(* Mutant: every lease of a row carries the same token.                    *)
ClaimedWithOldToken(r) ==
    [r EXCEPT !.status = "IN_FLIGHT", !.attempts = @ + 1, !.claims = @ + 1,
              !.token = 1, !.until = After(Lease), !.nextAt = 0]

Claimed(r) ==
    [r EXCEPT !.status = "IN_FLIGHT", !.attempts = @ + 1, !.claims = @ + 1,
              !.token = r.claims + 1, !.until = After(Lease), !.nextAt = 0]

(* Mutant: the lease token is not compared.                                *)
HoldsAnyLease(rs, i, token) == i # NoId /\ rs[i].status = "IN_FLIGHT"

(* WHERE upload_id=? AND status='IN_FLIGHT' AND lease_token=?              *)
HoldsLease(rs, i, token) ==
    i # NoId /\ rs[i].status = "IN_FLIGHT" /\ rs[i].token = token

MarkSucceeded(rs, i) == [rs EXCEPT ![i] = [Unleased(@, "SUCCEEDED") EXCEPT !.nextAt = 0]]

(* mark_upload_failed: dead when permanent or out of attempts.             *)
MarkFailed(rs, i, permanent, delay) ==
    IF permanent \/ rs[i].attempts >= rs[i].limit
    THEN [rs EXCEPT ![i] = Dead(@)]
    ELSE [rs EXCEPT ![i] = Retry(@, After(delay))]

(* Mutant: a refused full resync is replaced by another one.               *)
CanResyncAgain(rs, i) ==
    rs[i].key.msg.kind = "result" /\ record[rs[i].key.msg.scan] = "stored"

(* schedule_full_resync refuses a recovery, a document without inventory   *)
(* state, and a scan whose snapshot retention has removed.                 *)
CanResync(rs, i) ==
    /\ ~rs[i].key.recovery
    /\ rs[i].key.msg.kind = "result"
    /\ record[rs[i].key.msg.scan] = "stored"

ResyncKey(rs, i) == [msg |-> rs[i].key.msg, recovery |-> TRUE]

(* Mutant: the replaced original counts as delivered.                      *)
SupersedeAsDelivered(rs, i, r) ==
    [rs EXCEPT ![i] = [Unleased(@, "SUCCEEDED") EXCEPT !.nextAt = 0, !.superseder = r]]

Supersede(rs, i, r) == [rs EXCEPT ![i] = [Dead(@) EXCEPT !.superseder = r]]

(* Mutant: the full resync joins the end of the stream.                    *)
ScheduleFullResyncAtTail(rs, i) ==
    {Supersede([rs EXCEPT ![r] =
                   NewRow(ResyncKey(rs, i), rs[i].group, rs[i].limit, p, i)],
               i, r) : r \in NextId(rs), p \in StreamTail(rs, rs[i].group)}

(* The tables that may result: the recovery already queued for this scan   *)
(* is reused, otherwise it is inserted with the original's stream, place   *)
(* and retry limit.                                                        *)
ScheduleFullResync(rs, i) ==
    IF WithKey(rs, ResyncKey(rs, i)) # {}
    THEN {Supersede(rs, i, r) : r \in WithKey(rs, ResyncKey(rs, i))}
    ELSE {Supersede([rs EXCEPT ![r] =
                        NewRow(ResyncKey(rs, i), rs[i].group, rs[i].limit, rs[i].pred, i)],
                    i, r) : r \in NextId(rs)}

-----------------------------------------------------------------------------
(* The scan lifecycle fills the outbox                                     *)

(* The transaction that ends execute(): result, snapshot, the queued       *)
(* result and the queued terminal status are saved together.               *)
CompleteScan(s) ==
    /\ record[s] = "absent"
    /\ \E rs \in EnqueueUpload(rows, [scan |-> s, kind |-> "result"]) :
           rows' \in EnqueueUpload(rs, [scan |-> s, kind |-> "status"])
    /\ record' = [record EXCEPT ![s] = "stored"]
    /\ latest' = [latest EXCEPT ![EndpointOf[s]] = s]
    /\ UNCHANGED <<now, worker, accepted>>

(* execute() on a scan whose result is stored: the outbox rows are queued  *)
(* again unless they are still there.                                      *)
ReconcileScan(s) ==
    /\ record[s] = "stored"
    /\ \E rs \in EnqueueUpload(rows, [scan |-> s, kind |-> "result"]) :
           rows' \in EnqueueUpload(rs, [scan |-> s, kind |-> "status"])
    /\ UNCHANGED <<now, worker, record, latest, accepted>>

(* A scan that failed queues only its FAILED status, in a transaction of   *)
(* its own; reconcile_terminal_statuses repeats it with the same key.      *)
FailScan(s) ==
    /\ s \in Failing
    /\ record[s] = "absent"
    /\ rows' \in EnqueueUpload(rows, [scan |-> s, kind |-> "failed"])
    /\ UNCHANGED <<now, worker, record, latest, accepted>>

(* The agent refuses a job document: a message outside every stream.       *)
RejectJob(s) ==
    /\ s \in Rejected
    /\ rows' \in EnqueueUpload(rows, [scan |-> s, kind |-> "rejection"])
    /\ UNCHANGED <<now, worker, record, latest, accepted>>

-----------------------------------------------------------------------------
(* Delivery: UploadWorker.run_once                                         *)

(* claim_uploads(limit=1).  Expired leases are returned even when nothing  *)
(* is left to claim; then the loop ends and the worker stays idle.         *)
Claim(w) ==
    LET rs == ExpireLeases(rows)
    IN  /\ worker[w].phase = "idle"
        /\ \/ /\ FirstClaimable(rs) = {}
              /\ rows' = rs
              /\ UNCHANGED worker
           \/ \E i \in FirstClaimable(rs) :
                 /\ rows' = [rs EXCEPT ![i] = Claimed(@)]
                 /\ worker' = [worker EXCEPT ![w] =
                                 [phase |-> "claimed", id |-> i, key |-> rs[i].key,
                                  token |-> Claimed(rs[i]).token, answer |-> None]]
        /\ UNCHANGED <<now, record, latest, accepted>>

(* The HTTP request, external: the cloud commits it or not, and the worker *)
(* sees an answer.  A committed key is replayed, never refused.  A lost or *)
(* unreadable answer (retryable, or a permanent protocol error) leaves     *)
(* both outcomes open.                                                     *)
Request(w, a) ==
    LET k == worker[w].key
    IN  /\ worker[w].phase = "claimed"
        /\ CASE a = "ok"       -> accepted' = accepted \cup {k}
             [] a = "conflict" -> k \notin accepted /\ UNCHANGED accepted
             [] OTHER          -> accepted' \in {accepted, accepted \cup {k}}
        /\ worker' = [worker EXCEPT ![w].phase = "answered", ![w].answer = a]
        /\ UNCHANGED <<rows, now, record, latest>>

(* What the answer makes of the row, in one storage transaction, provided  *)
(* the lease is still the worker's.  A worker that lost it changes         *)
(* nothing: mark_upload_succeeded reports False, the others raise and end  *)
(* the run.  A conflict that cannot be resynchronised is a dead letter.    *)
Settle(w) ==
    LET u == worker[w]
        i == u.id
    IN  /\ u.phase = "answered"
        /\ worker' = [worker EXCEPT ![w] = Idle]
        /\ IF ~HoldsLease(rows, i, u.token) THEN UNCHANGED rows
           ELSE CASE u.answer = "ok" ->
                        rows' = MarkSucceeded(rows, i)
                  [] u.answer = "conflict" /\ CanResync(rows, i) ->
                        rows' \in ScheduleFullResync(rows, i)
                  [] u.answer = "retry" ->
                        \E d \in Delays : rows' = MarkFailed(rows, i, FALSE, d)
                  [] OTHER ->
                        rows' = MarkFailed(rows, i, TRUE, 0)
        /\ UNCHANGED <<now, record, latest, accepted>>

(* The process dies; whatever it had in flight stays leased.               *)
Crash(w) ==
    /\ worker[w].phase # "idle"
    /\ worker' = [worker EXCEPT ![w] = Idle]
    /\ UNCHANGED <<rows, now, record, latest, accepted>>

Tick ==
    /\ now < MaxTime
    /\ now' = now + 1
    /\ UNCHANGED <<rows, worker, record, latest, accepted>>

-----------------------------------------------------------------------------
(* The operator and retention                                              *)

Requeued(r, limit) ==
    [Retry(r, now) EXCEPT !.attempts = 0, !.limit = limit, !.granted = @ + limit]

(* requeue_dead_upload: only a dead row that nothing replaced; payload,    *)
(* key and causal links stay.  granted is the audit trail of the limits.   *)
Requeue(i, limit) ==
    /\ rows[i].status = "DEAD"
    /\ rows[i].superseder = NoId
    /\ rows[i].granted + limit <= MaxGranted
    /\ rows' = [rows EXCEPT ![i] = Requeued(@, limit)]
    /\ UNCHANGED <<now, worker, record, latest, accepted>>

(* The LIMIT of an ORDER BY upload_id.                                     *)
FirstOf(S, n) == {i \in S : Cardinality({j \in S : j < i}) < n}

(* DELETE, with the foreign keys' ON DELETE SET NULL.                      *)
Nulled(id, D) == IF id \in D THEN NoId ELSE id

Unlinked(r, D) ==
    [r EXCEPT !.pred       = Nulled(@, D),
              !.superseder = Nulled(@, D),
              !.resyncFor  = Nulled(@, D)]

Deleted(rs, D) ==
    [i \in Ids |-> IF i \in D THEN NoRow("GONE") ELSE Unlinked(rs[i], D)]

(* Delivered rows no remaining original names as its replacement.          *)
Purgeable(old, gone) == {i \in old : \A j \in Ids \ gone : rows[j].superseder # i}

(* purge_succeeded_uploads.  Which delivered rows are older than the       *)
(* cutoff is any set `old` of delivered rows.  First the dead originals    *)
(* whose replacement is old, then the old rows no original still names.    *)
Purge(old, limit) ==
    LET originals == FirstOf({i \in Ids : rows[i].status = "DEAD"
                                          /\ rows[i].superseder \in old}, limit)
        left      == limit - Cardinality(originals)
    IN  /\ old \subseteq {i \in Ids : rows[i].status = "SUCCEEDED"}
        /\ rows' = Deleted(rows, originals \cup
                                 (IF left = 0 THEN {} ELSE FirstOf(Purgeable(old, originals), left)))
        /\ UNCHANGED <<now, worker, record, latest, accepted>>

(* Mutant: dead letters do not protect their scan.                         *)
BlocksUnlessDead(rs, i, s) ==
    rs[i].status \in {"PENDING", "IN_FLIGHT"} /\ rs[i].key.msg.scan = s

(* A scan is kept while one of its rows is undelivered and not replaced by *)
(* a delivered one.  A rejection's metadata carries no scan_id.            *)
Blocks(rs, i, s) ==
    /\ Live(rs, i)
    /\ ~Resolved(rs, i)
    /\ rs[i].key.msg.kind # "rejection"
    /\ rs[i].key.msg.scan = s

(* prune_completed_scan_records on one scan: never the newest snapshot of  *)
(* an endpoint, never a scan the outbox still needs.                       *)
PruneScan(s) ==
    /\ record[s] = "stored"
    /\ latest[EndpointOf[s]] # s
    /\ \A i \in Ids : ~Blocks(rows, i, s)
    /\ record' = [record EXCEPT ![s] = "pruned"]
    /\ UNCHANGED <<rows, now, worker, latest, accepted>>

-----------------------------------------------------------------------------
(* Specification                                                           *)

Init ==
    /\ rows = [i \in Ids |-> NoRow("FREE")]
    /\ now = 0
    /\ worker = [w \in Workers |-> Idle]
    /\ record = [s \in Scans |-> "absent"]
    /\ latest = [e \in Endpoints |-> None]
    /\ accepted = {}

Deliver(w) ==
    \/ Claim(w)
    \/ \E a \in Answers : Request(w, a)
    \/ Settle(w)

Next ==
    \/ \E s \in Scans :
          CompleteScan(s) \/ ReconcileScan(s) \/ FailScan(s) \/ RejectJob(s) \/ PruneScan(s)
    \/ \E w \in Workers : Deliver(w) \/ Crash(w)
    \/ Tick
    \/ \E i \in Ids, n \in RetryLimits : Requeue(i, n)
    \/ \E old \in SUBSET Ids, n \in PurgeLimits : Purge(old, n)

Spec == Init /\ [][Next]_vars

(* The workers are loops that poll the queue, and time passes.  Nothing is *)
(* assumed of the cloud's answers, of crashes or of the operator.          *)
Fairness ==
    /\ WF_vars(Tick)
    /\ \A w \in Workers :
          /\ WF_vars(Claim(w))
          /\ WF_vars(\E a \in Answers : Request(w, a))
          /\ WF_vars(Settle(w))

FairSpec == Spec /\ Fairness

-----------------------------------------------------------------------------
(* Properties                                                              *)

(* The table is well typed; so is what the workers hold.                   *)
TypeOK ==
    /\ rows \in [Ids -> Row]
    /\ now \in 0 .. MaxTime
    /\ worker \in [Workers -> Worker]
    /\ record \in [Scans -> {"absent", "stored", "pruned"}]
    /\ latest \in [Endpoints -> Scans \cup {None}]
    /\ accepted \subseteq Keys

(* Causal delivery: a row was never leased, let alone delivered, before    *)
(* the upload it is linked behind was delivered or replaced by a delivered *)
(* one -- through crashes, expired leases, resyncs, requeues and purges    *)
(* (claim_uploads' join on predecessor and replacement).                   *)
CausalDelivery ==
    \A i \in Ids :
        rows[i].status \in {"IN_FLIGHT", "SUCCEEDED"} => PredecessorResolved(rows, i)

(* A lease has at most one owner: of all the workers that ever claimed a   *)
(* row, a single one still passes the lease check of the mark_* calls.     *)
LeaseExclusive ==
    \A v, w \in Workers :
        /\ v # w
        /\ worker[v].id # NoId
        /\ worker[v].id = worker[w].id
        => ~(HoldsLease(rows, worker[v].id, worker[v].token)
             /\ HoldsLease(rows, worker[w].id, worker[w].token))

(* SUCCEEDED means the cloud has it: a late or stale worker never marks    *)
(* delivered what the cloud did not commit (at-least-once delivery).       *)
DeliveredIsAccepted ==
    \A i \in Ids : rows[i].status = "SUCCEEDED" => rows[i].key \in accepted

(* A row is leased, hence sent, at most as often as max_attempts and the   *)
(* audited operator requeues allow, whatever crashes in between.           *)
AttemptBudget ==
    \A i \in Ids : rows[i].claims <= rows[i].granted

(* One recovery generation: what replaces an upload is a full resync, is   *)
(* itself never replaced, replaces nothing else, and stays until its       *)
(* original is gone -- so a blocked stream always ends at a row that can   *)
(* still be sent or that the operator can requeue.                         *)
OneRecoveryGeneration ==
    \A i \in Ids :
        rows[i].superseder # NoId =>
            LET r == rows[i].superseder
            IN  /\ rows[i].status = "DEAD"
                /\ Live(rows, r)
                /\ rows[r].key = ResyncKey(rows, i)
                /\ rows[r].superseder = NoId

(* Links lead to older rows, so waiting for a predecessor is never         *)
(* circular, not even through a replacement, which is younger.             *)
NoCircularWait ==
    \A i \in Ids :
        rows[i].pred # NoId =>
            /\ Live(rows, rows[i].pred)
            /\ rows[i].pred < i
            /\ rows[i].resyncFor # NoId => rows[i].pred < rows[i].resyncFor

(* Retention against the outbox: while a differential upload may still be  *)
(* refused, the snapshot its full resync is built from is kept.            *)
ResyncSourceKept ==
    \A i \in Ids :
        /\ Live(rows, i)
        /\ rows[i].key.msg.kind = "result"
        /\ ~Resolved(rows, i)
        => record[rows[i].key.msg.scan] = "stored"

(* The table as an outbox of messages: a message is queued while its row   *)
(* is unresolved, and waits for the message of an unresolved predecessor.  *)
Original(rs, i) == Live(rs, i) /\ ~rs[i].key.recovery

QueuedIn(rs) == {rs[i].key.msg : i \in {j \in Ids : Original(rs, j) /\ ~Resolved(rs, j)}}

DeliveredIn(rs) == {rs[i].key.msg : i \in {j \in Ids : Original(rs, j) /\ Resolved(rs, j)}}

Waiting(rs, i) ==
    Original(rs, i) /\ ~Resolved(rs, i) /\ ~PredecessorResolved(rs, i)

BehindIn(rs) ==
    {<<rs[i].key.msg, rs[rs[i].pred].key.msg>> : i \in {j \in Ids : Waiting(rs, j)}}

Committed == {k.msg : k \in accepted}

(* Evidence is never lost, overtaken or forgotten too early, as            *)
(* DurableOutbox says it: a queued message stays queued until the cloud    *)
(* has committed it, in either form; no request, not even a late one of a  *)
(* worker that lost its lease, gives the cloud a message before the one it *)
(* was queued behind; a delivered message never becomes undelivered, and   *)
(* retention removes no other.                                             *)
Outbox == INSTANCE DurableOutbox WITH
              StreamOf <- [m \in Messages |-> CausalGroup(m)],
              queued <- QueuedIn(rows),
              delivered <- DeliveredIn(rows),
              behind <- BehindIn(rows),
              committed <- Committed

ImplementsOutbox == Outbox!OutboxSpec

(* A leased row leaves IN_FLIGHT only through the worker that holds the    *)
(* lease and has an answer, or because the lease ran out.                  *)
LeaseFencing ==
    [][\A i \in Ids :
          rows[i].status = "IN_FLIGHT" /\ rows'[i].status # "IN_FLIGHT" =>
              \/ rows[i].until <= now
              \/ \E w \in Workers :
                    /\ worker[w].phase = "answered"
                    /\ worker[w].id = i
                    /\ worker[w].token = rows[i].token]_vars

(* Nothing waits silently: every queued upload is eventually delivered,    *)
(* replaced by a delivered resync, or dead; or its stream waits behind a   *)
(* dead row that the operator can requeue.                                 *)
HaltedStream(i) ==
    \E j \in Ids :
        /\ rows[j].status = "DEAD"
        /\ rows[j].superseder = NoId
        /\ rows[j].group = rows[i].group
        /\ rows[j].group # None

EventuallySettled ==
    \A i \in Ids :
        rows[i].status \in {"PENDING", "IN_FLIGHT"}
            ~> Resolved(rows, i) \/ rows[i].status \in {"DEAD", "GONE"} \/ HaltedStream(i)

=============================================================================

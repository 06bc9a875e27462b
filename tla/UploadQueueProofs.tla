------------------------- MODULE UploadQueueProofs -------------------------
(***************************************************************************)
(* Proofs about UploadQueue, for every set of scans, workers and endpoints *)
(* and every value of the bounds.                                          *)
(***************************************************************************)
EXTENDS UploadQueue, TLAPS

-----------------------------------------------------------------------------
(* Sound rows: a row that exists has a key, and the lease budget: every    *)
(* lease was counted as an attempt under some limit that was granted.      *)
SoundRow ==
    {r \in Row :
        /\ r.status \notin {"FREE", "GONE"} => r.key \in Keys
        /\ r.attempts <= r.limit
        /\ r.claims + r.limit <= r.granted + r.attempts}

Table == [Ids -> SoundRow]

(* What a worker has in its hands is a row of the table.                   *)
Hands == {u \in Worker : u.phase # "idle" => u.id \in Ids /\ u.key \in Keys}

TypeInv ==
    /\ rows \in Table
    /\ now \in 0 .. MaxTime
    /\ worker \in [Workers -> Hands]
    /\ record \in [Scans -> {"absent", "stored", "pruned"}]
    /\ latest \in [Endpoints -> Scans \cup {None}]
    /\ accepted \subseteq Keys

LEMMA TypeInvImplies == TypeInv => TypeOK /\ AttemptBudget
<1> SUFFICES ASSUME TypeInv PROVE TypeOK /\ AttemptBudget
  OBVIOUS
<1>1. TypeOK
  BY DEF TypeInv, TypeOK, Table, SoundRow, Hands
<1>2. ASSUME NEW i \in Ids PROVE rows[i].claims <= rows[i].granted
  <2>1. rows[i] \in SoundRow
    BY DEF TypeInv, Table
  <2> QED
    BY <2>1 DEF SoundRow, Row
<1> QED
  BY <1>1, <1>2 DEF AttemptBudget

-----------------------------------------------------------------------------
(* The rows the operations build are sound                                 *)

LEMMA EmptyRowSound ==
    ASSUME NEW st \in {"FREE", "GONE"}
    PROVE  NoRow(st) \in SoundRow
BY DEF NoRow, SoundRow, Row, Status, NoId

(* Leasing, returning, failing and delivering a row keeps it sound.        *)
LEMMA RowUpdateSound ==
    ASSUME NEW r \in SoundRow, r.status \notin {"FREE", "GONE"}, NEW at \in Nat
    PROVE  /\ Dead(r) \in SoundRow
           /\ Retry(r, at) \in SoundRow
           /\ [Unleased(r, "SUCCEEDED") EXCEPT !.nextAt = 0] \in SoundRow
           /\ \A s \in Ids : [Dead(r) EXCEPT !.superseder = s] \in SoundRow
BY DEF Dead, Retry, Unleased, SoundRow, Row, Status

LEMMA AfterType ==
    ASSUME TypeInv, NEW d \in Nat
    PROVE  After(d) \in Nat
BY ConstantsAssumption DEF After, TypeInv

LEMMA ClaimedSound ==
    ASSUME TypeInv, NEW r \in SoundRow, r.attempts < r.limit, r.key \in Keys
    PROVE  Claimed(r) \in SoundRow
<1>1. After(Lease) \in Nat
  BY AfterType, ConstantsAssumption
<1>2. /\ r.claims + 1 \in Nat /\ r.attempts + 1 \in Nat
      /\ r.attempts + 1 <= r.limit
      /\ r.claims + 1 + r.limit <= r.granted + (r.attempts + 1)
  BY DEF Row, SoundRow
<1>3. "IN_FLIGHT" \in Status /\ 0 \in Nat
  BY DEF Status
<1> HIDE DEF Status, Keys
<1> QED
  BY <1>1, <1>2, <1>3 DEF Claimed, Row, SoundRow

LEMMA NewRowSound ==
    ASSUME TypeInv, NEW k \in Keys, NEW g \in Endpoints \cup {None},
           NEW limit \in Nat, NEW p \in Ids \cup {NoId}, NEW q \in Ids \cup {NoId}
    PROVE  NewRow(k, g, limit, p, q) \in SoundRow
<1> DEFINE row == NewRow(k, g, limit, p, q)
<1>1. now \in Nat
  BY ConstantsAssumption DEF TypeInv
<1>2. row \in Row
  BY <1>1 DEF NewRow, NoRow, Row, Status, NoId
<1>3. row.key = k /\ row.attempts = 0 /\ row.limit = limit /\ row.claims = 0 /\ row.granted = limit
  BY DEF NewRow, NoRow
<1> QED
  BY <1>2, <1>3 DEF SoundRow

-----------------------------------------------------------------------------
(* The tables the operations build are sound                               *)

LEMMA StreamTailType ==
    ASSUME NEW rs, NEW g, NEW p \in StreamTail(rs, g)
    PROVE  p \in Ids \cup {NoId}
BY DEF StreamTail

LEMMA EnqueueSound ==
    ASSUME TypeInv, NEW rs \in Table, NEW m \in Messages, NEW qs \in EnqueueUpload(rs, m)
    PROVE  qs \in Table
<1> DEFINE row(p) == NewRow(UploadKey(m), CausalGroup(m), MaxAttempts, p, NoId)
<1>1. UploadKey(m) \in Keys
  BY DEF Keys, UploadKey
<1>2. CausalGroup(m) \in Endpoints \cup {None}
  BY DEF CausalGroup, Endpoints, Messages
<1>3. CASE WithKey(rs, UploadKey(m)) # {}
  BY <1>3 DEF EnqueueUpload
<1>4. CASE WithKey(rs, UploadKey(m)) = {}
  <2>1. PICK i \in NextId(rs), p \in StreamTail(rs, CausalGroup(m)) :
            qs = [rs EXCEPT ![i] = row(p)]
    BY <1>4 DEF EnqueueUpload
  <2>2. row(p) \in SoundRow
    BY <1>1, <1>2, <2>1, StreamTailType, NewRowSound, ConstantsAssumption
  <2> HIDE DEF row
  <2> QED
    BY <2>1, <2>2 DEF Table, NextId
<1> QED
  BY <1>3, <1>4

LEMMA ExpireSound ==
    ASSUME TypeInv
    PROVE  ExpireLeases(rows) \in Table
<1>1. ASSUME NEW i \in Ids, rows[i].status = "IN_FLIGHT"
      PROVE  Dead(rows[i]) \in SoundRow /\ Retry(rows[i], now) \in SoundRow
  <2>1. rows[i] \in SoundRow /\ now \in Nat
    BY ConstantsAssumption DEF TypeInv, Table
  <2> QED
    BY <1>1, <2>1, RowUpdateSound
<1>2. rows \in Table
  BY DEF TypeInv
<1> QED
  BY <1>1, <1>2 DEF ExpireLeases, Table

LEMMA DeletedSound ==
    ASSUME NEW rs \in Table, NEW D
    PROVE  Deleted(rs, D) \in Table
<1> SUFFICES ASSUME NEW i \in Ids
             PROVE  /\ NoRow("GONE") \in SoundRow
                    /\ Unlinked(rs[i], D) \in SoundRow
  BY DEF Deleted, Table
<1>1. NoRow("GONE") \in SoundRow
  BY EmptyRowSound
<1>2. rs[i] \in SoundRow
  BY DEF Table
<1>3. \A id \in Ids \cup {NoId} : Nulled(id, D) \in Ids \cup {NoId}
  BY DEF Nulled
<1> QED
  BY <1>1, <1>2, <1>3 DEF Unlinked, Row, SoundRow

LEMMA SupersedeSound ==
    ASSUME NEW rs \in Table, NEW i \in Ids, NEW r \in Ids, Live(rs, i)
    PROVE  Supersede(rs, i, r) \in Table
<1>1. rs[i] \in SoundRow /\ 0 \in Nat
  BY DEF Table
<1>2. [Dead(rs[i]) EXCEPT !.superseder = r] \in SoundRow
  BY <1>1, RowUpdateSound DEF Live
<1> QED
  BY <1>2 DEF Supersede, Table

LEMMA ResyncSound ==
    ASSUME TypeInv, NEW i \in Ids, Live(rows, i), NEW qs \in ScheduleFullResync(rows, i)
    PROVE  qs \in Table
<1> DEFINE k      == ResyncKey(rows, i)
           row    == NewRow(k, rows[i].group, rows[i].limit, rows[i].pred, i)
<1>1. rows \in Table /\ rows[i] \in SoundRow
  BY DEF TypeInv, Table
<1>2. k \in Keys
  BY <1>1 DEF Keys, ResyncKey, SoundRow, Live
<1>3. row \in SoundRow
  BY <1>1, <1>2, NewRowSound DEF Row, SoundRow
<1>4. CASE WithKey(rows, k) # {}
  <2>1. PICK r \in WithKey(rows, k) : qs = Supersede(rows, i, r)
    BY <1>4 DEF ScheduleFullResync
  <2> QED
    BY <2>1, <1>1, SupersedeSound DEF WithKey
<1>5. CASE WithKey(rows, k) = {}
  <2>1. PICK r \in NextId(rows) : qs = Supersede([rows EXCEPT ![r] = row], i, r)
    BY <1>5 DEF ScheduleFullResync
  <2>2. r \in Ids /\ r # i
    BY <2>1 DEF NextId, Live
  <2>3. [rows EXCEPT ![r] = row] \in Table
    BY <1>1, <1>3 DEF Table
  <2>4. Live([rows EXCEPT ![r] = row], i)
    BY <1>1, <2>2 DEF Live, Table
  <2> QED
    BY <2>1, <2>2, <2>3, <2>4, SupersedeSound
<1> QED
  BY <1>4, <1>5

-----------------------------------------------------------------------------
(* Type correctness and the attempt budget                                 *)

LEMMA InitTypeInv == Init => TypeInv
<1> SUFFICES ASSUME Init PROVE TypeInv
  OBVIOUS
<1>1. rows \in Table
  BY EmptyRowSound DEF Init, Table
<1>2. Idle \in Hands
  BY DEF Idle, Hands, Worker, NoId
<1>3. now \in 0 .. MaxTime
  BY ConstantsAssumption DEF Init
<1> QED
  BY <1>1, <1>2, <1>3 DEF Init, TypeInv

LEMMA ScanTypeInv ==
    ASSUME TypeInv, NEW s \in Scans,
           CompleteScan(s) \/ ReconcileScan(s) \/ FailScan(s) \/ RejectJob(s) \/ PruneScan(s)
    PROVE  TypeInv'
<1> DEFINE message(kind) == [scan |-> s, kind |-> kind]
<1>1. \A kind \in Kinds : message(kind) \in Messages
  BY DEF Messages
<1>2. {"result", "status", "failed", "rejection"} = Kinds
  BY DEF Kinds
<1>3. rows \in Table
  BY DEF TypeInv
<1>4. rows' \in Table
  <2>1. CASE CompleteScan(s) \/ ReconcileScan(s)
    <3>1. PICK rs \in EnqueueUpload(rows, message("result")) :
              rows' \in EnqueueUpload(rs, message("status"))
      BY <2>1 DEF CompleteScan, ReconcileScan
    <3>2. rs \in Table
      BY <1>1, <1>2, <1>3, <3>1, EnqueueSound
    <3> QED
      BY <1>1, <1>2, <3>1, <3>2, EnqueueSound
  <2>2. CASE FailScan(s)
    BY <1>1, <1>2, <1>3, <2>2, EnqueueSound DEF FailScan
  <2>3. CASE RejectJob(s)
    BY <1>1, <1>2, <1>3, <2>3, EnqueueSound DEF RejectJob
  <2>4. CASE PruneScan(s)
    BY <1>3, <2>4 DEF PruneScan
  <2> QED
    BY <2>1, <2>2, <2>3, <2>4
<1>5. /\ now' = now /\ worker' = worker /\ accepted' = accepted
      /\ record' \in [Scans -> {"absent", "stored", "pruned"}]
      /\ latest' \in [Endpoints -> Scans \cup {None}]
  BY DEF TypeInv, CompleteScan, ReconcileScan, FailScan, RejectJob, PruneScan
<1> QED
  BY <1>4, <1>5 DEF TypeInv

LEMMA ClaimTypeInv ==
    ASSUME TypeInv, NEW w \in Workers, Claim(w)
    PROVE  TypeInv'
<1> DEFINE rs == ExpireLeases(rows)
<1>1. rs \in Table
  BY ExpireSound
<1>2. UNCHANGED <<now, record, latest, accepted>>
  BY DEF Claim
<1> HIDE DEF rs
<1>3. CASE rows' = rs /\ UNCHANGED worker
  BY <1>1, <1>2, <1>3 DEF TypeInv
<1>4. ASSUME NEW i \in FirstClaimable(rs),
             rows' = [rs EXCEPT ![i] = Claimed(@)],
             worker' = [worker EXCEPT ![w] =
                          [phase |-> "claimed", id |-> i, key |-> rs[i].key,
                           token |-> Claimed(rs[i]).token, answer |-> None]]
      PROVE  TypeInv'
  <2>1. i \in Ids /\ rs[i].status = "PENDING" /\ rs[i].attempts < rs[i].limit
    BY DEF FirstClaimable, Claimable
  <2>2. rs[i] \in SoundRow /\ rs[i].key \in Keys
    BY <1>1, <2>1 DEF Table, SoundRow
  <2>3. Claimed(rs[i]) \in SoundRow
    BY <2>1, <2>2, ClaimedSound
  <2>4. rows' \in Table
    BY <1>1, <1>4, <2>1, <2>3 DEF Table
  <2>5. Claimed(rs[i]).token \in Nat
    BY <2>3 DEF SoundRow, Row
  <2>6. worker'[w] \in Hands /\ worker' = [worker EXCEPT ![w] = worker'[w]]
    BY <1>4, <2>1, <2>2, <2>5 DEF Hands, Worker, TypeInv
  <2> QED
    BY <1>2, <2>4, <2>6 DEF TypeInv
<1> QED
  BY <1>3, <1>4 DEF Claim, rs

LEMMA RequestTypeInv ==
    ASSUME TypeInv, NEW w \in Workers, NEW a \in Answers, Request(w, a)
    PROVE  TypeInv'
<1>1. worker[w] \in Hands /\ worker[w].phase = "claimed" /\ worker[w].key \in Keys
  BY DEF TypeInv, Request, Hands
<1>2. accepted' \subseteq Keys
  BY <1>1 DEF TypeInv, Request
<1>3. [worker[w] EXCEPT !.phase = "answered", !.answer = a] \in Hands
  BY <1>1 DEF Hands, Worker
<1>4. worker' \in [Workers -> Hands]
  BY <1>3 DEF TypeInv, Request
<1> QED
  BY <1>2, <1>4 DEF TypeInv, Request

(* What a settled answer may do to the table.                              *)
LEMMA SettleCases ==
    ASSUME NEW w \in Workers, Settle(w)
    PROVE  LET i == worker[w].id IN
           \/ UNCHANGED rows
           \/ /\ HoldsLease(rows, i, worker[w].token)
              /\ worker[w].phase = "answered"
              /\ \/ worker[w].answer = "ok" /\ rows' = MarkSucceeded(rows, i)
                 \/ CanResync(rows, i) /\ rows' \in ScheduleFullResync(rows, i)
                 \/ rows' = [rows EXCEPT ![i] = Dead(@)]
                 \/ \E d \in Delays : rows' = [rows EXCEPT ![i] = Retry(@, After(d))]
BY DEF Settle, MarkFailed

LEMMA SettleTypeInv ==
    ASSUME TypeInv, NEW w \in Workers, Settle(w)
    PROVE  TypeInv'
<1> DEFINE i == worker[w].id
<1>1. rows \in Table
  BY DEF TypeInv
<1>2. rows' \in Table
  <2>1. CASE UNCHANGED rows
    BY <1>1, <2>1
  <2>2. CASE HoldsLease(rows, i, worker[w].token)
    <3>1. i \in Ids /\ Live(rows, i)
      BY <2>2 DEF HoldsLease, Live, TypeInv, Hands, Worker
    <3>2. rows[i] \in SoundRow /\ rows[i].status \notin {"FREE", "GONE"} /\ 0 \in Nat
      BY <1>1, <3>1 DEF Table, Live
    <3>3. CASE rows' = MarkSucceeded(rows, i)
      BY <1>1, <3>1, <3>2, <3>3, RowUpdateSound DEF MarkSucceeded, Table
    <3>4. CASE rows' \in ScheduleFullResync(rows, i)
      BY <3>1, <3>4, ResyncSound
    <3>5. CASE rows' = [rows EXCEPT ![i] = Dead(@)]
      BY <1>1, <3>1, <3>2, <3>5, RowUpdateSound DEF Table
    <3>6. ASSUME NEW d \in Delays, rows' = [rows EXCEPT ![i] = Retry(@, After(d))]
          PROVE  rows' \in Table
      <4>1. After(d) \in Nat
        BY AfterType, ConstantsAssumption
      <4>2. Retry(rows[i], After(d)) \in SoundRow
        BY <3>2, <4>1, RowUpdateSound
      <4> QED
        BY <1>1, <3>1, <3>6, <4>2 DEF Table
    <3> QED
      BY <2>2, <3>3, <3>4, <3>5, <3>6, <2>1, SettleCases
  <2> QED
    BY <2>1, <2>2, SettleCases
<1>3. Idle \in Hands
  BY DEF Idle, Hands, Worker, NoId
<1> QED
  BY <1>2, <1>3 DEF TypeInv, Settle

LEMMA RequeueTypeInv ==
    ASSUME TypeInv, NEW i \in Ids, NEW limit \in RetryLimits, Requeue(i, limit)
    PROVE  TypeInv'
<1> DEFINE q   == Retry(rows[i], now)
           row == Requeued(rows[i], limit)
<1>1. rows[i] \in SoundRow /\ rows[i].status = "DEAD" /\ now \in Nat /\ limit \in Nat
  BY ConstantsAssumption DEF TypeInv, Table, Requeue
<1>2. q \in SoundRow
  BY <1>1, RowUpdateSound
<1>3. q.status = "PENDING" /\ q.key = rows[i].key
  BY <1>1 DEF Retry, Unleased, SoundRow, Row
<1> HIDE DEF q
<1>4. row = [q EXCEPT !.attempts = 0, !.limit = limit, !.granted = @ + limit]
  BY DEF Requeued, q
<1> HIDE DEF row
<1>5. q \in Row /\ q.claims <= q.granted
  BY <1>2 DEF SoundRow, Row
<1>6. q.granted + limit \in Nat /\ 0 \in Nat
  BY <1>1, <1>5 DEF Row
<1>7. row \in Row
  BY <1>1, <1>4, <1>5, <1>6 DEF Row
<1>8. /\ row.key = q.key /\ row.attempts = 0 /\ row.limit = limit
      /\ row.claims = q.claims /\ row.granted = q.granted + limit
  BY <1>4, <1>5 DEF Row
<1>9. row \in SoundRow
  BY <1>1, <1>2, <1>3, <1>5, <1>7, <1>8 DEF SoundRow, Row
<1> QED
  BY <1>9 DEF TypeInv, Table, Requeue, row

LEMMA PurgeTypeInv ==
    ASSUME TypeInv, NEW old, NEW limit, Purge(old, limit)
    PROVE  TypeInv'
<1>1. \E D : rows' = Deleted(rows, D)
  BY DEF Purge
<1> QED
  BY <1>1, DeletedSound DEF TypeInv, Purge

LEMMA NextTypeInv == TypeInv /\ [Next]_vars => TypeInv'
<1> SUFFICES ASSUME TypeInv, [Next]_vars PROVE TypeInv'
  OBVIOUS
<1>1. ASSUME NEW s \in Scans,
             CompleteScan(s) \/ ReconcileScan(s) \/ FailScan(s) \/ RejectJob(s) \/ PruneScan(s)
      PROVE  TypeInv'
  BY <1>1, ScanTypeInv
<1>2. ASSUME NEW w \in Workers, Deliver(w) PROVE TypeInv'
  BY <1>2, ClaimTypeInv, RequestTypeInv, SettleTypeInv DEF Deliver
<1>3. ASSUME NEW w \in Workers, Crash(w) PROVE TypeInv'
  <2>1. Idle \in Hands
    BY DEF Idle, Hands, Worker, NoId
  <2> QED
    BY <1>3, <2>1 DEF TypeInv, Crash
<1>4. CASE Tick
  BY <1>4, ConstantsAssumption DEF TypeInv, Tick
<1>5. ASSUME NEW i \in Ids, NEW n \in RetryLimits, Requeue(i, n) PROVE TypeInv'
  BY <1>5, RequeueTypeInv
<1>6. ASSUME NEW old \in SUBSET Ids, NEW n \in PurgeLimits, Purge(old, n) PROVE TypeInv'
  BY <1>6, PurgeTypeInv
<1>7. CASE UNCHANGED vars
  BY <1>7 DEF TypeInv, vars
<1> QED
  BY <1>1, <1>2, <1>3, <1>4, <1>5, <1>6, <1>7 DEF Next

(* TypeInv holds throughout; it is what the other proofs start from.       *)
THEOREM TypeInvariance == Spec => []TypeInv
BY InitTypeInv, NextTypeInv, PTL DEF Spec

(* The table and the workers stay well typed (SQLite's CHECKs on status,   *)
(* attempt_count and the foreign keys are never what refuses a step).      *)
THEOREM TypeCorrect == Spec => []TypeOK
BY TypeInvariance, TypeInvImplies, PTL

(* No interleaving of crashes, expiries, retries and requeues leases a row *)
(* more often than max_attempts and the operator's requeues granted.       *)
THEOREM AttemptsBounded == Spec => []AttemptBudget
BY TypeInvariance, TypeInvImplies, PTL

-----------------------------------------------------------------------------
(* Leases and delivery marks                                               *)

(* Tokens are numbered per row, a worker's is not ahead of its row's, and  *)
(* no two workers have the same one; an "ok" in a worker's hands, like a   *)
(* delivered row, is of a key the cloud has committed.                     *)
LeaseInv ==
    /\ \A w \in Workers : worker[w].phase = "idle" => worker[w].id = NoId
    /\ \A w \in Workers :
          worker[w].phase # "idle" =>
              /\ rows[worker[w].id].status # "FREE"
              /\ Live(rows, worker[w].id) =>
                     /\ worker[w].token <= rows[worker[w].id].claims
                     /\ worker[w].key = rows[worker[w].id].key
    /\ \A v, w \in Workers :
          v # w /\ worker[v].phase # "idle" /\ worker[v].id = worker[w].id
              => worker[v].token # worker[w].token
    /\ \A w \in Workers :
          worker[w].phase = "answered" /\ worker[w].answer = "ok" => worker[w].key \in accepted
    /\ \A i \in Ids : rows[i].status = "SUCCEEDED" => rows[i].key \in accepted

(* A step of the table that delivers nothing: rows keep their key, do not  *)
(* come back, and their leases are never numbered backwards.               *)
KeptRow(r, q) ==
    /\ r.status # "FREE" => q.status # "FREE"
    /\ r.status # "FREE" /\ q.status # "GONE" =>
           r.status # "GONE" /\ q.key = r.key /\ r.claims <= q.claims
    /\ q.status = "SUCCEEDED" => r.status = "SUCCEEDED" /\ q.key = r.key

Keeps(rs, qs) == \A i \in Ids : KeptRow(rs[i], qs[i])

LEMMA KeptReflexive ==
    ASSUME NEW r \in SoundRow
    PROVE  KeptRow(r, r)
BY DEF KeptRow, SoundRow, Row

LEMMA KeepsReflexive ==
    ASSUME NEW rs \in Table
    PROVE  Keeps(rs, rs)
BY KeptReflexive DEF Keeps, Table

LEMMA KeepsTransitive ==
    ASSUME NEW rs \in Table, NEW qs \in Table, NEW ts \in Table, Keeps(rs, qs), Keeps(qs, ts)
    PROVE  Keeps(rs, ts)
<1> SUFFICES ASSUME NEW i \in Ids PROVE KeptRow(rs[i], ts[i])
  BY DEF Keeps
<1>1. KeptRow(rs[i], qs[i]) /\ KeptRow(qs[i], ts[i])
  BY DEF Keeps
<1>2. rs[i].claims \in Nat /\ qs[i].claims \in Nat /\ ts[i].claims \in Nat
  BY DEF Table, SoundRow, Row
<1> QED
  BY <1>1, <1>2 DEF KeptRow

(* One row changes.                                                        *)
LEMMA KeepsOneRow ==
    ASSUME NEW rs \in Table, NEW i \in Ids, NEW q, KeptRow(rs[i], q)
    PROVE  Keeps(rs, [rs EXCEPT ![i] = q])
BY KeptReflexive DEF Keeps, Table

LEMMA KeptUpdates ==
    ASSUME NEW r \in SoundRow, r.status \notin {"FREE", "GONE"}, NEW at
    PROVE  /\ KeptRow(r, Dead(r))
           /\ KeptRow(r, Retry(r, at))
           /\ KeptRow(r, Claimed(r))
           /\ \A s \in Ids : KeptRow(r, [Dead(r) EXCEPT !.superseder = s])
           /\ \A limit \in Nat : KeptRow(r, Requeued(r, limit))
<1>1. r.claims \in Nat /\ r.claims <= r.claims + 1
  BY DEF SoundRow, Row
<1> QED
  BY <1>1 DEF Dead, Retry, Unleased, Claimed, Requeued, KeptRow, SoundRow, Row

LEMMA KeptNewRow ==
    ASSUME NEW r, r.status = "FREE", NEW k, NEW g, NEW limit, NEW p, NEW q
    PROVE  KeptRow(r, NewRow(k, g, limit, p, q))
BY DEF KeptRow, NewRow, NoRow

LEMMA EnqueueKeeps ==
    ASSUME TypeInv, NEW rs \in Table, NEW m \in Messages, NEW qs \in EnqueueUpload(rs, m)
    PROVE  Keeps(rs, qs)
<1>1. CASE WithKey(rs, UploadKey(m)) # {}
  BY <1>1, KeepsReflexive DEF EnqueueUpload
<1>2. CASE WithKey(rs, UploadKey(m)) = {}
  <2> DEFINE row(p) == NewRow(UploadKey(m), CausalGroup(m), MaxAttempts, p, NoId)
  <2>1. PICK i \in NextId(rs), p \in StreamTail(rs, CausalGroup(m)) :
            qs = [rs EXCEPT ![i] = row(p)]
    BY <1>2 DEF EnqueueUpload
  <2>2. i \in Ids /\ rs[i].status = "FREE"
    BY <2>1 DEF NextId
  <2>3. KeptRow(rs[i], row(p))
    BY <2>2, KeptNewRow
  <2> HIDE DEF row
  <2> QED
    BY <2>1, <2>2, <2>3, KeepsOneRow
<1> QED
  BY <1>1, <1>2

LEMMA ExpireKeeps ==
    ASSUME TypeInv
    PROVE  Keeps(rows, ExpireLeases(rows))
<1> SUFFICES ASSUME NEW i \in Ids PROVE KeptRow(rows[i], ExpireLeases(rows)[i])
  BY DEF Keeps
<1>1. rows[i] \in SoundRow
  BY DEF TypeInv, Table
<1>2. CASE rows[i].status = "IN_FLIGHT"
  BY <1>1, <1>2, KeptUpdates, KeptReflexive DEF ExpireLeases
<1>3. CASE rows[i].status # "IN_FLIGHT"
  BY <1>1, <1>3, KeptReflexive DEF ExpireLeases
<1> QED
  BY <1>2, <1>3

LEMMA SupersedeKeeps ==
    ASSUME NEW rs \in Table, NEW i \in Ids, NEW r \in Ids, Live(rs, i)
    PROVE  Keeps(rs, Supersede(rs, i, r))
<1>1. rs[i] \in SoundRow
  BY DEF Table
<1>2. KeptRow(rs[i], [Dead(rs[i]) EXCEPT !.superseder = r])
  BY <1>1, KeptUpdates DEF Live
<1> QED
  BY <1>2, KeepsOneRow DEF Supersede

LEMMA ResyncKeeps ==
    ASSUME TypeInv, NEW i \in Ids, Live(rows, i), NEW qs \in ScheduleFullResync(rows, i)
    PROVE  Keeps(rows, qs)
<1> DEFINE k      == ResyncKey(rows, i)
           row    == NewRow(k, rows[i].group, rows[i].limit, rows[i].pred, i)
<1>1. rows \in Table
  BY DEF TypeInv
<1>2. CASE WithKey(rows, k) # {}
  BY <1>1, <1>2, SupersedeKeeps DEF ScheduleFullResync, WithKey
<1>3. CASE WithKey(rows, k) = {}
  <2>1. PICK r \in NextId(rows) : qs = Supersede([rows EXCEPT ![r] = row], i, r)
    BY <1>3 DEF ScheduleFullResync
  <2> DEFINE rs == [rows EXCEPT ![r] = row]
  <2>2. r \in Ids /\ r # i /\ rows[r].status = "FREE"
    BY <2>1 DEF NextId, Live
  <2>3. row \in SoundRow
    <3>1. rows[i] \in SoundRow
      BY <1>1 DEF Table
    <3>2. k \in Keys
      BY <3>1 DEF Keys, ResyncKey, SoundRow, Live
    <3> QED
      BY <3>1, <3>2, NewRowSound DEF Row, SoundRow
  <2>4. KeptRow(rows[r], row)
    BY <2>2, KeptNewRow
  <2> HIDE DEF row
  <2>5. rs \in Table /\ Keeps(rows, rs) /\ Live(rs, i)
    BY <1>1, <2>2, <2>3, <2>4, KeepsOneRow DEF Table, Live
  <2>6. Keeps(rs, qs)
    BY <2>1, <2>2, <2>5, SupersedeKeeps
  <2>7. qs \in Table
    BY <2>1, <2>2, <2>5, SupersedeSound
  <2> QED
    BY <1>1, <2>5, <2>6, <2>7, KeepsTransitive
<1> QED
  BY <1>2, <1>3

LEMMA DeletedKeeps ==
    ASSUME NEW rs \in Table, NEW D
    PROVE  Keeps(rs, Deleted(rs, D))
<1> SUFFICES ASSUME NEW i \in Ids PROVE KeptRow(rs[i], Deleted(rs, D)[i])
  BY DEF Keeps
<1>1. rs[i] \in SoundRow /\ rs[i] \in Row
  BY DEF Table, SoundRow
<1>2. CASE i \in D
  <2>1. Deleted(rs, D)[i] = NoRow("GONE")
    BY <1>2 DEF Deleted
  <2> QED
    BY <2>1 DEF KeptRow, NoRow
<1>3. CASE i \notin D
  <2>1. Deleted(rs, D)[i] = Unlinked(rs[i], D)
    BY <1>3 DEF Deleted
  <2> QED
    BY <1>1, <2>1 DEF KeptRow, Unlinked, Row
<1> QED
  BY <1>2, <1>3

LEMMA InitLeaseInv == Init => LeaseInv
BY DEF Init, LeaseInv, Idle, NoRow, NoId

(* Steps that take no lease, send nothing and mark nothing delivered.      *)
LEMMA KeepsLeaseInv ==
    ASSUME TypeInv, TypeInv', LeaseInv, Keeps(rows, rows'),
           \A w \in Workers : worker'[w] \in {worker[w], Idle},
           accepted' = accepted
    PROVE  LeaseInv'
<1>1. \A w \in Workers : worker[w] \in Hands /\ worker'[w] \in Hands
  BY DEF TypeInv
<1>2. \A i \in Ids : /\ KeptRow(rows[i], rows'[i])
                     /\ rows[i].claims \in Nat /\ rows'[i].claims \in Nat
  BY DEF Keeps, TypeInv, Table, SoundRow, Row
<1>3. \A w \in Workers : worker'[w].phase # "idle" => worker'[w] = worker[w]
  BY DEF Idle
<1>4. ASSUME NEW w \in Workers, worker'[w].phase # "idle"
      PROVE  /\ rows'[worker'[w].id].status # "FREE"
             /\ Live(rows', worker'[w].id) =>
                   /\ worker'[w].token <= rows'[worker'[w].id].claims
                   /\ worker'[w].key = rows'[worker'[w].id].key
  <2> DEFINE i == worker[w].id
  <2>1. worker'[w] = worker[w] /\ i \in Ids /\ worker[w].token \in Nat
    BY <1>1, <1>3, <1>4 DEF Hands, Worker
  <2>2. /\ rows[i].status # "FREE"
        /\ Live(rows, i) => worker[w].token <= rows[i].claims /\ worker[w].key = rows[i].key
    BY <1>4, <2>1 DEF LeaseInv
  <2> QED
    BY <1>2, <2>1, <2>2 DEF KeptRow, Live
<1>5. \A i \in Ids : rows'[i].status = "SUCCEEDED" => rows'[i].key \in accepted'
  BY <1>2 DEF KeptRow, LeaseInv
<1>6. \A w \in Workers : worker'[w].phase = "idle" => worker'[w].id = NoId
  BY DEF LeaseInv, Idle
<1>7. ASSUME NEW v \in Workers, NEW w \in Workers,
             v # w, worker'[v].phase # "idle", worker'[v].id = worker'[w].id
      PROVE  worker'[v].token # worker'[w].token
  <2>1. worker'[v] = worker[v] /\ worker[v].id \in Ids /\ worker[v].id # NoId
    BY <1>1, <1>3, <1>7, ConstantsAssumption DEF Hands, Ids, NoId
  <2>2. worker'[w] = worker[w]
    BY <1>7, <2>1 DEF Idle
  <2> QED
    BY <1>7, <2>1, <2>2 DEF LeaseInv
<1>8. \A w \in Workers : worker'[w].phase = "answered" /\ worker'[w].answer = "ok"
                            => worker'[w].key \in accepted'
  BY <1>3 DEF LeaseInv
<1> QED
  BY <1>4, <1>5, <1>6, <1>7, <1>8 DEF LeaseInv

LEMMA ScanLeaseInv ==
    ASSUME TypeInv, TypeInv', LeaseInv, NEW s \in Scans,
           CompleteScan(s) \/ ReconcileScan(s) \/ FailScan(s) \/ RejectJob(s) \/ PruneScan(s)
    PROVE  LeaseInv'
<1> DEFINE message(kind) == [scan |-> s, kind |-> kind]
<1>1. \A kind \in {"result", "status", "failed", "rejection"} : message(kind) \in Messages
  BY DEF Messages, Kinds
<1>2. rows \in Table /\ rows' \in Table
  BY DEF TypeInv
<1>3. Keeps(rows, rows')
  <2>1. CASE CompleteScan(s) \/ ReconcileScan(s)
    <3>1. PICK rs \in EnqueueUpload(rows, message("result")) :
              rows' \in EnqueueUpload(rs, message("status"))
      BY <2>1 DEF CompleteScan, ReconcileScan
    <3>2. rs \in Table /\ Keeps(rows, rs)
      BY <1>1, <1>2, <3>1, EnqueueSound, EnqueueKeeps
    <3>3. Keeps(rs, rows')
      BY <1>1, <3>1, <3>2, EnqueueKeeps
    <3> QED
      BY <1>2, <3>2, <3>3, KeepsTransitive
  <2>2. CASE FailScan(s)
    BY <1>1, <1>2, <2>2, EnqueueKeeps DEF FailScan
  <2>3. CASE RejectJob(s)
    BY <1>1, <1>2, <2>3, EnqueueKeeps DEF RejectJob
  <2>4. CASE PruneScan(s)
    BY <1>2, <2>4, KeepsReflexive DEF PruneScan
  <2> QED
    BY <2>1, <2>2, <2>3, <2>4
<1>4. worker' = worker /\ accepted' = accepted
  BY DEF CompleteScan, ReconcileScan, FailScan, RejectJob, PruneScan
<1> QED
  BY <1>3, <1>4, KeepsLeaseInv

LEMMA SettleLeaseInv ==
    ASSUME TypeInv, TypeInv', LeaseInv, NEW w \in Workers, Settle(w)
    PROVE  LeaseInv'
<1> DEFINE i == worker[w].id
<1>1. rows \in Table /\ rows' \in Table
  BY DEF TypeInv
<1>2. /\ \A v \in Workers : worker'[v] \in {worker[v], Idle}
      /\ accepted' = accepted
  BY DEF Settle, TypeInv
<1>3. CASE UNCHANGED rows
  <2>1. Keeps(rows, rows')
    BY <1>1, <1>3, KeepsReflexive
  <2> QED
    BY <1>2, <2>1, KeepsLeaseInv
<1>4. CASE HoldsLease(rows, i, worker[w].token) /\ worker[w].phase = "answered"
  <2>1. i \in Ids /\ Live(rows, i) /\ rows[i] \in SoundRow
    BY <1>4 DEF HoldsLease, Live, TypeInv, Hands, Worker, Table
  <2>2. CASE rows' \in ScheduleFullResync(rows, i)
    BY <1>2, <2>1, <2>2, ResyncKeeps, KeepsLeaseInv
  <2>3. ASSUME NEW q, rows' = [rows EXCEPT ![i] = q], KeptRow(rows[i], q)
        PROVE  LeaseInv'
    BY <1>1, <1>2, <2>1, <2>3, KeepsOneRow, KeepsLeaseInv
  <2>4. CASE rows' = [rows EXCEPT ![i] = Dead(@)]
    BY <2>1, <2>3, <2>4, KeptUpdates DEF Live
  <2>5. ASSUME NEW d \in Delays, rows' = [rows EXCEPT ![i] = Retry(@, After(d))]
        PROVE  LeaseInv'
    BY <2>1, <2>3, <2>5, KeptUpdates DEF Live
  <2>6. CASE worker[w].answer = "ok" /\ rows' = MarkSucceeded(rows, i)
    <3> DEFINE q == [Unleased(rows[i], "SUCCEEDED") EXCEPT !.nextAt = 0]
    <3>1. /\ q.status = "SUCCEEDED" /\ q.key = rows[i].key /\ q.claims = rows[i].claims
      BY <2>1 DEF Unleased, SoundRow, Row
    <3>2. rows' = [rows EXCEPT ![i] = q]
      BY <2>6 DEF MarkSucceeded
    <3> HIDE DEF q
    <3>3. rows[i].key \in accepted
      BY <1>4, <2>1, <2>6 DEF LeaseInv
    <3>4. \A j \in Ids : /\ rows'[j].key = rows[j].key /\ rows'[j].claims = rows[j].claims
                         /\ Live(rows', j) <=> Live(rows, j)
                         /\ rows'[j].status = "FREE" <=> rows[j].status = "FREE"
                         /\ rows'[j].status = "SUCCEEDED" =>
                               rows[j].status = "SUCCEEDED" \/ j = i
      BY <1>1, <2>1, <3>1, <3>2 DEF Table, Live
    <3>5. worker' = [worker EXCEPT ![w] = Idle]
      BY DEF Settle
    <3>6. \A v \in Workers : worker[v] \in Hands
      BY DEF TypeInv
    <3>7. \A v \in Workers : worker'[v].phase # "idle" => worker'[v] = worker[v] /\ worker[v].id \in Ids
      BY <3>5, <3>6 DEF Idle, Hands, TypeInv
    <3>8. \A v \in Workers : worker'[v].id # NoId => worker'[v] = worker[v]
      BY <3>5 DEF Idle, TypeInv
    <3>9. \A v \in Workers : worker'[v].phase = "idle" => worker'[v].id = NoId
      BY <1>2 DEF LeaseInv, Idle
    <3>10. NoId \notin Ids
      BY ConstantsAssumption DEF NoId, Ids
    <3> QED
      BY <1>2, <3>3, <3>4, <3>7, <3>8, <3>9, <3>10 DEF LeaseInv
  <2> QED
    BY <1>3, <2>2, <2>4, <2>5, <2>6, SettleCases
<1> QED
  BY <1>3, <1>4, SettleCases

(* A new lease gets a number no worker has: the row's next one.            *)
LEMMA ClaimLeaseInv ==
    ASSUME TypeInv, TypeInv', LeaseInv, NEW w \in Workers, Claim(w)
    PROVE  LeaseInv'
<1> DEFINE rs == ExpireLeases(rows)
<1>1. rs \in Table /\ Keeps(rows, rs) /\ rows' \in Table
  BY ExpireSound, ExpireKeeps DEF TypeInv
<1>2. accepted' = accepted /\ worker[w].phase = "idle"
  BY DEF Claim
<1> HIDE DEF rs
<1>3. CASE rows' = rs /\ UNCHANGED worker
  BY <1>1, <1>2, <1>3, KeepsLeaseInv
<1>4. ASSUME NEW i \in FirstClaimable(rs),
             rows' = [rs EXCEPT ![i] = Claimed(@)],
             worker' = [worker EXCEPT ![w] =
                          [phase |-> "claimed", id |-> i, key |-> rs[i].key,
                           token |-> Claimed(rs[i]).token, answer |-> None]]
      PROVE  LeaseInv'
  <2>1. i \in Ids /\ rs[i].status = "PENDING" /\ rs[i] \in SoundRow
    BY <1>1 DEF FirstClaimable, Claimable, Table
  <2>2. /\ Claimed(rs[i]).status = "IN_FLIGHT"
        /\ Claimed(rs[i]).key = rs[i].key
        /\ Claimed(rs[i]).token = rs[i].claims + 1
        /\ Claimed(rs[i]).claims = rs[i].claims + 1
        /\ rs[i].claims \in Nat
    BY <2>1 DEF Claimed, SoundRow, Row
  <2>3. \A v \in Workers : worker[v] \in Hands
    BY DEF TypeInv
  <2>4. \A j \in Ids : KeptRow(rows[j], rs[j])
    BY <1>1 DEF Keeps
  <2>5. \A j \in Ids : /\ rows[j].claims \in Nat /\ rs[j].claims \in Nat
                       /\ j # i => rows'[j] = rs[j]
    BY <1>1, <1>4 DEF TypeInv, Table, SoundRow, Row
  <2>6. rows'[i] = Claimed(rs[i])
    BY <1>1, <1>4, <2>1 DEF Table
  <2>7. /\ worker'[w].phase = "claimed" /\ worker'[w].id = i /\ worker'[w].key = rs[i].key
        /\ worker'[w].token = rs[i].claims + 1
        /\ \A v \in Workers : v # w => worker'[v] = worker[v]
    BY <1>4, <2>2 DEF TypeInv
  <2>8. ASSUME NEW v \in Workers, v # w, worker[v].phase # "idle"
        PROVE  /\ worker[v].id \in Ids
               /\ rs[worker[v].id].status # "FREE"
               /\ Live(rs, worker[v].id) =>
                     /\ worker[v].token <= rs[worker[v].id].claims
                     /\ worker[v].key = rs[worker[v].id].key
    <3> DEFINE j == worker[v].id
    <3>1. j \in Ids /\ worker[v].token \in Nat
      BY <2>3, <2>8 DEF Hands, Worker
    <3>2. /\ rows[j].status # "FREE"
          /\ Live(rows, j) => worker[v].token <= rows[j].claims /\ worker[v].key = rows[j].key
      BY <2>8 DEF LeaseInv
    <3>3. KeptRow(rows[j], rs[j]) /\ rows[j].claims \in Nat /\ rs[j].claims \in Nat
      BY <2>4, <2>5, <3>1
    <3> QED
      BY <3>1, <3>2, <3>3 DEF KeptRow, Live
  <2>9. ASSUME NEW v \in Workers, v # w, worker[v].phase # "idle", worker[v].id = i
        PROVE  worker[v].token <= rs[i].claims /\ worker[v].token \in Nat
    BY <2>1, <2>3, <2>8, <2>9 DEF Live, Hands, Worker
  <2>10. \A v \in Workers : worker'[v].phase = "idle" => worker'[v].id = NoId
    BY <2>7 DEF LeaseInv
  <2>11. ASSUME NEW v \in Workers, worker'[v].phase # "idle"
         PROVE  /\ rows'[worker'[v].id].status # "FREE"
                /\ Live(rows', worker'[v].id) =>
                      /\ worker'[v].token <= rows'[worker'[v].id].claims
                      /\ worker'[v].key = rows'[worker'[v].id].key
    <3>1. CASE v = w
      BY <2>2, <2>6, <2>7, <3>1
    <3>2. CASE v # w /\ worker[v].id = i
      BY <2>1, <2>2, <2>6, <2>7, <2>8, <2>9, <2>11, <3>2 DEF Live
    <3>3. CASE v # w /\ worker[v].id # i
      BY <2>5, <2>7, <2>8, <2>11, <3>3 DEF Live
    <3> QED
      BY <3>1, <3>2, <3>3
  <2>12. ASSUME NEW u \in Workers, NEW v \in Workers,
                u # v, worker'[u].phase # "idle", worker'[u].id = worker'[v].id
         PROVE  worker'[u].token # worker'[v].token
    <3>1. CASE u = w
      <4>1. worker[v].id = i /\ v # w /\ worker'[v] = worker[v]
        BY <2>7, <2>12, <3>1
      <4>2. worker[v].phase # "idle"
        BY <2>1, <4>1, ConstantsAssumption DEF LeaseInv, NoId, Ids
      <4> QED
        BY <2>2, <2>7, <2>9, <3>1, <4>1, <4>2
    <3>2. CASE v = w
      BY <2>2, <2>7, <2>9, <2>12, <3>2
    <3>3. CASE u # w /\ v # w
      BY <2>7, <2>12, <3>3 DEF LeaseInv
    <3> QED
      BY <3>1, <3>2, <3>3
  <2>13. \A v \in Workers : worker'[v].phase = "answered" /\ worker'[v].answer = "ok"
                               => worker'[v].key \in accepted'
    BY <1>2, <2>7 DEF LeaseInv
  <2>14. \A j \in Ids : rows'[j].status = "SUCCEEDED" => rows'[j].key \in accepted'
    BY <1>2, <2>2, <2>4, <2>5, <2>6 DEF KeptRow, LeaseInv
  <2> QED
    BY <2>10, <2>11, <2>12, <2>13, <2>14 DEF LeaseInv
<1> QED
  BY <1>3, <1>4 DEF Claim, rs

LEMMA RequestLeaseInv ==
    ASSUME TypeInv, TypeInv', LeaseInv, NEW w \in Workers, NEW a \in Answers, Request(w, a)
    PROVE  LeaseInv'
<1>1. rows' = rows /\ accepted \subseteq accepted'
  BY DEF Request
<1>2. a = "ok" => worker[w].key \in accepted'
  BY DEF Request
<1>3. /\ worker[w].phase = "claimed"
      /\ worker'[w] = [worker[w] EXCEPT !.phase = "answered", !.answer = a]
      /\ \A v \in Workers : v # w => worker'[v] = worker[v]
  BY DEF Request, TypeInv
<1>4. /\ worker'[w].phase = "answered" /\ worker'[w].answer = a
      /\ worker'[w].id = worker[w].id /\ worker'[w].key = worker[w].key
      /\ worker'[w].token = worker[w].token
  BY <1>3 DEF TypeInv, Hands, Worker
<1>5. \A v \in Workers : /\ worker'[v].id = worker[v].id /\ worker'[v].key = worker[v].key
                         /\ worker'[v].token = worker[v].token
                         /\ (worker'[v].phase = "idle") <=> (worker[v].phase = "idle")
  BY <1>3, <1>4
<1>6. \A v \in Workers : worker'[v].phase = "answered" /\ worker'[v].answer = "ok"
                            => worker'[v].key \in accepted'
  BY <1>1, <1>2, <1>3, <1>4 DEF LeaseInv
<1>7. \A i \in Ids : rows'[i].status = "SUCCEEDED" => rows'[i].key \in accepted'
  BY <1>1 DEF LeaseInv
<1> QED
  BY <1>1, <1>5, <1>6, <1>7 DEF LeaseInv

LEMMA NextLeaseInv == TypeInv /\ TypeInv' /\ LeaseInv /\ [Next]_vars => LeaseInv'
<1> SUFFICES ASSUME TypeInv, TypeInv', LeaseInv, [Next]_vars PROVE LeaseInv'
  OBVIOUS
<1>0. rows \in Table /\ Keeps(rows, rows)
  BY KeepsReflexive DEF TypeInv
<1>1. ASSUME NEW s \in Scans,
             CompleteScan(s) \/ ReconcileScan(s) \/ FailScan(s) \/ RejectJob(s) \/ PruneScan(s)
      PROVE  LeaseInv'
  BY <1>1, ScanLeaseInv
<1>2. ASSUME NEW w \in Workers, Deliver(w) PROVE LeaseInv'
  BY <1>2, ClaimLeaseInv, RequestLeaseInv, SettleLeaseInv DEF Deliver
<1>3. ASSUME NEW w \in Workers, Crash(w) PROVE LeaseInv'
  BY <1>0, <1>3, KeepsLeaseInv DEF TypeInv, Crash
<1>4. CASE Tick
  BY <1>0, <1>4, KeepsLeaseInv DEF Tick
<1>5. ASSUME NEW i \in Ids, NEW n \in RetryLimits, Requeue(i, n) PROVE LeaseInv'
  <2>1. rows[i] \in SoundRow /\ rows[i].status = "DEAD" /\ n \in Nat
    BY <1>0, <1>5, ConstantsAssumption DEF Table, Requeue
  <2>2. Keeps(rows, rows')
    BY <1>0, <1>5, <2>1, KeptUpdates, KeepsOneRow DEF Requeue
  <2> QED
    BY <1>5, <2>2, KeepsLeaseInv DEF Requeue
<1>6. ASSUME NEW old \in SUBSET Ids, NEW n \in PurgeLimits, Purge(old, n) PROVE LeaseInv'
  <2>1. \E D : rows' = Deleted(rows, D)
    BY <1>6 DEF Purge
  <2>2. Keeps(rows, rows')
    BY <1>0, <2>1, DeletedKeeps
  <2> QED
    BY <1>6, <2>2, KeepsLeaseInv DEF Purge
<1>7. CASE UNCHANGED vars
  BY <1>0, <1>7, KeepsLeaseInv DEF vars
<1> QED
  BY <1>1, <1>2, <1>3, <1>4, <1>5, <1>6, <1>7 DEF Next

THEOREM LeaseInvariance == Spec => []LeaseInv
BY InitTypeInv, InitLeaseInv, NextTypeInv, NextLeaseInv, PTL DEF Spec

(* A lease has one owner: of the workers that ever claimed a row, at most  *)
(* one passes the status and token check of the mark_* calls.              *)
THEOREM LeasesExclusive == Spec => []LeaseExclusive
<1>1. TypeInv /\ LeaseInv => LeaseExclusive
  BY DEF TypeInv, LeaseInv, LeaseExclusive, HoldsLease
<1> QED
  BY <1>1, TypeInvariance, LeaseInvariance, PTL

(* SUCCEEDED only for what the cloud committed, however late or lost the   *)
(* answers and however many workers sent the row.                          *)
THEOREM DeliveriesAccepted == Spec => []DeliveredIsAccepted
<1>1. LeaseInv => DeliveredIsAccepted
  BY DEF LeaseInv, DeliveredIsAccepted
<1> QED
  BY <1>1, LeaseInvariance, PTL

=============================================================================

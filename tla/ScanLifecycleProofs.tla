------------------------ MODULE ScanLifecycleProofs ------------------------
(***************************************************************************)
(* Proofs about ScanLifecycle, for every number of jobs, releases and      *)
(* crashes, every clock and every deadline, timeout and grace.             *)
(***************************************************************************)
EXTENDS ScanLifecycle, SequenceTheorems, FiniteSetTheorems, TLAPS

-----------------------------------------------------------------------------
(* Rows of the cloud                                                       *)

LEMMA UnissuedType == Unissued \in ScanRecord
BY DEF Unissued, ScanRecord

LEMMA RowTypes ==
    ASSUME NEW r \in ScanRecord, now \in Nat, NEW d \in Documents, NEW b \in BOOLEAN
    PROVE  /\ DispatchedRow(r) \in ScanRecord
           /\ ExpiredRow(r) \in ScanRecord
           /\ Ingested(r, d, b) \in ScanRecord
           /\ StatusRecorded(r, d) \in ScanRecord
           /\ Rejected(r) \in ScanRecord
<1>1. DispatchedRow(r) \in ScanRecord
  BY DEF DispatchedRow, ScanRecord
<1>2. ExpiredRow(r) \in ScanRecord
  BY DEF ExpiredRow, ScanRecord
<1>3. Ingested(r, d, b) \in ScanRecord
  BY DEF Ingested, ScanRecord
<1>4. StatusRecorded(r, d) \in ScanRecord
  BY DEF StatusRecorded, ScanRecord
<1>5. Rejected(r) \in ScanRecord
  BY DEF Rejected, ScanRecord
<1> QED
  BY <1>1, <1>2, <1>3, <1>4, <1>5

(* What no step of the endpoint changes in a row.                          *)
Steady(r, q) ==
    /\ q.deadline = r.deadline
    /\ q.state = "ABSENT" => r.state = "ABSENT"

LEMMA PolledRow ==
    ASSUME NEW r \in ScanRecord, now \in Nat, NEW q \in {r, DispatchedRow(r), ExpiredRow(r)}
    PROVE  q \in ScanRecord /\ Steady(r, q) /\ q.upload = r.upload /\ q.status = r.status
<1>1. CASE q = r
  BY <1>1 DEF Steady
<1>2. CASE q = DispatchedRow(r)
  BY <1>2 DEF DispatchedRow, ScanRecord, Steady
<1>3. CASE q = ExpiredRow(r)
  BY <1>3 DEF ExpiredRow, ScanRecord, Steady
<1> QED
  BY <1>1, <1>2, <1>3

LEMMA PolledRows ==
    ASSUME NEW rows, NEW s \in Scans
    PROVE  AfterPoll(rows)[s] \in {scans[s], DispatchedRow(scans[s]), ExpiredRow(scans[s])}
BY DEF AfterPoll

LEMMA PollFacts ==
    ASSUME scans \in [Scans -> ScanRecord], now \in Nat, NEW rows, scans' = AfterPoll(rows)
    PROVE  /\ scans' \in [Scans -> ScanRecord]
           /\ \A s \in Scans : /\ Steady(scans[s], scans'[s])
                               /\ scans'[s].upload = scans[s].upload
                               /\ scans'[s].status = scans[s].status
<1>1. ASSUME NEW s \in Scans
      PROVE  /\ scans'[s] \in ScanRecord
             /\ Steady(scans[s], scans'[s])
             /\ scans'[s].upload = scans[s].upload
             /\ scans'[s].status = scans[s].status
  <2>1. scans'[s] \in {scans[s], DispatchedRow(scans[s]), ExpiredRow(scans[s])}
    BY PolledRows
  <2>2. scans[s] \in ScanRecord
    OBVIOUS
  <2> HIDE DEF Steady
  <2> QED
    BY <2>1, <2>2, PolledRow
<1>2. scans' = [s \in Scans |-> scans'[s]]
  BY DEF AfterPoll
<1> QED
  BY <1>1, <1>2

LEMMA UploadedRow ==
    ASSUME NEW r \in ScanRecord, now \in Nat, NEW d \in Documents, NEW b \in BOOLEAN
    PROVE  /\ Steady(r, Ingested(r, d, b))
           /\ Ingested(r, d, b).status = r.status
           /\ Ingested(r, d, b).upload = IF r.upload # None THEN r.upload ELSE d
           /\ Steady(r, StatusRecorded(r, d))
           /\ StatusRecorded(r, d).upload = r.upload
           /\ StatusRecorded(r, d).status = IF r.status # None THEN r.status ELSE d
           /\ Steady(r, Rejected(r))
           /\ Rejected(r).upload = r.upload
           /\ Rejected(r).status = r.status
<1>1. /\ Steady(r, Ingested(r, d, b))
      /\ Ingested(r, d, b).status = r.status
      /\ Ingested(r, d, b).upload = IF r.upload # None THEN r.upload ELSE d
  BY DEF Ingested, ScanRecord, Steady
<1>2. /\ Steady(r, StatusRecorded(r, d))
      /\ StatusRecorded(r, d).upload = r.upload
      /\ StatusRecorded(r, d).status = IF r.status # None THEN r.status ELSE d
  BY DEF StatusRecorded, ScanRecord, Steady
<1>3. /\ Steady(r, Rejected(r))
      /\ Rejected(r).upload = r.upload
      /\ Rejected(r).status = r.status
  BY DEF Rejected, ScanRecord, Steady
<1> QED
  BY <1>1, <1>2, <1>3

-----------------------------------------------------------------------------
(* The outbox                                                              *)

(* A row of the outbox is of scan s, of kind k, and holds document d.      *)
Holds(box, s, k, d) ==
    \E i \in DOMAIN box : box[i].scan = s /\ box[i].kind = k /\ box[i].document = d

LEMMA TailType == ASSUME NEW box PROVE box \in Seq(Upload) => StreamTail(box) \in Nat
<1> SUFFICES ASSUME box \in Seq(Upload) PROVE StreamTail(box) \in Nat
  OBVIOUS
<1> DEFINE causal == {i \in DOMAIN box : box[i].kind # "rejection"}
           newest == {i \in causal : \A j \in causal : j <= i}
<1>1. newest \subseteq Nat
  BY LenProperties
<1>2. CASE newest = {}
  BY <1>2 DEF StreamTail
<1>3. CASE newest # {}
  <2>1. (CHOOSE i \in newest : TRUE) \in newest
    BY <1>3
  <2> QED
    BY <1>1, <1>3, <2>1 DEF StreamTail
<1> QED
  BY <1>2, <1>3

LEMMA EnqueuedRow ==
    ASSUME NEW box \in Seq(Upload), NEW u \in Upload,
           ~ \E i \in DOMAIN box : SameKey(box[i], u)
    PROVE  \E w \in Upload :
              /\ Enqueued(box, u) = Append(box, w)
              /\ w.scan = u.scan /\ w.kind = u.kind /\ w.document = u.document
<1> DEFINE n == IF u.kind = "rejection" THEN 0 ELSE StreamTail(box)
           w == [u EXCEPT !.behind = n]
<1>1. n \in Nat
  BY TailType
<1> HIDE DEF n
<1>2. w \in Upload /\ w.scan = u.scan /\ w.kind = u.kind /\ w.document = u.document
  BY <1>1 DEF Upload
<1>3. Enqueued(box, u) = Append(box, w)
  BY DEF Enqueued, n
<1> QED
  BY <1>2, <1>3

LEMMA AppendHolds ==
    ASSUME NEW box \in Seq(Upload), NEW w \in Upload, NEW s, NEW k, NEW d
    PROVE  Holds(Append(box, w), s, k, d)
              <=> Holds(box, s, k, d) \/ (w.scan = s /\ w.kind = k /\ w.document = d)
<1> DEFINE more == Append(box, w)
<1>1. /\ DOMAIN box = 1 .. Len(box)
      /\ DOMAIN more = 1 .. (Len(box) + 1)
      /\ Len(box) \in Nat
      /\ \A i \in 1 .. Len(box) : more[i] = box[i]
      /\ more[Len(box) + 1] = w
  OBVIOUS
<1> HIDE DEF more
<1>2. ASSUME Holds(more, s, k, d)
      PROVE  Holds(box, s, k, d) \/ (w.scan = s /\ w.kind = k /\ w.document = d)
  BY <1>1, <1>2 DEF Holds
<1>3. ASSUME Holds(box, s, k, d) PROVE Holds(more, s, k, d)
  BY <1>1, <1>3 DEF Holds
<1>4. ASSUME w.scan = s /\ w.kind = k /\ w.document = d PROVE Holds(more, s, k, d)
  <2>1. Len(box) + 1 \in DOMAIN more
    BY <1>1
  <2> QED
    BY <1>1, <1>4, <2>1 DEF Holds
<1> QED
  BY <1>2, <1>3, <1>4 DEF more

LEMMA EnqueuedType ==
    ASSUME NEW box \in Seq(Upload), NEW u \in Upload
    PROVE  Enqueued(box, u) \in Seq(Upload)
<1>1. CASE \E i \in DOMAIN box : SameKey(box[i], u)
  BY <1>1 DEF Enqueued
<1>2. CASE ~ \E i \in DOMAIN box : SameKey(box[i], u)
  BY <1>2, EnqueuedRow
<1> QED
  BY <1>1, <1>2

(* Enqueuing adds one row at most, and keeps every other.                  *)
LEMMA EnqueuedHolds ==
    ASSUME NEW box \in Seq(Upload), NEW u \in Upload, NEW s, NEW k, NEW d
    PROVE  /\ Holds(box, s, k, d) => Holds(Enqueued(box, u), s, k, d)
           /\ Holds(Enqueued(box, u), s, k, d)
                 => Holds(box, s, k, d) \/ (u.scan = s /\ u.kind = k /\ u.document = d)
<1>1. CASE \E i \in DOMAIN box : SameKey(box[i], u)
  BY <1>1 DEF Enqueued
<1>2. CASE ~ \E i \in DOMAIN box : SameKey(box[i], u)
  <2>1. PICK w \in Upload :
           /\ Enqueued(box, u) = Append(box, w)
           /\ w.scan = u.scan /\ w.kind = u.kind /\ w.document = u.document
    BY <1>2, EnqueuedRow
  <2> QED
    BY <2>1, AppendHolds
<1> QED
  BY <1>1, <1>2

LEMMA SettledRow ==
    ASSUME NEW box \in Seq(Upload), NEW i \in DOMAIN box, NEW w \in Upload,
           w.scan = box[i].scan, w.kind = box[i].kind, w.document = box[i].document
    PROVE  /\ [box EXCEPT ![i] = w] \in Seq(Upload)
           /\ Len([box EXCEPT ![i] = w]) = Len(box)
           /\ \A s, k, d : Holds([box EXCEPT ![i] = w], s, k, d) <=> Holds(box, s, k, d)
<1> DEFINE new == [box EXCEPT ![i] = w]
<1>1. i \in 1 .. Len(box) /\ DOMAIN box = 1 .. Len(box) /\ DOMAIN new = DOMAIN box
  BY LenProperties
<1>2. /\ new \in Seq(Upload)
      /\ Len(new) = Len(box)
      /\ \A j \in 1 .. Len(box) : new[j] = IF j = i THEN w ELSE box[j]
  BY <1>1, ExceptSeq
<1> HIDE DEF new
<1>3. ASSUME NEW s, NEW k, NEW d PROVE Holds(new, s, k, d) <=> Holds(box, s, k, d)
  BY <1>1, <1>2 DEF Holds
<1> QED
  BY <1>2, <1>3 DEF new

LEMMA RefusalFacts ==
    ASSUME outbox \in Seq(Upload), NEW i \in DOMAIN outbox
    PROVE  /\ AfterRefusal(i) \in Seq(Upload)
           /\ \A s, k, d : Holds(AfterRefusal(i), s, k, d) <=> Holds(outbox, s, k, d)
<1> DEFINE plain == [outbox[i] EXCEPT !.state = "DEAD"]
           n == Len(outbox) + 1
           replaced == [outbox[i] EXCEPT !.state = "DEAD", !.by = n]
           copy == [outbox[i] EXCEPT !.resync = TRUE]
<1>1. outbox[i] \in Upload /\ n \in Nat
  BY LenProperties, ElementOfSeq
<1> HIDE DEF n
<1>2. /\ plain \in Upload
      /\ plain.scan = outbox[i].scan /\ plain.kind = outbox[i].kind
      /\ plain.document = outbox[i].document
  BY <1>1 DEF Upload
<1>3. /\ replaced \in Upload
      /\ replaced.scan = outbox[i].scan /\ replaced.kind = outbox[i].kind
      /\ replaced.document = outbox[i].document
  BY <1>1 DEF Upload
<1>4. /\ copy \in Upload
      /\ copy.scan = outbox[i].scan /\ copy.kind = outbox[i].kind
      /\ copy.document = outbox[i].document
  BY <1>1 DEF Upload
<1>5. CASE outbox[i].kind = "result" /\ ~outbox[i].resync
  <2> DEFINE marked == [outbox EXCEPT ![i] = replaced]
  <2>1. AfterRefusal(i) = Append(marked, copy)
    BY <1>5 DEF AfterRefusal, n
  <2> HIDE DEF replaced, copy
  <2>2. /\ marked \in Seq(Upload)
        /\ \A s, k, d : Holds(marked, s, k, d) <=> Holds(outbox, s, k, d)
    BY <1>3, SettledRow
  <2> HIDE DEF marked
  <2>3. Append(marked, copy) \in Seq(Upload)
    BY <1>4, <2>2
  <2>4. ASSUME NEW s, NEW k, NEW d
        PROVE  Holds(Append(marked, copy), s, k, d) <=> Holds(outbox, s, k, d)
    <3>1. Holds(Append(marked, copy), s, k, d)
             <=> Holds(marked, s, k, d) \/ (copy.scan = s /\ copy.kind = k /\ copy.document = d)
      BY <1>4, <2>2, AppendHolds
    <3>2. copy.scan = s /\ copy.kind = k /\ copy.document = d => Holds(outbox, s, k, d)
      BY <1>4 DEF Holds
    <3> QED
      BY <2>2, <3>1, <3>2
  <2> QED
    BY <2>1, <2>3, <2>4
<1>6. CASE ~(outbox[i].kind = "result" /\ ~outbox[i].resync)
  <2>1. AfterRefusal(i) = [outbox EXCEPT ![i] = plain]
    BY <1>6 DEF AfterRefusal
  <2> HIDE DEF plain
  <2>2. /\ [outbox EXCEPT ![i] = plain] \in Seq(Upload)
        /\ \A s, k, d : Holds([outbox EXCEPT ![i] = plain], s, k, d) <=> Holds(outbox, s, k, d)
    BY <1>2, SettledRow
  <2> QED
    BY <2>1, <2>2
<1> QED
  BY <1>5, <1>6

LEMMA MarkedFacts ==
    ASSUME outbox \in Seq(Upload), NEW i \in DOMAIN outbox,
           NEW x \in {"PENDING", "SUCCEEDED", "DEAD"}
    PROVE  /\ [outbox EXCEPT ![i].state = x] \in Seq(Upload)
           /\ \A s, k, d : Holds([outbox EXCEPT ![i].state = x], s, k, d) <=> Holds(outbox, s, k, d)
<1> DEFINE w == [outbox[i] EXCEPT !.state = x]
<1>1. outbox[i] \in Upload
  BY LenProperties, ElementOfSeq
<1>2. /\ w \in Upload
      /\ w.scan = outbox[i].scan /\ w.kind = outbox[i].kind /\ w.document = outbox[i].document
  BY <1>1 DEF Upload
<1>3. [outbox EXCEPT ![i].state = x] = [outbox EXCEPT ![i] = w]
  OBVIOUS
<1> HIDE DEF w
<1> QED
  BY <1>2, <1>3, SettledRow

LEMMA StatusFacts ==
    ASSUME release \in Releases, NEW s \in Scans, NEW v \in Verdicts
    PROVE  /\ StatusOf(s, v) \in Upload
           /\ StatusOf(s, v).scan = s
           /\ StatusOf(s, v).kind = "status"
           /\ StatusOf(s, v).document = [verdict |-> v, release |-> release]
BY DEF StatusOf, NewUpload, Upload, Documents

LEMMA ResultFacts ==
    ASSUME NEW s \in Scans, NEW d \in Documents
    PROVE  /\ ResultOf(s, d) \in Upload
           /\ ResultOf(s, d).scan = s
           /\ ResultOf(s, d).kind = "result"
           /\ ResultOf(s, d).document = d
BY DEF ResultOf, NewUpload, Upload

-----------------------------------------------------------------------------
(* The invariant                                                           *)

(* What the agent knows of the job in hand.                                *)
HandsInv ==
    /\ agent.pc \notin {"down", "repairing", "idle"} => agent.scan \in Scans
    /\ agent.pc \in {"fetched", "created", "running"} => scans[agent.scan].state # "ABSENT"
    /\ agent.pc \in {"created", "running"} =>
          /\ result[agent.scan] = None
          /\ agent.until <= scans[agent.scan].deadline
    /\ agent.pc = "reconciling" => result[agent.scan] # None
    /\ agent.pc = "repaired" => jobs[agent.scan].verdict \in Verdicts

EndedHasVerdict == \A s \in Scans : jobs[s].status \in Ended => jobs[s].verdict \in Verdicts

(* Every result in the outbox, resyncs included, is the stored one.        *)
OutboxIsStored == \A s \in Scans : \A d : Holds(outbox, s, "result", d) => d = result[s]

StoredInv == TypeOK /\ HandsInv /\ EndedHasVerdict /\ OutboxIsStored /\ EvidenceIsStored

LEMMA StoredInit == LifecycleInit => StoredInv
<1> SUFFICES ASSUME LifecycleInit PROVE StoredInv
  OBVIOUS
<1> USE DEF LifecycleInit, DispatchInit
<1>1. TypeOK
  <2>1. scans \in [Scans -> ScanRecord]
    BY UnissuedType
  <2>2. now \in 0 .. MaxTime /\ release \in Releases /\ crashes \in 0 .. MaxCrashes
    BY DispatchAssumption, LifecycleAssumption
  <2>3. jobs \in [Scans -> Job] /\ result \in [Scans -> Documents \cup {None}]
    BY DEF Job
  <2>4. outbox \in Seq(Upload)
    OBVIOUS
  <2>5. agent \in Agent
    BY DEF Agent
  <2> QED
    BY <2>1, <2>2, <2>3, <2>4, <2>5 DEF TypeOK
<1>2. HandsInv
  BY DEF HandsInv
<1>3. EndedHasVerdict
  BY DEF EndedHasVerdict, Ended
<1>4. OutboxIsStored
  BY DEF OutboxIsStored, Holds
<1>5. EvidenceIsStored
  BY DEF EvidenceIsStored, Unissued
<1> QED
  BY <1>1, <1>2, <1>3, <1>4, <1>5 DEF StoredInv

(* A step that leaves the evidence, the results and the rows of the outbox *)
(* as they are.                                                            *)
SameEvidence ==
    /\ result' = result
    /\ \A s \in Scans : /\ Steady(scans[s], scans'[s])
                        /\ scans'[s].upload = scans[s].upload
                        /\ scans'[s].status = scans[s].status
    /\ \A s, d : Holds(outbox', s, "result", d) => Holds(outbox, s, "result", d)

LEMMA SameEvidenceKeeps ==
    ASSUME StoredInv, SameEvidence
    PROVE  OutboxIsStored' /\ EvidenceIsStored'
<1>1. OutboxIsStored'
  BY DEF StoredInv, SameEvidence, OutboxIsStored
<1>2. EvidenceIsStored'
  BY DEF StoredInv, SameEvidence, EvidenceIsStored
<1> QED
  BY <1>1, <1>2

LEMMA HandsKept ==
    ASSUME HandsInv, agent' = agent, result' = result, jobs' = jobs,
           \A s \in Scans : Steady(scans[s], scans'[s])
    PROVE  HandsInv'
BY DEF HandsInv, Steady

LEMMA HandsFree ==
    ASSUME \/ agent'.pc \in {"down", "repairing", "idle"}
           \/ agent'.pc \in {"stored", "failed", "reported"} /\ agent'.scan \in Scans
           \/ /\ agent'.pc = "repaired" /\ agent'.scan \in Scans
              /\ jobs'[agent'.scan].verdict \in Verdicts
    PROVE  HandsInv'
BY DEF HandsInv

LEMMA BecomesType ==
    ASSUME NEW pc \in {"down", "repairing", "repaired", "idle", "fetched", "stored", "failed", "reported"},
           NEW s \in Scans \cup {None}, Becomes(pc, s)
    PROVE  agent' \in Agent /\ agent'.pc = pc /\ agent'.scan = s
BY DEF Becomes, Agent

LEMMA RowsUnchanged ==
    ASSUME scans' = scans
    PROVE  \A s \in Scans : /\ Steady(scans[s], scans'[s])
                            /\ scans'[s].upload = scans[s].upload
                            /\ scans'[s].status = scans[s].status
BY DEF Steady

LEMMA Untouched ==
    ASSUME StoredInv, scans' = scans, result' = result, outbox' = outbox
    PROVE  OutboxIsStored' /\ EvidenceIsStored'
BY DEF StoredInv, OutboxIsStored, EvidenceIsStored, Holds

(* A step of the process alone.                                            *)
LEMMA OnlyProcess ==
    ASSUME StoredInv, UNCHANGED <<scans, now, jobs, result, outbox>>,
           release' \in Releases, crashes' \in 0 .. MaxCrashes, agent' \in Agent, HandsInv'
    PROVE  StoredInv'
<1>1. TypeOK'
  BY DEF StoredInv, TypeOK
<1>2. EndedHasVerdict'
  BY DEF StoredInv, EndedHasVerdict
<1>3. OutboxIsStored' /\ EvidenceIsStored'
  BY Untouched
<1> QED
  BY <1>1, <1>2, <1>3 DEF StoredInv

(* The agent drops what it has in hand, and nothing else changes.          *)
LEMMA LetsGo ==
    ASSUME StoredInv, UNCHANGED <<scans, now, jobs, result, outbox, release>>,
           crashes' \in 0 .. MaxCrashes,
           NEW pc \in {"down", "repairing", "idle"}, NEW s \in Scans \cup {None}, Becomes(pc, s)
    PROVE  StoredInv'
<1>1. agent' \in Agent /\ agent'.pc = pc
  BY BecomesType
<1>2. HandsInv'
  BY <1>1, HandsFree
<1>3. release' \in Releases
  BY DEF StoredInv, TypeOK
<1> QED
  BY <1>1, <1>2, <1>3, OnlyProcess

-----------------------------------------------------------------------------
(* The platform, the clock and the process                                 *)

LEMMA AuthorizeKeeps == ASSUME StoredInv, NEW s \in Scans, Authorize(s) PROVE StoredInv'
<1>0. TypeOK /\ HandsInv /\ EndedHasVerdict /\ OutboxIsStored /\ EvidenceIsStored
  BY DEF StoredInv
<1>1. scans[s].state = "ABSENT" /\ UNCHANGED <<now, endpoint>>
  BY DEF Authorize, Issue
<1>2. PICK v \in Validities :
         scans' = [scans EXCEPT ![s] =
                     [Unissued EXCEPT !.state = "QUEUED", !.created = Cardinality(Issued),
                                      !.updated = now, !.deadline = now + v]]
  BY DEF Authorize, Issue
<1> DEFINE count == Cardinality(Issued)
           end == now + v
           row == [Unissued EXCEPT !.state = "QUEUED", !.created = count,
                                   !.updated = now, !.deadline = end]
<1>3. count \in Nat
  BY DispatchAssumption, FS_Subset, FS_CardinalityType DEF Issued
<1>4. now \in Nat /\ end \in Nat
  BY <1>0, DispatchAssumption DEF TypeOK
<1>5. scans' = [scans EXCEPT ![s] = row]
  BY <1>2
<1> HIDE DEF count, end
<1>6. row \in ScanRecord /\ row.state = "QUEUED" /\ row.upload = None /\ row.status = None
  BY <1>3, <1>4 DEF Unissued, ScanRecord
<1> HIDE DEF row
<1>7. scans' \in [Scans -> ScanRecord]
  BY <1>0, <1>5, <1>6 DEF TypeOK
<1>8. \A o \in Scans : scans'[o] = IF o = s THEN row ELSE scans[o]
  BY <1>0, <1>5 DEF TypeOK
<1>9. TypeOK'
  BY <1>0, <1>1, <1>7 DEF TypeOK, endpoint
<1>10. HandsInv'
  <2>1. agent' = agent /\ result' = result /\ jobs' = jobs
    BY <1>1 DEF endpoint
  <2>2. ASSUME agent.pc \in {"fetched", "created", "running"}
        PROVE  scans'[agent.scan] = scans[agent.scan]
    BY <1>0, <1>1, <1>8, <2>2 DEF HandsInv
  <2> QED
    BY <1>0, <2>1, <2>2 DEF HandsInv
<1>11. EndedHasVerdict'
  BY <1>0, <1>1 DEF EndedHasVerdict, endpoint
<1>12. OutboxIsStored'
  BY <1>0, <1>1 DEF OutboxIsStored, Holds, endpoint
<1>13. EvidenceIsStored'
  BY <1>0, <1>1, <1>6, <1>8 DEF EvidenceIsStored, endpoint
<1> QED
  BY <1>9, <1>10, <1>11, <1>12, <1>13 DEF StoredInv

LEMMA TickKeeps == ASSUME StoredInv, Tick PROVE StoredInv'
<1>0. TypeOK /\ HandsInv /\ EndedHasVerdict
  BY DEF StoredInv
<1>1. now < MaxTime /\ now' = now + 1 /\ UNCHANGED <<scans, endpoint>>
  BY DEF Tick
<1>2. now' \in 0 .. MaxTime
  BY <1>0, <1>1, DispatchAssumption DEF TypeOK
<1>3. TypeOK'
  BY <1>0, <1>1, <1>2 DEF TypeOK, endpoint
<1>4. HandsInv' /\ EndedHasVerdict'
  BY <1>0, <1>1 DEF HandsInv, EndedHasVerdict, endpoint
<1>5. OutboxIsStored' /\ EvidenceIsStored'
  BY <1>1, Untouched DEF endpoint
<1> QED
  BY <1>3, <1>4, <1>5 DEF StoredInv

LEMMA ProcessKeeps ==
    ASSUME StoredInv, StartAgent \/ EnterLoop \/ Crash \/ Upgrade
    PROVE  StoredInv'
<1>1. ASSUME StartAgent PROVE StoredInv'
  BY <1>1, LetsGo DEF StartAgent, StoredInv, TypeOK
<1>2. ASSUME EnterLoop PROVE StoredInv'
  BY <1>2, LetsGo DEF EnterLoop, StoredInv, TypeOK
<1>3. ASSUME Crash PROVE StoredInv'
  <2>1. crashes' \in 0 .. MaxCrashes
    BY <1>3, LifecycleAssumption DEF Crash, StoredInv, TypeOK
  <2> QED
    BY <1>3, <2>1, LetsGo DEF Crash
<1>4. ASSUME Upgrade PROVE StoredInv'
  <2>1. release' \in Releases /\ UNCHANGED <<scans, now, jobs, result, outbox, agent, crashes>>
    BY <1>4 DEF Upgrade
  <2>2. HandsInv' /\ crashes' \in 0 .. MaxCrashes /\ agent' \in Agent
    BY <2>1 DEF StoredInv, TypeOK, HandsInv
  <2> QED
    BY <2>1, <2>2, OnlyProcess
<1> QED
  BY <1>1, <1>2, <1>3, <1>4

LEMMA PollsKeep ==
    ASSUME StoredInv, NEW rows \in SUBSET Waiting, Poll(rows) \/ PollUnanswered(rows)
    PROVE  StoredInv'
<1>0. TypeOK /\ HandsInv /\ EndedHasVerdict
  BY DEF StoredInv
<1>1. /\ agent.pc = "idle" /\ scans' = AfterPoll(rows)
      /\ UNCHANGED <<now, jobs, result, outbox, release, crashes>>
  BY DEF Poll, PollUnanswered, endpoint
<1>2. /\ scans' \in [Scans -> ScanRecord]
      /\ \A s \in Scans : /\ Steady(scans[s], scans'[s])
                          /\ scans'[s].upload = scans[s].upload
                          /\ scans'[s].status = scans[s].status
  BY <1>0, <1>1, PollFacts, DispatchAssumption DEF TypeOK
<1>3. agent' \in Agent /\ HandsInv'
  <2>1. CASE agent' = agent
    BY <1>0, <1>1, <1>2, <2>1, HandsKept DEF TypeOK
  <2>2. ASSUME NEW s \in Scans, Oldest(rows, s), Becomes("fetched", s)
        PROVE  agent' \in Agent /\ HandsInv'
    <3>1. agent' \in Agent /\ agent'.pc = "fetched" /\ agent'.scan = s
      BY <2>2, BecomesType
    <3>2. scans'[s] = DispatchedRow(scans[s]) /\ scans[s] \in ScanRecord
      <4>1. ~Passed(rows, s)
        BY <2>2 DEF Oldest, Eligible, Passed
      <4> QED
        BY <1>0, <1>1, <2>2, <4>1 DEF AfterPoll, TypeOK
    <3>3. scans'[s].state = "DISPATCHED"
      BY <3>2 DEF DispatchedRow, ScanRecord
    <3>4. scans'[agent'.scan].state # "ABSENT" /\ agent'.scan \in Scans
      BY <3>1, <3>3
    <3> QED
      BY <3>1, <3>4 DEF HandsInv
  <2> QED
    BY <2>1, <2>2 DEF Poll, PollUnanswered, endpoint
<1>4. TypeOK'
  BY <1>0, <1>1, <1>2, <1>3 DEF TypeOK
<1>5. EndedHasVerdict'
  BY <1>0, <1>1 DEF EndedHasVerdict
<1>6. SameEvidence
  BY <1>1, <1>2 DEF SameEvidence
<1> QED
  BY <1>3, <1>4, <1>5, <1>6, SameEvidenceKeeps DEF StoredInv

-----------------------------------------------------------------------------
(* The execution                                                           *)

LEMMA EnqueueKeeps ==
    ASSUME StoredInv, scans' = scans, result' = result,
           NEW u \in Upload, u.kind # "result", outbox' = Enqueued(outbox, u)
    PROVE  outbox' \in Seq(Upload) /\ OutboxIsStored' /\ EvidenceIsStored'
<1>1. outbox \in Seq(Upload)
  BY DEF StoredInv, TypeOK
<1>2. outbox' \in Seq(Upload)
  BY <1>1, EnqueuedType
<1>3. \A s, d : Holds(outbox', s, "result", d) => Holds(outbox, s, "result", d)
  BY <1>1, EnqueuedHolds
<1>4. SameEvidence
  BY <1>3, RowsUnchanged DEF SameEvidence
<1> QED
  BY <1>2, <1>4, SameEvidenceKeeps

LEMMA JobReplaced ==
    ASSUME jobs \in [Scans -> Job], EndedHasVerdict, NEW s \in Scans, NEW w \in Job,
           w.status \in Ended => w.verdict \in Verdicts,
           jobs' = [jobs EXCEPT ![s] = w]
    PROVE  /\ jobs' \in [Scans -> Job]
           /\ EndedHasVerdict'
           /\ \A o \in Scans : jobs'[o] = IF o = s THEN w ELSE jobs[o]
<1>1. /\ jobs' \in [Scans -> Job]
      /\ \A o \in Scans : jobs'[o] = IF o = s THEN w ELSE jobs[o]
  OBVIOUS
<1>2. EndedHasVerdict'
  BY <1>1 DEF EndedHasVerdict
<1> QED
  BY <1>1, <1>2

LEMMA HistoryFacts ==
    ASSUME jobs \in [Scans -> Job], EndedHasVerdict, NEW s \in Scans, NEW v \in Verdicts,
           HistoryOf(s, v)
    PROVE  /\ jobs' \in [Scans -> Job]
           /\ EndedHasVerdict'
           /\ \A o \in Scans :
                 /\ jobs'[o].status = jobs[o].status
                 /\ jobs'[o].verdict = jobs[o].verdict
                 /\ jobs'[o].queued = IF o = s THEN jobs[o].queued \cup {v} ELSE jobs[o].queued
<1> DEFINE more == jobs[s].queued \cup {v}
           w == [jobs[s] EXCEPT !.queued = more]
<1>1. jobs[s] \in Job
  OBVIOUS
<1>2. more \in SUBSET Verdicts
  BY <1>1 DEF Job
<1>3. jobs' = [jobs EXCEPT ![s] = w]
  BY DEF HistoryOf
<1> HIDE DEF more
<1>4. /\ w \in Job /\ w.status = jobs[s].status
      /\ w.verdict = jobs[s].verdict /\ w.queued = more
  BY <1>1, <1>2 DEF Job
<1> HIDE DEF w
<1>5. w.status \in Ended => w.verdict \in Verdicts
  BY <1>4 DEF EndedHasVerdict
<1>6. /\ jobs' \in [Scans -> Job]
      /\ EndedHasVerdict'
      /\ \A o \in Scans : jobs'[o] = IF o = s THEN w ELSE jobs[o]
  BY <1>3, <1>4, <1>5, JobReplaced
<1> QED
  BY <1>4, <1>6 DEF more

(* What the two histories and the two enqueued statuses have in common: a  *)
(* free agent, typed tables and no evidence touched.                       *)
LEMMA Settles ==
    ASSUME StoredInv, UNCHANGED <<scans, now, result, release, crashes>>,
           jobs' \in [Scans -> Job], EndedHasVerdict',
           outbox' \in Seq(Upload), OutboxIsStored', EvidenceIsStored',
           NEW pc \in {"down", "repairing", "repaired", "idle", "stored", "failed", "reported"},
           NEW s \in Scans \cup {None}, Becomes(pc, s),
           pc \in {"repaired", "stored", "failed", "reported"} => s \in Scans,
           pc = "repaired" => jobs'[s].verdict \in Verdicts
    PROVE  StoredInv'
<1>1. agent' \in Agent /\ agent'.pc = pc /\ agent'.scan = s
  BY BecomesType
<1>2. TypeOK'
  BY <1>1 DEF StoredInv, TypeOK
<1>3. HandsInv'
  BY <1>1, HandsFree
<1> QED
  BY <1>2, <1>3 DEF StoredInv

LEMMA RepairKeeps ==
    ASSUME StoredInv, NEW s \in Scans, Repair(s) \/ NoteRepair(s)
    PROVE  StoredInv'
<1>0. TypeOK /\ EndedHasVerdict
  BY DEF StoredInv
<1>1. ASSUME Repair(s) PROVE StoredInv'
  <2> DEFINE u == StatusOf(s, jobs[s].verdict)
  <2>1. jobs[s].verdict \in Verdicts
    BY <1>0, <1>1 DEF Repair, Unreported, EndedHasVerdict
  <2>2. u \in Upload /\ u.kind = "status"
    BY <1>0, <2>1, StatusFacts DEF TypeOK
  <2>3. /\ UNCHANGED <<scans, now, jobs, result, release, crashes>>
        /\ \/ outbox' = Enqueued(outbox, u) /\ Becomes("repaired", s)
           \/ outbox' = outbox /\ Becomes("down", None)
    BY <1>1 DEF Repair
  <2> HIDE DEF u
  <2>4. jobs' \in [Scans -> Job] /\ EndedHasVerdict'
    BY <1>0, <2>3 DEF TypeOK, EndedHasVerdict
  <2>5. ASSUME outbox' = Enqueued(outbox, u), Becomes("repaired", s) PROVE StoredInv'
    <3>1. outbox' \in Seq(Upload) /\ OutboxIsStored' /\ EvidenceIsStored'
      BY <2>2, <2>3, <2>5, EnqueueKeeps
    <3>2. jobs'[s].verdict \in Verdicts
      BY <2>1, <2>3
    <3> QED
      BY <2>3, <2>4, <2>5, <3>1, <3>2, Settles
  <2>6. ASSUME outbox' = outbox, Becomes("down", None) PROVE StoredInv'
    <3>1. outbox' \in Seq(Upload)
      BY <1>0, <2>6 DEF TypeOK
    <3> QED
      BY <2>3, <2>4, <2>6, <3>1, Untouched, Settles
  <2> QED
    BY <2>3, <2>5, <2>6
<1>2. ASSUME NoteRepair(s) PROVE StoredInv'
  <2>0. /\ UNCHANGED <<scans, now, result, outbox, release, crashes>>
        /\ HistoryOf(s, jobs[s].verdict) /\ Becomes("repairing", None)
        /\ agent.pc = "repaired" /\ agent.scan = s
    BY <1>2 DEF NoteRepair, At
  <2>1. jobs[s].verdict \in Verdicts
    BY <2>0 DEF StoredInv, HandsInv
  <2>2. jobs' \in [Scans -> Job] /\ EndedHasVerdict'
    BY <1>0, <2>0, <2>1, HistoryFacts DEF TypeOK
  <2>3. outbox' \in Seq(Upload) /\ OutboxIsStored' /\ EvidenceIsStored'
    BY <1>0, <2>0, Untouched DEF TypeOK
  <2> QED
    BY <2>0, <2>2, <2>3, Settles
<1> QED
  BY <1>1, <1>2

LEMMA FailureKeeps ==
    ASSUME StoredInv, NEW s \in Scans, Fail(s) \/ QueueFailure(s) \/ NoteFailure(s)
    PROVE  StoredInv'
<1>0. TypeOK /\ EndedHasVerdict /\ "FAILED" \in Verdicts
  BY DispatchAssumption DEF StoredInv
<1>1. ASSUME Fail(s) PROVE StoredInv'
  <2> DEFINE w == [jobs[s] EXCEPT !.status = "FAILED", !.verdict = "FAILED"]
  <2>0. /\ UNCHANGED <<scans, now, result, outbox, release, crashes>>
        /\ jobs' = [jobs EXCEPT ![s].status = "FAILED", ![s].verdict = "FAILED"]
        /\ Becomes("failed", s)
    BY <1>1 DEF Fail
  <2>1. jobs' = [jobs EXCEPT ![s] = w]
    BY <1>0, <2>0 DEF TypeOK
  <2>2. w \in Job /\ w.verdict \in Verdicts
    BY <1>0 DEF TypeOK, Job
  <2> HIDE DEF w
  <2>3. jobs' \in [Scans -> Job] /\ EndedHasVerdict'
    BY <1>0, <2>1, <2>2, JobReplaced DEF TypeOK
  <2>4. outbox' \in Seq(Upload) /\ OutboxIsStored' /\ EvidenceIsStored'
    BY <1>0, <2>0, Untouched DEF TypeOK
  <2> QED
    BY <2>0, <2>3, <2>4, Settles
<1>2. ASSUME QueueFailure(s) PROVE StoredInv'
  <2> DEFINE u == StatusOf(s, "FAILED")
  <2>1. u \in Upload /\ u.kind = "status"
    BY <1>0, StatusFacts DEF TypeOK
  <2>2. /\ UNCHANGED <<scans, now, jobs, result, release, crashes>>
        /\ \/ outbox' = Enqueued(outbox, u) /\ Becomes("reported", s)
           \/ outbox' = outbox /\ Becomes("idle", None)
    BY <1>2 DEF QueueFailure
  <2> HIDE DEF u
  <2>3. jobs' \in [Scans -> Job] /\ EndedHasVerdict'
    BY <1>0, <2>2 DEF TypeOK, EndedHasVerdict
  <2>4. ASSUME outbox' = Enqueued(outbox, u), Becomes("reported", s) PROVE StoredInv'
    <3>1. outbox' \in Seq(Upload) /\ OutboxIsStored' /\ EvidenceIsStored'
      BY <2>1, <2>2, <2>4, EnqueueKeeps
    <3> QED
      BY <2>2, <2>3, <2>4, <3>1, Settles
  <2>5. ASSUME outbox' = outbox, Becomes("idle", None) PROVE StoredInv'
    <3>1. outbox' \in Seq(Upload)
      BY <1>0, <2>5 DEF TypeOK
    <3> QED
      BY <2>2, <2>3, <2>5, <3>1, Untouched, Settles
  <2> QED
    BY <2>2, <2>4, <2>5
<1>3. ASSUME NoteFailure(s) PROVE StoredInv'
  <2>0. /\ UNCHANGED <<scans, now, result, outbox, release, crashes>>
        /\ HistoryOf(s, "FAILED") /\ Becomes("idle", None)
    BY <1>3 DEF NoteFailure
  <2>1. jobs' \in [Scans -> Job] /\ EndedHasVerdict'
    BY <1>0, <2>0, HistoryFacts DEF TypeOK
  <2>2. outbox' \in Seq(Upload) /\ OutboxIsStored' /\ EvidenceIsStored'
    BY <1>0, <2>0, Untouched DEF TypeOK
  <2> QED
    BY <2>0, <2>1, <2>2, Settles
<1> QED
  BY <1>1, <1>2, <1>3

(* Steps that end an execution without a result.                           *)
LEMMA IdleKeeps ==
    ASSUME StoredInv, NEW s \in Scans,
           RefuseJob(s) \/ Decline(s) \/ Return(s) \/ ReconcileFails(s) \/ FailSilently(s)
    PROVE  StoredInv'
<1>0. TypeOK /\ EndedHasVerdict /\ crashes \in 0 .. MaxCrashes
  BY DEF StoredInv, TypeOK
<1>1. ASSUME RefuseJob(s) PROVE StoredInv'
  <2> DEFINE u == NewUpload(s, "rejection", [verdict |-> "FAILED", release |-> 0])
  <2>1. u \in Upload /\ u.kind = "rejection"
    BY DispatchAssumption DEF NewUpload, Upload, Documents
  <2>2. /\ UNCHANGED <<scans, now, jobs, result, release, crashes>>
        /\ outbox' = Enqueued(outbox, u) /\ Becomes("idle", None)
    BY <1>1 DEF RefuseJob
  <2> HIDE DEF u
  <2>3. jobs' \in [Scans -> Job] /\ EndedHasVerdict'
    BY <1>0, <2>2 DEF TypeOK, EndedHasVerdict
  <2>4. outbox' \in Seq(Upload) /\ OutboxIsStored' /\ EvidenceIsStored'
    BY <2>1, <2>2, EnqueueKeeps
  <2> QED
    BY <2>2, <2>3, <2>4, Settles
<1>2. ASSUME Decline(s) \/ Return(s) \/ ReconcileFails(s) \/ FailSilently(s) PROVE StoredInv'
  <2>1. UNCHANGED <<scans, now, jobs, result, outbox, release, crashes>> /\ Becomes("idle", None)
    BY <1>2 DEF Decline, Return, ReconcileFails, FailSilently
  <2> QED
    BY <1>0, <2>1, LetsGo
<1> QED
  BY <1>1, <1>2

LEMMA BudgetType ==
    ASSUME TypeOK, NEW s \in Scans
    PROVE  Budget(s) \in Nat /\ Budget(s) <= scans[s].deadline
<1>1. scans[s] \in ScanRecord /\ now \in Nat
  BY DispatchAssumption DEF TypeOK
<1>2. scans[s].deadline \in Nat /\ now + Timeout \in Nat
  BY <1>1, DispatchAssumption DEF ScanRecord
<1> QED
  BY <1>2 DEF Budget

LEMMA AcceptFacts ==
    ASSUME TypeOK, EndedHasVerdict, NEW s \in Scans, Accept(s)
    PROVE  /\ jobs' \in [Scans -> Job]
           /\ EndedHasVerdict'
           /\ \A o \in Scans :
                 /\ jobs'[o].verdict = jobs[o].verdict
                 /\ jobs'[o].queued = jobs[o].queued
                 /\ jobs'[o].status = jobs[o].status \/ jobs'[o].status = "QUEUED"
                 /\ jobs[o].status # "ABSENT" => jobs'[o].status = jobs[o].status
<1>1. CASE jobs[s].status = "ABSENT"
  <2> DEFINE w == [jobs[s] EXCEPT !.status = "QUEUED"]
  <2>1. jobs' = [jobs EXCEPT ![s] = w]
    BY <1>1 DEF Accept
  <2>2. /\ w \in Job /\ w.status = "QUEUED"
        /\ w.verdict = jobs[s].verdict /\ w.queued = jobs[s].queued
    BY DEF TypeOK, Job
  <2> HIDE DEF w
  <2>3. /\ jobs' \in [Scans -> Job]
        /\ EndedHasVerdict'
        /\ \A o \in Scans : jobs'[o] = IF o = s THEN w ELSE jobs[o]
    BY <2>1, <2>2, JobReplaced DEF TypeOK, Ended
  <2> QED
    BY <1>1, <2>2, <2>3
<1>2. CASE jobs[s].status # "ABSENT"
  <2>1. jobs' = jobs
    BY <1>2 DEF Accept
  <2> QED
    BY <2>1 DEF TypeOK, EndedHasVerdict
<1> QED
  BY <1>1, <1>2

LEMMA AcceptKeeps == ASSUME StoredInv, NEW s \in Scans, Accept(s) PROVE StoredInv'
<1>0. TypeOK /\ HandsInv /\ EndedHasVerdict
  BY DEF StoredInv
<1>1. /\ agent.pc = "fetched" /\ agent.scan = s
      /\ UNCHANGED <<scans, now, result, outbox, release, crashes>>
  BY DEF Accept, At
<1> DEFINE b == Budget(s)
           pc == IF result[s] = None THEN "created" ELSE "reconciling"
<1>2. b \in Nat /\ b <= scans[s].deadline
  BY <1>0, BudgetType
<1>3. agent' = [pc |-> pc, scan |-> s, until |-> b]
  BY DEF Accept
<1> HIDE DEF b
<1>4. agent' \in Agent /\ agent'.pc = pc /\ agent'.scan = s /\ agent'.until = b
  BY <1>2, <1>3 DEF Agent
<1>5. jobs' \in [Scans -> Job] /\ EndedHasVerdict'
  BY <1>0, AcceptFacts
<1>6. scans[s].state # "ABSENT"
  BY <1>0, <1>1 DEF HandsInv
<1>7. HandsInv'
  BY <1>1, <1>2, <1>4, <1>6 DEF HandsInv
<1>8. TypeOK'
  BY <1>0, <1>1, <1>4, <1>5 DEF TypeOK
<1>9. OutboxIsStored' /\ EvidenceIsStored'
  BY <1>1, Untouched
<1> QED
  BY <1>5, <1>7, <1>8, <1>9 DEF StoredInv

LEMMA RunFacts ==
    ASSUME TypeOK, EndedHasVerdict, NEW s \in Scans, Run(s)
    PROVE  /\ jobs' \in [Scans -> Job]
           /\ EndedHasVerdict'
           /\ \A o \in Scans :
                 /\ jobs'[o].verdict = jobs[o].verdict
                 /\ jobs'[o].queued = jobs[o].queued
                 /\ jobs'[o].status = IF o = s THEN "RUNNING" ELSE jobs[o].status
<1> DEFINE w == [jobs[s] EXCEPT !.status = "RUNNING"]
<1>1. jobs' = [jobs EXCEPT ![s] = w]
  BY DEF Run
<1>2. /\ w \in Job /\ w.status = "RUNNING"
      /\ w.verdict = jobs[s].verdict /\ w.queued = jobs[s].queued
  BY DEF TypeOK, Job
<1> HIDE DEF w
<1>3. /\ jobs' \in [Scans -> Job]
      /\ EndedHasVerdict'
      /\ \A o \in Scans : jobs'[o] = IF o = s THEN w ELSE jobs[o]
  BY <1>1, <1>2, JobReplaced DEF TypeOK, Ended
<1> QED
  BY <1>2, <1>3

LEMMA RunKeeps == ASSUME StoredInv, NEW s \in Scans, Run(s) PROVE StoredInv'
<1>0. TypeOK /\ HandsInv /\ EndedHasVerdict
  BY DEF StoredInv
<1>1. /\ agent.pc = "created" /\ agent.scan = s
      /\ agent' = [agent EXCEPT !.pc = "running"]
      /\ UNCHANGED <<scans, now, result, outbox, release, crashes>>
  BY DEF Run, At, Goes
<1>2. agent' \in Agent /\ agent'.pc = "running" /\ agent'.scan = s /\ agent'.until = agent.until
  BY <1>0, <1>1 DEF TypeOK, Agent
<1>3. jobs' \in [Scans -> Job] /\ EndedHasVerdict'
  BY <1>0, RunFacts
<1>4. /\ scans[s].state # "ABSENT" /\ result[s] = None
      /\ agent.until <= scans[s].deadline
  BY <1>0, <1>1 DEF HandsInv
<1>5. HandsInv'
  BY <1>1, <1>2, <1>4 DEF HandsInv
<1>6. TypeOK'
  BY <1>0, <1>1, <1>2, <1>3 DEF TypeOK
<1>7. OutboxIsStored' /\ EvidenceIsStored'
  BY <1>1, Untouched
<1> QED
  BY <1>3, <1>5, <1>6, <1>7 DEF StoredInv

(* The end of a job with a result.                                         *)
LEMMA FinishedFacts ==
    ASSUME TypeOK, EndedHasVerdict, NEW s \in Scans, NEW d \in Documents, Finished(s, d)
    PROVE  /\ jobs' \in [Scans -> Job]
           /\ EndedHasVerdict'
           /\ \A o \in Scans : o # s => jobs'[o] = jobs[o]
           /\ jobs'[s].status = "COMPLETED"
           /\ jobs'[s].verdict = d.verdict
           /\ jobs'[s].queued = jobs[s].queued \cup {d.verdict}
           /\ outbox' \in Seq(Upload)
           /\ \A o, x : Holds(outbox', o, "result", x)
                           => Holds(outbox, o, "result", x) \/ (o = s /\ x = d)
           /\ \A o, x : Holds(outbox, o, "status", x) => Holds(outbox', o, "status", x)
<1>0. outbox \in Seq(Upload) /\ d.verdict \in Verdicts /\ jobs[s] \in Job
  BY DEF TypeOK, Documents
<1> DEFINE more == jobs[s].queued \cup {d.verdict}
           w == [status |-> "COMPLETED", verdict |-> d.verdict, queued |-> more]
           r == ResultOf(s, d)
           u == StatusOf(s, d.verdict)
           box == Enqueued(outbox, r)
<1>1. more \in SUBSET Verdicts
  BY <1>0 DEF Job
<1>2. outbox' = Enqueued(box, u) /\ jobs' = [jobs EXCEPT ![s] = w]
  BY DEF Finished
<1> HIDE DEF more
<1>3. w \in Job /\ w.status = "COMPLETED" /\ w.verdict = d.verdict /\ w.queued = more
  BY <1>0, <1>1 DEF Job
<1> HIDE DEF w
<1>4. /\ jobs' \in [Scans -> Job]
      /\ EndedHasVerdict'
      /\ \A o \in Scans : jobs'[o] = IF o = s THEN w ELSE jobs[o]
  BY <1>0, <1>2, <1>3, JobReplaced DEF TypeOK
<1>5. /\ r \in Upload /\ r.scan = s /\ r.kind = "result" /\ r.document = d
  BY ResultFacts
<1>6. u \in Upload /\ u.kind = "status"
  BY <1>0, StatusFacts DEF TypeOK
<1> HIDE DEF r, u
<1>7. /\ box \in Seq(Upload)
      /\ \A o, x : Holds(box, o, "result", x) => Holds(outbox, o, "result", x) \/ (o = s /\ x = d)
      /\ \A o, x : Holds(outbox, o, "status", x) => Holds(box, o, "status", x)
  BY <1>0, <1>5, EnqueuedType, EnqueuedHolds
<1> HIDE DEF box
<1>8. /\ Enqueued(box, u) \in Seq(Upload)
      /\ \A o, x : Holds(Enqueued(box, u), o, "result", x) => Holds(box, o, "result", x)
      /\ \A o, x : Holds(box, o, "status", x) => Holds(Enqueued(box, u), o, "status", x)
  BY <1>6, <1>7, EnqueuedType, EnqueuedHolds
<1>9. /\ jobs'[s].status = "COMPLETED"
      /\ jobs'[s].verdict = d.verdict
      /\ jobs'[s].queued = jobs[s].queued \cup {d.verdict}
  BY <1>3, <1>4 DEF more
<1> QED
  BY <1>2, <1>4, <1>7, <1>8, <1>9

LEMMA CompleteKeeps == ASSUME StoredInv, NEW s \in Scans, Complete(s) PROVE StoredInv'
<1>0. TypeOK /\ HandsInv /\ EndedHasVerdict /\ OutboxIsStored /\ EvidenceIsStored
  BY DEF StoredInv
<1>1. /\ agent.pc = "running" /\ agent.scan = s
      /\ Becomes("stored", s)
      /\ UNCHANGED <<scans, now, release, crashes>>
  BY DEF Complete, At
<1>2. PICK d \in Documents : result' = [result EXCEPT ![s] = d] /\ Finished(s, d)
  BY <1>0 DEF Complete, Documents, TypeOK
<1>3. result[s] = None
  BY <1>0, <1>1 DEF HandsInv
<1>4. /\ jobs' \in [Scans -> Job] /\ EndedHasVerdict' /\ outbox' \in Seq(Upload)
      /\ \A o, x : Holds(outbox', o, "result", x)
                       => Holds(outbox, o, "result", x) \/ (o = s /\ x = d)
  BY <1>0, <1>2, FinishedFacts
<1>5. /\ result' \in [Scans -> Documents \cup {None}]
      /\ \A o \in Scans : result'[o] = IF o = s THEN d ELSE result[o]
  BY <1>0, <1>2 DEF TypeOK
<1>6. agent' \in Agent /\ agent'.pc = "stored" /\ agent'.scan = s
  BY <1>1, BecomesType
<1>7. TypeOK'
  BY <1>0, <1>1, <1>4, <1>5, <1>6 DEF TypeOK
<1>8. HandsInv'
  BY <1>6, HandsFree
<1>9. OutboxIsStored'
  <2> SUFFICES ASSUME NEW o \in Scans, NEW x, Holds(outbox', o, "result", x)
               PROVE  x = result'[o]
    BY DEF OutboxIsStored, Holds
  <2>1. CASE o = s /\ x = d
    BY <1>5, <2>1
  <2>2. CASE Holds(outbox, o, "result", x)
    <3>1. x = result[o]
      BY <1>0, <2>2 DEF OutboxIsStored
    <3>2. x \in Documents
      <4>1. PICK i \in DOMAIN outbox : outbox[i].document = x
        BY <2>2 DEF Holds
      <4>2. outbox[i] \in Upload
        BY <1>0, LenProperties, ElementOfSeq DEF TypeOK
      <4> QED
        BY <4>1, <4>2 DEF Upload
    <3>3. o # s
      BY <1>3, <3>1, <3>2, NoneAssumption
    <3> QED
      BY <1>5, <3>1, <3>3
  <2> QED
    BY <1>4, <2>1, <2>2
<1>10. EvidenceIsStored'
  BY <1>0, <1>1, <1>3, <1>5 DEF EvidenceIsStored
<1> QED
  BY <1>4, <1>7, <1>8, <1>9, <1>10 DEF StoredInv

LEMMA ReconcileKeeps == ASSUME StoredInv, NEW s \in Scans, Reconcile(s) PROVE StoredInv'
<1>0. TypeOK /\ HandsInv /\ EndedHasVerdict /\ OutboxIsStored
  BY DEF StoredInv
<1>1. /\ agent.pc = "reconciling" /\ agent.scan = s
      /\ Finished(s, result[s]) /\ Becomes("idle", None)
      /\ UNCHANGED <<scans, now, result, release, crashes>>
  BY DEF Reconcile, At
<1>2. result[s] \in Documents
  BY <1>0, <1>1 DEF HandsInv, TypeOK
<1>3. /\ jobs' \in [Scans -> Job] /\ EndedHasVerdict' /\ outbox' \in Seq(Upload)
      /\ \A o, x : Holds(outbox', o, "result", x)
                       => Holds(outbox, o, "result", x) \/ (o = s /\ x = result[s])
  BY <1>0, <1>1, <1>2, FinishedFacts
<1>4. OutboxIsStored'
  BY <1>0, <1>1, <1>3 DEF OutboxIsStored
<1>5. EvidenceIsStored'
  BY <1>1 DEF StoredInv, EvidenceIsStored
<1> QED
  BY <1>1, <1>3, <1>4, <1>5, Settles

-----------------------------------------------------------------------------
(* The delivery                                                            *)

(* What the cloud commits for a row of the outbox is of the stored result. *)
LEMMA CommittedFacts ==
    ASSUME StoredInv, NEW i \in DOMAIN outbox, Answer(outbox[i]) = "ok",
           scans' = Committed(outbox[i]), result' = result
    PROVE  /\ scans' \in [Scans -> ScanRecord]
           /\ \A s \in Scans : Steady(scans[s], scans'[s])
           /\ EvidenceIsStored'
<1>0. TypeOK /\ OutboxIsStored /\ EvidenceIsStored
  BY DEF StoredInv
<1> DEFINE s == outbox[i].scan
           d == outbox[i].document
           b == outbox[i].resync
           k == outbox[i].kind
           row == CASE k = "result" -> Ingested(scans[s], d, b)
                    [] k = "status" -> StatusRecorded(scans[s], d)
                    [] OTHER -> Rejected(scans[s])
<1>1. s \in Scans /\ d \in Documents /\ b \in BOOLEAN /\ k \in {"result", "status", "rejection"}
  <2>1. outbox[i] \in Upload
    BY <1>0, LenProperties, ElementOfSeq DEF TypeOK
  <2> QED
    BY <2>1 DEF Upload
<1>2. k = "result" => d = result[s]
  BY <1>0, <1>1 DEF OutboxIsStored, Holds
<1>3. /\ k = "result" => IngestAnswer(scans[s], b) = "ok"
      /\ k = "status" => StatusAnswer(scans[s], d) = "ok"
  BY DEF Answer
<1>4. scans' = [scans EXCEPT ![s] = row]
  BY DEF Committed
<1> HIDE DEF s, d, b, k
<1>5. scans[s] \in ScanRecord /\ now \in Nat
  BY <1>0, <1>1, DispatchAssumption DEF TypeOK
<1>6. /\ row \in ScanRecord
      /\ Steady(scans[s], row)
      /\ row.upload # None => row.upload = result[s]
      /\ row.status # None => row.status = result[s]
  <2>0. /\ scans[s].upload # None => scans[s].upload = result[s]
        /\ scans[s].status # None => scans[s].status = result[s]
        /\ None \notin Documents
    BY <1>0, <1>1, NoneAssumption DEF EvidenceIsStored
  <2>1. CASE k = "result"
    <3>1. row = Ingested(scans[s], d, b)
      BY <2>1
    <3> HIDE DEF row
    <3>2. row \in ScanRecord
      BY <1>1, <1>5, <3>1, RowTypes
    <3>3. /\ Steady(scans[s], row) /\ row.status = scans[s].status
          /\ row.upload = IF scans[s].upload # None THEN scans[s].upload ELSE d
      BY <1>1, <1>5, <3>1, UploadedRow
    <3> QED
      BY <1>2, <2>0, <2>1, <3>2, <3>3
  <2>2. CASE k = "status"
    <3>1. row = StatusRecorded(scans[s], d)
      BY <2>2
    <3> HIDE DEF row
    <3>2. row \in ScanRecord
      BY <1>1, <1>5, <3>1, RowTypes
    <3>3. /\ Steady(scans[s], row) /\ row.upload = scans[s].upload
          /\ row.status = IF scans[s].status # None THEN scans[s].status ELSE d
      BY <1>1, <1>5, <3>1, UploadedRow
    <3>4. scans[s].status = d \/ scans[s].upload = d
      BY <1>3, <2>2 DEF StatusAnswer
    <3> QED
      BY <1>1, <2>0, <3>2, <3>3, <3>4
  <2>3. CASE k = "rejection"
    <3>1. row = Rejected(scans[s])
      BY <2>3
    <3> HIDE DEF row
    <3>2. row \in ScanRecord
      BY <1>1, <1>5, <3>1, RowTypes
    <3>3. Steady(scans[s], row) /\ row.upload = scans[s].upload /\ row.status = scans[s].status
      BY <1>1, <1>5, <3>1, UploadedRow
    <3> QED
      BY <2>0, <3>2, <3>3
  <2> QED
    BY <1>1, <2>1, <2>2, <2>3
<1> HIDE DEF row
<1>7. /\ scans' \in [Scans -> ScanRecord]
      /\ \A o \in Scans : scans'[o] = IF o = s THEN row ELSE scans[o]
  BY <1>0, <1>1, <1>4, <1>6 DEF TypeOK
<1>8. \A o \in Scans : Steady(scans[o], scans'[o])
  BY <1>6, <1>7 DEF Steady
<1>9. EvidenceIsStored'
  BY <1>0, <1>6, <1>7 DEF EvidenceIsStored
<1> QED
  BY <1>7, <1>8, <1>9

(* A step of the delivery leaves the agent and its tables alone, and no    *)
(* row of the outbox appears whose like was not there.                     *)
LEMMA Delivers ==
    ASSUME StoredInv, UNCHANGED <<now, jobs, result, agent, release, crashes>>,
           scans' \in [Scans -> ScanRecord], \A s \in Scans : Steady(scans[s], scans'[s]),
           EvidenceIsStored', outbox' \in Seq(Upload),
           \A s, k, d : Holds(outbox', s, k, d) <=> Holds(outbox, s, k, d)
    PROVE  StoredInv'
<1>0. TypeOK /\ HandsInv /\ EndedHasVerdict /\ OutboxIsStored
  BY DEF StoredInv
<1>1. TypeOK'
  BY <1>0 DEF TypeOK
<1>2. HandsInv'
  BY <1>0, HandsKept
<1>3. EndedHasVerdict'
  BY <1>0 DEF EndedHasVerdict
<1>4. OutboxIsStored'
  BY <1>0 DEF OutboxIsStored
<1> QED
  BY <1>1, <1>2, <1>3, <1>4 DEF StoredInv

(* What a step of the delivery does to the outbox.                         *)
LEMMA DeliveryFacts ==
    ASSUME outbox \in Seq(Upload), NEW i \in DOMAIN outbox,
           Send(i) \/ DeliverUnanswered(i) \/ GiveUp(i) \/ Requeue(i)
    PROVE  /\ UNCHANGED <<now, jobs, result, agent, release, crashes>>
           /\ outbox' \in Seq(Upload)
           /\ \A s, k, d : Holds(outbox', s, k, d) <=> Holds(outbox, s, k, d)
<1>1. ASSUME NEW x \in {"PENDING", "SUCCEEDED", "DEAD"}, outbox' = [outbox EXCEPT ![i].state = x]
      PROVE  /\ outbox' \in Seq(Upload)
             /\ \A s, k, d : Holds(outbox', s, k, d) <=> Holds(outbox, s, k, d)
  <2> DEFINE box == [outbox EXCEPT ![i].state = x]
  <2>1. /\ box \in Seq(Upload)
        /\ \A s, k, d : Holds(box, s, k, d) <=> Holds(outbox, s, k, d)
    BY MarkedFacts
  <2>2. outbox' = box
    BY <1>1
  <2> HIDE DEF box
  <2> QED
    BY <2>1, <2>2
<1>2. CASE Deliver(i)
  BY <1>1, <1>2 DEF Deliver
<1>3. CASE Refused(i)
  <2>1. outbox' = AfterRefusal(i) /\ UNCHANGED <<now, jobs, result, agent, release, crashes>>
    BY <1>3 DEF Refused
  <2> QED
    BY <2>1, RefusalFacts
<1>4. CASE DeliverUnanswered(i)
  BY <1>4 DEF DeliverUnanswered, endpoint
<1>5. CASE GiveUp(i)
  BY <1>1, <1>5 DEF GiveUp
<1>6. CASE Requeue(i)
  BY <1>1, <1>6 DEF Requeue
<1> QED
  BY <1>2, <1>3, <1>4, <1>5, <1>6 DEF Send

LEMMA DeliveryKeeps ==
    ASSUME StoredInv, NEW i \in DOMAIN outbox,
           Send(i) \/ DeliverUnanswered(i) \/ GiveUp(i) \/ Requeue(i)
    PROVE  StoredInv'
<1>1. /\ UNCHANGED <<now, jobs, result, agent, release, crashes>>
      /\ outbox' \in Seq(Upload)
      /\ \A s, k, d : Holds(outbox', s, k, d) <=> Holds(outbox, s, k, d)
  BY DeliveryFacts DEF StoredInv, TypeOK
<1>2. CASE Deliver(i) \/ DeliverUnanswered(i)
  <2>1. Answer(outbox[i]) = "ok" /\ scans' = Committed(outbox[i])
    BY <1>2 DEF Deliver, DeliverUnanswered
  <2>2. /\ scans' \in [Scans -> ScanRecord]
        /\ \A s \in Scans : Steady(scans[s], scans'[s])
        /\ EvidenceIsStored'
    BY <1>1, <2>1, CommittedFacts
  <2> QED
    BY <1>1, <2>2, Delivers
<1>3. CASE Refused(i) \/ GiveUp(i) \/ Requeue(i)
  <2>1. scans' = scans
    BY <1>3 DEF Refused, GiveUp, Requeue
  <2>2. scans' \in [Scans -> ScanRecord] /\ EvidenceIsStored'
    BY <1>1, <2>1 DEF StoredInv, TypeOK, EvidenceIsStored
  <2> QED
    BY <1>1, <2>1, <2>2, RowsUnchanged, Delivers
<1> QED
  BY <1>2, <1>3 DEF Send

-----------------------------------------------------------------------------
(* Every step                                                              *)

LEMMA StepsKeep == StoredInv /\ [Next]_vars => StoredInv'
<1> SUFFICES ASSUME StoredInv, [Next]_vars PROVE StoredInv'
  OBVIOUS
<1>1. CASE Tick
  BY <1>1, TickKeeps
<1>2. CASE Crash \/ Upgrade
  BY <1>2, ProcessKeeps
<1>3. CASE Serve
  BY <1>3, ProcessKeeps, RepairKeeps DEF Serve
<1>4. ASSUME NEW s \in Scans, Authorize(s) PROVE StoredInv'
  BY <1>4, AuthorizeKeeps
<1>5. ASSUME NEW s \in Scans, Execute(s) PROVE StoredInv'
  BY <1>5, IdleKeeps, AcceptKeeps, RunKeeps, CompleteKeeps, ReconcileKeeps, FailureKeeps
     DEF Execute
<1>6. ASSUME NEW rows \in SUBSET Waiting, Poll(rows) \/ PollUnanswered(rows) PROVE StoredInv'
  BY <1>6, PollsKeep
<1>7. ASSUME NEW i \in DOMAIN outbox,
             Send(i) \/ DeliverUnanswered(i) \/ GiveUp(i) \/ Requeue(i)
      PROVE  StoredInv'
  BY <1>7, DeliveryKeeps
<1>8. CASE UNCHANGED vars
  BY <1>8 DEF vars, StoredInv, TypeOK, HandsInv, EndedHasVerdict, OutboxIsStored, Holds,
              EvidenceIsStored
<1> QED
  BY <1>1, <1>2, <1>3, <1>4, <1>5, <1>6, <1>7, <1>8 DEF Next

LEMMA StoredAlways == Spec => []StoredInv
<1>1. LifecycleInit => StoredInv
  BY StoredInit
<1>2. StoredInv /\ [Next]_vars => StoredInv'
  BY StepsKeep
<1> QED
  BY <1>1, <1>2, PTL DEF Spec

(* The types of all rows of both sides and of the agent's memory hold in   *)
(* every execution.                                                        *)
THEOREM TypeCorrect == Spec => []TypeOK
<1>1. StoredInv => TypeOK
  BY DEF StoredInv
<1> QED
  BY <1>1, StoredAlways, PTL

(* What the cloud has accepted as evidence or as terminal status is the    *)
(* endpoint's stored result, whatever was repeated, refused, resent,       *)
(* crashed or upgraded (ingest_scan, validate_scan_status).                *)
THEOREM EvidenceCorrect == Spec => []EvidenceIsStored
<1>1. StoredInv => EvidenceIsStored
  BY DEF StoredInv
<1> QED
  BY <1>1, StoredAlways, PTL

-----------------------------------------------------------------------------
(* No result after the authorization                                       *)

LEMMA OnlyCompleteStores ==
    ASSUME [Next]_vars, \A s \in Scans : ~Complete(s)
    PROVE  result' = result
<1>1. CASE Tick \/ Crash \/ Upgrade \/ Serve
  BY <1>1 DEF Tick, Crash, Upgrade, Serve, StartAgent, EnterLoop, Repair, NoteRepair, endpoint
<1>2. ASSUME NEW s \in Scans, Authorize(s) \/ Execute(s) PROVE result' = result
  BY <1>2 DEF Authorize, endpoint, Execute, RefuseJob, Decline, Accept, Run, Return, Reconcile,
              ReconcileFails, Fail, FailSilently, QueueFailure, NoteFailure
<1>3. ASSUME NEW rows \in SUBSET Waiting, Poll(rows) \/ PollUnanswered(rows)
      PROVE  result' = result
  BY <1>3 DEF Poll, PollUnanswered, endpoint
<1>4. ASSUME NEW i \in DOMAIN outbox,
             Send(i) \/ DeliverUnanswered(i) \/ GiveUp(i) \/ Requeue(i)
      PROVE  result' = result
  BY <1>4 DEF Send, Deliver, Refused, DeliverUnanswered, GiveUp, Requeue, endpoint
<1> QED
  BY <1>1, <1>2, <1>3, <1>4 DEF Next, vars

LEMMA CompleteFacts ==
    ASSUME TypeOK, NEW s \in Scans, Complete(s)
    PROVE  \E d \in Documents :
              /\ Finished(s, d)
              /\ result' \in [Scans -> Documents \cup {None}]
              /\ \A o \in Scans : result'[o] = IF o = s THEN d ELSE result[o]
<1>1. PICK d \in Documents : result' = [result EXCEPT ![s] = d] /\ Finished(s, d)
  BY DEF Complete, Documents, TypeOK
<1> QED
  BY <1>1 DEF TypeOK

LEMMA StoresInTime ==
    ASSUME StoredInv, [Next]_vars, NEW s \in Scans, result'[s] # result[s]
    PROVE  now < scans[s].deadline
<1>0. TypeOK /\ HandsInv
  BY DEF StoredInv
<1>1. PICK o \in Scans : Complete(o)
  BY OnlyCompleteStores
<1>2. o = s
  BY <1>0, <1>1, CompleteFacts
<1>3. now < agent.until /\ agent.until <= scans[s].deadline
  BY <1>0, <1>1, <1>2 DEF Complete, At, HandsInv
<1>4. now \in Nat /\ agent.until \in Nat /\ scans[s].deadline \in Nat
  BY <1>0, DispatchAssumption DEF TypeOK, Agent, ScanRecord
<1> QED
  BY <1>3, <1>4

(* No result is stored once the authorization of its job has ended, for    *)
(* every timeout and every deadline (execute, _require_execution_time).    *)
THEOREM ResultInTime == Spec => NoLateResult
<1>1. StoredInv /\ [Next]_vars
         => [\A s \in Scans : result'[s] # result[s] => now < scans[s].deadline]_vars
  BY StoresInTime
<1> QED
  BY <1>1, StoredAlways, PTL DEF Spec, NoLateResult

-----------------------------------------------------------------------------
(* A stored result is final                                                *)

(* This holds as long as the store can be read: with StoreFaults, execute  *)
(* marks a completed job as failed.                                        *)
FinalInv == \A s \in Scans : result[s] # None => jobs[s].status = "COMPLETED"

(* What a step that does not finish a job may do to it.                    *)
LEMMA OthersKeepFinal ==
    ASSUME ~StoreFaults, StoredInv, FinalInv, [Next]_vars,
           \A s \in Scans : ~Complete(s) /\ ~Reconcile(s), NEW o \in Scans, result[o] # None
    PROVE  jobs'[o].status = jobs[o].status
<1>0. TypeOK /\ HandsInv /\ EndedHasVerdict /\ jobs[o].status = "COMPLETED"
  BY DEF StoredInv, FinalInv
<1>1. CASE jobs' = jobs
  BY <1>1
<1>2. ASSUME NEW s \in Scans, Accept(s) PROVE jobs'[o].status = jobs[o].status
  BY <1>0, <1>2, AcceptFacts
<1>3. ASSUME NEW s \in Scans, Run(s) PROVE jobs'[o].status = jobs[o].status
  <2>1. s # o
    BY <1>0, <1>3 DEF Run, At, HandsInv
  <2> QED
    BY <1>0, <1>3, <2>1, RunFacts
<1>4. ASSUME NEW s \in Scans, Fail(s) PROVE jobs'[o].status = jobs[o].status
  <2>1. s # o
    BY <1>0, <1>4 DEF Fail, MayFail, At, HandsInv
  <2> QED
    BY <1>0, <1>4, <2>1 DEF Fail, TypeOK
<1>5. ASSUME NEW s \in Scans, NEW v, HistoryOf(s, v) PROVE jobs'[o].status = jobs[o].status
  BY <1>0, <1>5 DEF HistoryOf, TypeOK, Job
<1>6. CASE Tick \/ Crash \/ Upgrade \/ Serve
  BY <1>1, <1>5, <1>6 DEF Tick, Crash, Upgrade, Serve, StartAgent, EnterLoop, Repair, NoteRepair,
                          endpoint
<1>7. ASSUME NEW s \in Scans, Authorize(s) \/ Execute(s)
      PROVE  jobs'[o].status = jobs[o].status
  BY <1>1, <1>2, <1>3, <1>4, <1>5, <1>7
     DEF Authorize, endpoint, Execute, RefuseJob, Decline, Return, ReconcileFails, FailSilently,
         QueueFailure, NoteFailure
<1>8. ASSUME NEW rows \in SUBSET Waiting, Poll(rows) \/ PollUnanswered(rows)
      PROVE  jobs'[o].status = jobs[o].status
  BY <1>1, <1>8 DEF Poll, PollUnanswered, endpoint
<1>9. ASSUME NEW i \in DOMAIN outbox,
             Send(i) \/ DeliverUnanswered(i) \/ GiveUp(i) \/ Requeue(i)
      PROVE  jobs'[o].status = jobs[o].status
  BY <1>1, <1>9 DEF Send, Deliver, Refused, DeliverUnanswered, GiveUp, Requeue, endpoint
<1> QED
  BY <1>1, <1>6, <1>7, <1>8, <1>9 DEF Next, vars

LEMMA KeepsFinal ==
    ASSUME ~StoreFaults, StoredInv, FinalInv, [Next]_vars
    PROVE  /\ FinalInv'
           /\ \A s \in Scans :
                 result[s] # None => result'[s] = result[s] /\ jobs'[s].status = "COMPLETED"
<1>0. TypeOK /\ HandsInv /\ EndedHasVerdict
  BY DEF StoredInv
<1>1. ASSUME NEW s \in Scans, Complete(s)
      PROVE  \A o \in Scans : /\ result[o] # None => result'[o] = result[o]
                              /\ result'[o] # None => jobs'[o].status = "COMPLETED"
  <2>1. PICK d \in Documents : /\ Finished(s, d)
                               /\ \A o \in Scans : result'[o] = IF o = s THEN d ELSE result[o]
    BY <1>0, <1>1, CompleteFacts
  <2>2. result[s] = None
    BY <1>0, <1>1 DEF Complete, At, HandsInv
  <2>3. /\ \A o \in Scans : o # s => jobs'[o] = jobs[o]
        /\ jobs'[s].status = "COMPLETED"
    BY <1>0, <2>1, FinishedFacts
  <2> QED
    BY <2>1, <2>2, <2>3 DEF FinalInv
<1>2. ASSUME NEW s \in Scans, Reconcile(s)
      PROVE  \A o \in Scans : /\ result[o] # None => result'[o] = result[o]
                              /\ result'[o] # None => jobs'[o].status = "COMPLETED"
  <2>1. result' = result /\ Finished(s, result[s]) /\ result[s] \in Documents
    BY <1>0, <1>2 DEF Reconcile, At, HandsInv, TypeOK
  <2>2. /\ \A o \in Scans : o # s => jobs'[o] = jobs[o]
        /\ jobs'[s].status = "COMPLETED"
    BY <1>0, <2>1, FinishedFacts
  <2> QED
    BY <2>1, <2>2 DEF FinalInv
<1>3. ASSUME \A s \in Scans : ~Complete(s) /\ ~Reconcile(s)
      PROVE  \A o \in Scans : /\ result[o] # None => result'[o] = result[o]
                              /\ result'[o] # None => jobs'[o].status = "COMPLETED"
  <2>1. result' = result
    BY <1>3, OnlyCompleteStores
  <2> QED
    BY <1>3, <2>1, OthersKeepFinal DEF FinalInv
<1>4. \A o \in Scans : /\ result[o] # None => result'[o] = result[o]
                       /\ result'[o] # None => jobs'[o].status = "COMPLETED"
  BY <1>1, <1>2, <1>3
<1>5. FinalInv'
  BY <1>4 DEF FinalInv
<1> QED
  BY <1>4, <1>5

LEMMA FinalAlways == ASSUME ~StoreFaults PROVE Spec => []FinalInv
<1>1. LifecycleInit => FinalInv
  BY DEF LifecycleInit, FinalInv
<1>2. StoredInv /\ FinalInv /\ [Next]_vars => FinalInv'
  BY KeepsFinal
<1> QED
  BY <1>1, <1>2, StoredAlways, PTL DEF Spec

(* A stored result is never replaced and its job stays completed, through  *)
(* repeated dispatches, crashes and upgrades, as long as the store can be  *)
(* read (execute).                                                         *)
THEOREM ResultFinal == ASSUME ~StoreFaults PROVE Spec => ResultIsFinal
<1>1. StoredInv /\ FinalInv /\ [Next]_vars
         => [\A s \in Scans :
                result[s] # None => result'[s] = result[s] /\ jobs'[s].status = "COMPLETED"]_vars
  BY KeepsFinal
<1> QED
  BY <1>1, StoredAlways, FinalAlways, PTL DEF Spec, ResultIsFinal

-----------------------------------------------------------------------------
(* The history of an ended job                                             *)

LEMMA QueuedHolds ==
    ASSUME NEW s, NEW v
    PROVE  QueuedStatus(s, v) <=> \E d : Holds(outbox, s, "status", d) /\ d.verdict = v
BY DEF QueuedStatus, Holds

LEMMA QueuedHoldsNext ==
    ASSUME NEW s, NEW v
    PROVE  QueuedStatus(s, v)' <=> \E d : Holds(outbox', s, "status", d) /\ d.verdict = v
BY DEF QueuedStatus, Holds

(* No status leaves the outbox.                                            *)
StatusesStay == \A s, d : Holds(outbox, s, "status", d) => Holds(outbox', s, "status", d)

LEMMA QueuedStays ==
    ASSUME StatusesStay, NEW s, NEW v, QueuedStatus(s, v)
    PROVE  QueuedStatus(s, v)'
BY QueuedHolds, QueuedHoldsNext DEF StatusesStay

(* Once a status has been enqueued, one of its verdict is in the outbox,   *)
(* be it an older row with the same key.                                   *)
LEMMA EnqueuedVerdict ==
    ASSUME NEW box \in Seq(Upload), NEW u \in Upload, u.kind = "status"
    PROVE  \E d : Holds(Enqueued(box, u), u.scan, "status", d) /\ d.verdict = u.document.verdict
<1>1. CASE \E i \in DOMAIN box : SameKey(box[i], u)
  <2>1. PICK i \in DOMAIN box : SameKey(box[i], u)
    BY <1>1
  <2>2. box[i].scan = u.scan /\ box[i].kind = "status" /\ box[i].document.verdict = u.document.verdict
    BY <2>1 DEF SameKey
  <2>3. Holds(box, u.scan, "status", box[i].document)
    BY <2>2 DEF Holds
  <2> QED
    BY <1>1, <2>2, <2>3 DEF Enqueued
<1>2. CASE ~ \E i \in DOMAIN box : SameKey(box[i], u)
  <2>1. PICK w \in Upload :
           /\ Enqueued(box, u) = Append(box, w)
           /\ w.scan = u.scan /\ w.kind = u.kind /\ w.document = u.document
    BY <1>2, EnqueuedRow
  <2>2. Holds(Enqueued(box, u), u.scan, "status", u.document)
    BY <2>1, AppendHolds
  <2> QED
    BY <2>2
<1> QED
  BY <1>1, <1>2

(* A status that the endpoint enqueues.                                    *)
LEMMA StatusEnqueued ==
    ASSUME TypeOK, NEW s \in Scans, NEW v \in Verdicts, outbox' = Enqueued(outbox, StatusOf(s, v))
    PROVE  StatusesStay /\ QueuedStatus(s, v)'
<1> DEFINE u == StatusOf(s, v)
<1>1. /\ u \in Upload /\ u.scan = s /\ u.kind = "status"
      /\ u.document = [verdict |-> v, release |-> release]
  BY StatusFacts DEF TypeOK
<1>2. u.document.verdict = v
  BY <1>1
<1>3. outbox' = Enqueued(outbox, u) /\ outbox \in Seq(Upload)
  BY DEF TypeOK
<1> HIDE DEF u
<1>4. StatusesStay
  BY <1>1, <1>3, EnqueuedHolds DEF StatusesStay
<1>5. \E d : Holds(outbox', s, "status", d) /\ d.verdict = v
  BY <1>1, <1>2, <1>3, EnqueuedVerdict
<1> QED
  BY <1>4, <1>5, QueuedHoldsNext

LEMMA FinishedQueues ==
    ASSUME TypeOK, NEW s \in Scans, NEW d \in Documents, Finished(s, d)
    PROVE  QueuedStatus(s, d.verdict)'
<1> DEFINE r == ResultOf(s, d)
           u == StatusOf(s, d.verdict)
           box == Enqueued(outbox, r)
<1>1. d.verdict \in Verdicts /\ outbox' = Enqueued(box, u)
  BY DEF Documents, Finished
<1>2. /\ u \in Upload /\ u.scan = s /\ u.kind = "status"
      /\ u.document = [verdict |-> d.verdict, release |-> release]
  BY <1>1, StatusFacts DEF TypeOK
<1>3. u.document.verdict = d.verdict
  BY <1>2
<1>4. box \in Seq(Upload)
  BY ResultFacts, EnqueuedType DEF TypeOK
<1> HIDE DEF u, box
<1>5. \E x : Holds(outbox', s, "status", x) /\ x.verdict = d.verdict
  BY <1>1, <1>2, <1>3, <1>4, EnqueuedVerdict
<1> QED
  BY <1>5, QueuedHoldsNext

(* What the history of a job tells of the outbox.                          *)
JobHistory(s) ==
    /\ \A v \in jobs[s].queued : QueuedStatus(s, v)
    /\ result[s] = None => jobs[s].queued \subseteq {"FAILED"}
    /\ jobs[s].status = "COMPLETED" => jobs[s].verdict \in jobs[s].queued
    /\ jobs[s].status = "FAILED" => jobs[s].verdict = "FAILED"

(* Between the outbox and the history, the agent knows what it queued.     *)
BetweenTheTwo ==
    \A s \in Scans :
        /\ At("repaired", s) => jobs[s].verdict = "FAILED" /\ QueuedStatus(s, "FAILED")
        /\ At("reported", s) => QueuedStatus(s, "FAILED")

HistoryInv == (\A s \in Scans : JobHistory(s)) /\ BetweenTheTwo

LEMMA HistoryTells ==
    ASSUME StoredInv, FinalInv, HistoryInv
    PROVE  EndedIsQueued
<1> SUFFICES ASSUME NEW s \in Scans, jobs[s].status \in Ended, jobs[s].queued # {}
             PROVE  QueuedStatus(s, jobs[s].verdict)
  BY DEF EndedIsQueued
<1>1. JobHistory(s)
  BY DEF HistoryInv
<1>2. CASE jobs[s].status = "COMPLETED"
  BY <1>1, <1>2 DEF JobHistory
<1>3. CASE jobs[s].status = "FAILED"
  <2>1. result[s] = None
    BY <1>3 DEF FinalInv
  <2>2. "FAILED" \in jobs[s].queued
    BY <1>1, <2>1 DEF JobHistory
  <2> QED
    BY <1>1, <1>3, <2>2 DEF JobHistory
<1> QED
  BY <1>2, <1>3 DEF Ended

LEMMA JobHistoryStays ==
    ASSUME StatusesStay, NEW s, JobHistory(s), result'[s] = result[s], jobs'[s] = jobs[s]
    PROVE  JobHistory(s)'
<1>1. \A v \in jobs'[s].queued : QueuedStatus(s, v)'
  BY QueuedStays DEF JobHistory
<1> QED
  BY <1>1 DEF JobHistory

LEMMA FreeBetween ==
    ASSUME agent'.pc \notin {"repaired", "reported"} PROVE BetweenTheTwo'
BY DEF BetweenTheTwo, At

(* A step that leaves jobs and results alone and drops no status.          *)
LEMMA PlainHistory ==
    ASSUME HistoryInv, StatusesStay, jobs' = jobs, result' = result,
           agent' = agent \/ agent'.pc \notin {"repaired", "reported"}
    PROVE  HistoryInv'
<1>1. \A s \in Scans : JobHistory(s)'
  BY JobHistoryStays DEF HistoryInv
<1>2. CASE agent' = agent
  <2>1. ASSUME NEW s \in Scans
        PROVE  /\ At("repaired", s)' => jobs'[s].verdict = "FAILED" /\ QueuedStatus(s, "FAILED")'
               /\ At("reported", s)' => QueuedStatus(s, "FAILED")'
    BY <1>2, QueuedStays DEF HistoryInv, BetweenTheTwo, At
  <2>2. BetweenTheTwo'
    BY <2>1 DEF BetweenTheTwo
  <2> QED
    BY <1>1, <2>2 DEF HistoryInv
<1>3. CASE agent'.pc \notin {"repaired", "reported"}
  BY <1>1, <1>3, FreeBetween DEF HistoryInv
<1> QED
  BY <1>2, <1>3

LEMMA SameOutbox == outbox' = outbox => StatusesStay
BY DEF StatusesStay, Holds

LEMMA BetweenRepaired ==
    ASSUME NEW s \in Scans, agent'.pc = "repaired", agent'.scan = s,
           jobs'[s].verdict = "FAILED", QueuedStatus(s, "FAILED")'
    PROVE  BetweenTheTwo'
BY DEF BetweenTheTwo, At

LEMMA BetweenReported ==
    ASSUME NEW s \in Scans, agent'.pc = "reported", agent'.scan = s, QueuedStatus(s, "FAILED")'
    PROVE  BetweenTheTwo'
BY DEF BetweenTheTwo, At

LEMMA RepairHistory ==
    ASSUME StoredInv, HistoryInv, NEW s \in Scans, Repair(s)
    PROVE  HistoryInv'
<1>0. TypeOK /\ "FAILED" \in Verdicts
  BY DispatchAssumption DEF StoredInv
<1>1. jobs[s].verdict = "FAILED"
  <2>1. jobs[s].status \in Ended /\ jobs[s].queued = {}
    BY DEF Repair, Unreported
  <2>2. JobHistory(s)
    BY DEF HistoryInv
  <2> QED
    BY <2>1, <2>2 DEF JobHistory, Ended
<1>2. jobs' = jobs /\ result' = result
  BY DEF Repair
<1>3. CASE outbox' = Enqueued(outbox, StatusOf(s, jobs[s].verdict)) /\ Becomes("repaired", s)
  <2>1. StatusesStay /\ QueuedStatus(s, "FAILED")'
    BY <1>0, <1>1, <1>3, StatusEnqueued
  <2>2. agent'.pc = "repaired" /\ agent'.scan = s
    BY <1>3, BecomesType
  <2>3. BetweenTheTwo'
    BY <1>1, <1>2, <2>1, <2>2, BetweenRepaired
  <2>4. \A o \in Scans : JobHistory(o)'
    BY <1>2, <2>1, JobHistoryStays DEF HistoryInv
  <2> QED
    BY <2>3, <2>4 DEF HistoryInv
<1>4. CASE outbox' = outbox /\ Becomes("down", None)
  <2>1. agent'.pc = "down"
    BY <1>4, BecomesType
  <2> QED
    BY <1>2, <1>4, <2>1, SameOutbox, PlainHistory
<1> QED
  BY <1>3, <1>4 DEF Repair

LEMMA ReportHistory ==
    ASSUME StoredInv, HistoryInv, NEW s \in Scans, QueueFailure(s)
    PROVE  HistoryInv'
<1>0. TypeOK /\ "FAILED" \in Verdicts
  BY DispatchAssumption DEF StoredInv
<1>1. jobs' = jobs /\ result' = result
  BY DEF QueueFailure
<1>2. CASE outbox' = Enqueued(outbox, StatusOf(s, "FAILED")) /\ Becomes("reported", s)
  <2>1. StatusesStay /\ QueuedStatus(s, "FAILED")'
    BY <1>0, <1>2, StatusEnqueued
  <2>2. agent'.pc = "reported" /\ agent'.scan = s
    BY <1>2, BecomesType
  <2>3. BetweenTheTwo'
    BY <2>1, <2>2, BetweenReported
  <2>4. \A o \in Scans : JobHistory(o)'
    BY <1>1, <2>1, JobHistoryStays DEF HistoryInv
  <2> QED
    BY <2>3, <2>4 DEF HistoryInv
<1>3. CASE outbox' = outbox /\ Becomes("idle", None)
  <2>1. agent'.pc = "idle"
    BY <1>3, BecomesType
  <2> QED
    BY <1>1, <1>3, <2>1, SameOutbox, PlainHistory
<1> QED
  BY <1>2, <1>3 DEF QueueFailure

(* The history event of a status that is in the outbox.                    *)
LEMMA NoteHistory ==
    ASSUME StoredInv, HistoryInv, NEW s \in Scans, NoteRepair(s) \/ NoteFailure(s)
    PROVE  HistoryInv'
<1>0. TypeOK /\ EndedHasVerdict /\ "FAILED" \in Verdicts
  BY DispatchAssumption DEF StoredInv
<1>1. /\ HistoryOf(s, "FAILED") /\ QueuedStatus(s, "FAILED")
      /\ outbox' = outbox /\ result' = result
      /\ agent'.pc \in {"repairing", "idle"}
  <2>1. CASE NoteRepair(s)
    BY <2>1, BecomesType DEF NoteRepair, HistoryInv, BetweenTheTwo
  <2>2. CASE NoteFailure(s)
    BY <2>2, BecomesType DEF NoteFailure, HistoryInv, BetweenTheTwo
  <2> QED
    BY <2>1, <2>2
<1>2. StatusesStay
  BY <1>1, SameOutbox
<1>3. \A o \in Scans :
         /\ jobs'[o].status = jobs[o].status
         /\ jobs'[o].verdict = jobs[o].verdict
         /\ jobs'[o].queued = IF o = s THEN jobs[o].queued \cup {"FAILED"} ELSE jobs[o].queued
  BY <1>0, <1>1, HistoryFacts DEF TypeOK
<1>4. ASSUME NEW o \in Scans PROVE JobHistory(o)'
  <2>1. JobHistory(o)
    BY DEF HistoryInv
  <2>2. \A v \in jobs[o].queued : QueuedStatus(o, v)'
    BY <1>2, <2>1, QueuedStays DEF JobHistory
  <2>3. QueuedStatus(s, "FAILED")'
    BY <1>1, <1>2, QueuedStays
  <2>4. \A v \in jobs'[o].queued : QueuedStatus(o, v)'
    BY <1>3, <2>2, <2>3
  <2>5. /\ result'[o] = None => jobs'[o].queued \subseteq {"FAILED"}
        /\ jobs'[o].status = "COMPLETED" => jobs'[o].verdict \in jobs'[o].queued
        /\ jobs'[o].status = "FAILED" => jobs'[o].verdict = "FAILED"
    BY <1>1, <1>3, <2>1 DEF JobHistory
  <2> QED
    BY <2>4, <2>5 DEF JobHistory
<1>5. BetweenTheTwo'
  BY <1>1, FreeBetween
<1> QED
  BY <1>4, <1>5 DEF HistoryInv

(* A step of the execution that changes the status of a job, and at most   *)
(* to FAILED what it ends.                                                 *)
LEMMA StatusHistory ==
    ASSUME HistoryInv, outbox' = outbox, result' = result,
           agent'.pc \notin {"repaired", "reported"},
           \A o \in Scans :
              /\ jobs'[o].queued = jobs[o].queued
              /\ \/ jobs'[o].status = jobs[o].status /\ jobs'[o].verdict = jobs[o].verdict
                 \/ jobs'[o].status \in {"QUEUED", "RUNNING"}
                 \/ jobs'[o].status = "FAILED" /\ jobs'[o].verdict = "FAILED"
    PROVE  HistoryInv'
<1>1. ASSUME NEW o \in Scans PROVE JobHistory(o)'
  <2>1. JobHistory(o)
    BY DEF HistoryInv
  <2>2. \A v \in jobs'[o].queued : QueuedStatus(o, v)'
    BY <2>1, SameOutbox, QueuedStays DEF JobHistory
  <2>3. /\ result'[o] = None => jobs'[o].queued \subseteq {"FAILED"}
        /\ jobs'[o].status = "COMPLETED" => jobs'[o].verdict \in jobs'[o].queued
        /\ jobs'[o].status = "FAILED" => jobs'[o].verdict = "FAILED"
    BY <2>1 DEF JobHistory
  <2> QED
    BY <2>2, <2>3 DEF JobHistory
<1> QED
  BY <1>1, FreeBetween DEF HistoryInv

LEMMA ExecutionHistory ==
    ASSUME StoredInv, HistoryInv, NEW s \in Scans, Fail(s) \/ Accept(s) \/ Run(s)
    PROVE  HistoryInv'
<1>0. TypeOK /\ EndedHasVerdict
  BY DEF StoredInv
<1>1. CASE Fail(s)
  <2>1. /\ jobs' = [jobs EXCEPT ![s].status = "FAILED", ![s].verdict = "FAILED"]
        /\ outbox' = outbox /\ result' = result /\ agent'.pc = "failed"
    BY <1>1, BecomesType DEF Fail
  <2>2. \A o \in Scans :
           /\ jobs'[o].queued = jobs[o].queued
           /\ \/ jobs'[o].status = jobs[o].status /\ jobs'[o].verdict = jobs[o].verdict
              \/ jobs'[o].status = "FAILED" /\ jobs'[o].verdict = "FAILED"
    BY <1>0, <2>1 DEF TypeOK, Job
  <2> QED
    BY <2>1, <2>2, StatusHistory
<1>2. CASE Accept(s)
  <2>1. outbox' = outbox /\ result' = result /\ agent'.pc \in {"created", "reconciling"}
    BY <1>2 DEF Accept
  <2> QED
    BY <1>0, <1>2, <2>1, AcceptFacts, StatusHistory
<1>3. CASE Run(s)
  <2>1. outbox' = outbox /\ result' = result /\ agent'.pc = "running"
    BY <1>0, <1>3 DEF Run, Goes, TypeOK, Agent
  <2> QED
    BY <1>0, <1>3, <2>1, RunFacts, StatusHistory
<1> QED
  BY <1>1, <1>2, <1>3

LEMMA FinishHistory ==
    ASSUME StoredInv, HistoryInv, NEW s \in Scans, NEW d \in Documents, Finished(s, d),
           result'[s] = d, \A o \in Scans : o # s => result'[o] = result[o],
           agent'.pc \notin {"repaired", "reported"}
    PROVE  HistoryInv'
<1>0. TypeOK /\ EndedHasVerdict
  BY DEF StoredInv
<1>1. /\ \A o \in Scans : o # s => jobs'[o] = jobs[o]
      /\ jobs'[s].status = "COMPLETED"
      /\ jobs'[s].verdict = d.verdict
      /\ jobs'[s].queued = jobs[s].queued \cup {d.verdict}
  BY <1>0, FinishedFacts
<1>2. StatusesStay
  BY <1>0, FinishedFacts DEF StatusesStay
<1>3. QueuedStatus(s, d.verdict)'
  BY <1>0, FinishedQueues
<1>4. JobHistory(s)'
  <2>1. \A v \in jobs[s].queued : QueuedStatus(s, v)'
    BY <1>2, QueuedStays DEF HistoryInv, JobHistory
  <2>2. \A v \in jobs'[s].queued : QueuedStatus(s, v)'
    BY <1>1, <1>3, <2>1
  <2>3. result'[s] # None
    BY NoneAssumption
  <2> QED
    BY <1>1, <2>2, <2>3 DEF JobHistory
<1>5. ASSUME NEW o \in Scans, o # s PROVE JobHistory(o)'
  BY <1>1, <1>2, <1>5, JobHistoryStays DEF HistoryInv
<1> QED
  BY <1>4, <1>5, FreeBetween DEF HistoryInv

LEMMA FinishKeepsHistory ==
    ASSUME StoredInv, HistoryInv, NEW s \in Scans, Complete(s) \/ Reconcile(s)
    PROVE  HistoryInv'
<1>0. TypeOK /\ HandsInv
  BY DEF StoredInv
<1>1. CASE Complete(s)
  <2>1. PICK d \in Documents : /\ Finished(s, d)
                               /\ \A o \in Scans : result'[o] = IF o = s THEN d ELSE result[o]
    BY <1>0, <1>1, CompleteFacts
  <2>2. agent'.pc = "stored"
    BY <1>1, BecomesType DEF Complete
  <2> QED
    BY <2>1, <2>2, FinishHistory
<1>2. CASE Reconcile(s)
  <2>1. result' = result /\ Finished(s, result[s]) /\ result[s] \in Documents
    BY <1>0, <1>2 DEF Reconcile, At, HandsInv, TypeOK
  <2>2. agent'.pc = "idle"
    BY <1>2, BecomesType DEF Reconcile
  <2> QED
    BY <2>1, <2>2, FinishHistory
<1> QED
  BY <1>1, <1>2

(* Steps that enqueue no status and end no job.                            *)
LEMMA QuietHistory ==
    ASSUME StoredInv, HistoryInv, NEW s \in Scans,
           RefuseJob(s) \/ Decline(s) \/ Return(s) \/ ReconcileFails(s) \/ FailSilently(s)
    PROVE  HistoryInv'
<1>1. jobs' = jobs /\ result' = result /\ agent'.pc = "idle"
  BY BecomesType DEF RefuseJob, Decline, Return, ReconcileFails, FailSilently
<1>2. CASE RefuseJob(s)
  <2> DEFINE u == NewUpload(s, "rejection", [verdict |-> "FAILED", release |-> 0])
  <2>1. u \in Upload
    BY DispatchAssumption DEF NewUpload, Upload, Documents
  <2>2. outbox' = Enqueued(outbox, u) /\ outbox \in Seq(Upload)
    BY <1>2 DEF RefuseJob, StoredInv, TypeOK
  <2> HIDE DEF u
  <2>3. StatusesStay
    BY <2>1, <2>2, EnqueuedHolds DEF StatusesStay
  <2> QED
    BY <1>1, <2>3, PlainHistory
<1>3. CASE Decline(s) \/ Return(s) \/ ReconcileFails(s) \/ FailSilently(s)
  <2>1. outbox' = outbox
    BY <1>3 DEF Decline, Return, ReconcileFails, FailSilently
  <2> QED
    BY <1>1, <2>1, SameOutbox, PlainHistory
<1> QED
  BY <1>2, <1>3

LEMMA StepsKeepHistory == StoredInv /\ HistoryInv /\ [Next]_vars => HistoryInv'
<1> SUFFICES ASSUME StoredInv, HistoryInv, [Next]_vars PROVE HistoryInv'
  OBVIOUS
<1>1. ASSUME outbox' = outbox, jobs' = jobs, result' = result,
             agent' = agent \/ agent'.pc \notin {"repaired", "reported"}
      PROVE  HistoryInv'
  BY <1>1, SameOutbox, PlainHistory
<1>2. CASE Tick \/ Upgrade \/ UNCHANGED vars
  BY <1>1, <1>2 DEF Tick, Upgrade, endpoint, vars
<1>3. CASE Crash \/ StartAgent \/ EnterLoop
  <2>1. agent'.pc \notin {"repaired", "reported"}
    BY <1>3, BecomesType DEF Crash, StartAgent, EnterLoop
  <2> QED
    BY <1>1, <1>3, <2>1 DEF Crash, StartAgent, EnterLoop
<1>4. CASE Serve
  BY <1>3, <1>4, RepairHistory, NoteHistory DEF Serve
<1>5. ASSUME NEW s \in Scans, Authorize(s) PROVE HistoryInv'
  BY <1>1, <1>5 DEF Authorize, endpoint
<1>6. ASSUME NEW s \in Scans, Execute(s) PROVE HistoryInv'
  BY <1>6, QuietHistory, ExecutionHistory, FinishKeepsHistory, ReportHistory, NoteHistory
     DEF Execute
<1>7. ASSUME NEW rows \in SUBSET Waiting, Poll(rows) \/ PollUnanswered(rows) PROVE HistoryInv'
  <2>1. agent' = agent \/ agent'.pc = "fetched"
    BY <1>7, BecomesType DEF Poll, PollUnanswered, endpoint
  <2> QED
    BY <1>1, <1>7, <2>1 DEF Poll, PollUnanswered, endpoint
<1>8. ASSUME NEW i \in DOMAIN outbox,
             Send(i) \/ DeliverUnanswered(i) \/ GiveUp(i) \/ Requeue(i)
      PROVE  HistoryInv'
  <2>1. outbox \in Seq(Upload)
    BY DEF StoredInv, TypeOK
  <2>2. jobs' = jobs /\ result' = result /\ agent' = agent /\ StatusesStay
    BY <1>8, <2>1, DeliveryFacts DEF StatusesStay
  <2> QED
    BY <2>2, PlainHistory
<1> QED
  BY <1>2, <1>3, <1>4, <1>5, <1>6, <1>7, <1>8 DEF Next

(* A job with a history event TERMINAL_STATUS_QUEUED is left out of the    *)
(* repair at the start of the service, and rightly so: its own status is   *)
(* in the outbox, wherever the process died, as long as the store can be   *)
(* read (terminal_scan_jobs, reconcile_terminal_statuses).                 *)
THEOREM EndedQueued == ASSUME ~StoreFaults PROVE Spec => []EndedIsQueued
<1>1. LifecycleInit => HistoryInv
  BY DEF LifecycleInit, HistoryInv, JobHistory, BetweenTheTwo, At
<1>2. StoredInv /\ HistoryInv /\ [Next]_vars => HistoryInv'
  BY StepsKeepHistory
<1>3. StoredInv /\ FinalInv /\ HistoryInv => EndedIsQueued
  BY HistoryTells
<1> QED
  BY <1>1, <1>2, <1>3, StoredAlways, FinalAlways, PTL DEF Spec
=============================================================================

------------------------ MODULE UploadStreamProofs -------------------------
(***************************************************************************)
(* Proofs about the causal streams of UploadQueue: what rows are linked    *)
(* behind and replaced by, through inserts, retries, full resyncs,         *)
(* requeues and purges, and that the table implements DurableOutbox; for   *)
(* every set of scans, workers and endpoints and every value of the bounds.*)
(***************************************************************************)
EXTENDS UploadQueueProofs

-----------------------------------------------------------------------------
(* The invariant of a table                                                *)

(* AUTOINCREMENT: free ids are those above all others.                     *)
FreeAbove(rs) ==
    \A i, j \in Ids : rs[i].status = "FREE" /\ i < j => rs[j].status = "FREE"

(* Predecessors exist, are older, and older than what a resync replaces.   *)
LinkedBack(rs) ==
    \A i \in Ids :
        rs[i].pred # NoId =>
            /\ Live(rs, rs[i].pred)
            /\ rs[i].pred < i
            /\ rs[i].resyncFor # NoId => rs[i].pred < rs[i].resyncFor

(* What replaces a dead row is the live, never replaced, resync of it.     *)
ReplacedOnce(rs) ==
    \A i \in Ids :
        rs[i].superseder # NoId =>
            /\ rs[i].status = "DEAD"
            /\ Live(rs, rs[i].superseder)
            /\ rs[rs[i].superseder].key = ResyncKey(rs, i)
            /\ rs[rs[i].superseder].superseder = NoId

(* A full resync is never replaced, and an id without a row has no links.  *)
RecoveryIsLast(rs) ==
    \A i \in Ids : Live(rs, i) /\ rs[i].key.recovery => rs[i].superseder = NoId
NoRowNoLinks(rs) ==
    \A i \in Ids : ~Live(rs, i) => rs[i].pred = NoId /\ rs[i].superseder = NoId

(* Nothing is leased or delivered before what it is linked behind.         *)
Causal(rs) ==
    \A i \in Ids :
        rs[i].status \in {"IN_FLIGHT", "SUCCEEDED"} => PredecessorResolved(rs, i)

Streams(rs) ==
    /\ FreeAbove(rs) /\ LinkedBack(rs) /\ ReplacedOnce(rs)
    /\ RecoveryIsLast(rs) /\ NoRowNoLinks(rs) /\ Causal(rs)

(* Evidence is final or kept: a delivered (or replaced and delivered) row  *)
(* never becomes undelivered, and only such a row is ever deleted.         *)
ResolutionIsFinal ==
    [][\A i \in Ids :
          /\ Live(rows, i) /\ ~Resolved(rows, i) => Live(rows', i)
          /\ Resolved(rows, i) => Resolved(rows', i) \/ rows'[i].status = "GONE"]_vars

(* What ResolutionIsFinal says of two tables.                              *)
Resolves(rs, qs) ==
    \A i \in Ids :
        /\ Live(rs, i) /\ ~Resolved(rs, i) => Live(qs, i)
        /\ Resolved(rs, i) => Resolved(qs, i) \/ qs[i].status = "GONE"

(* Steps that delete nothing.                                              *)
Forward(rs, qs) ==
    \A i \in Ids :
        /\ Live(rs, i) => Live(qs, i)
        /\ Resolved(rs, i) => Resolved(qs, i)

LEMMA ForwardResolves ==
    ASSUME NEW rs, NEW qs, Forward(rs, qs)
    PROVE  Resolves(rs, qs)
BY DEF Forward, Resolves

LEMMA ForwardTransitive ==
    ASSUME NEW rs, NEW qs, NEW ts, Forward(rs, qs), Forward(qs, ts)
    PROVE  Forward(rs, ts)
BY DEF Forward

LEMMA NoIdIsNoRow == NoId \notin Ids /\ Ids \subseteq Nat
BY ConstantsAssumption DEF NoId, Ids

LEMMA RowFields ==
    ASSUME NEW rs \in Table, NEW i \in Ids
    PROVE  /\ rs[i] \in SoundRow /\ rs[i] \in Row
           /\ rs[i].pred \in Ids \cup {NoId} /\ rs[i].superseder \in Ids \cup {NoId}
           /\ rs[i].resyncFor \in Ids \cup {NoId} /\ rs[i].status \in Status
           /\ Live(rs, i) => rs[i].key \in Keys
BY DEF Table, SoundRow, Row, Live

-----------------------------------------------------------------------------
(* Inserting a row                                                         *)

LEMMA InsertStreams ==
    ASSUME NEW rs \in Table, Streams(rs), NEW n \in NextId(rs), NEW row \in Row,
           row.status = "PENDING", row.superseder = NoId,
           row.pred # NoId => /\ Live(rs, row.pred)
                              /\ row.resyncFor # NoId => row.pred < row.resyncFor
    PROVE  Streams([rs EXCEPT ![n] = row])
<1> DEFINE qs == [rs EXCEPT ![n] = row]
<1>1. n \in Ids /\ rs[n].status = "FREE" /\ \A j \in Ids : j < n => rs[j].status # "FREE"
  BY DEF NextId
<1>2. qs[n] = row /\ \A i \in Ids : i # n => qs[i] = rs[i]
  BY <1>1 DEF Table
<1>3. \A i \in Ids : /\ rs[i].pred \in Ids \cup {NoId}
                     /\ rs[i].superseder \in Ids \cup {NoId}
  BY RowFields
<1>4. ~Live(rs, n) /\ Live(qs, n) /\ \A i \in Ids : Live(rs, i) => i # n /\ Live(qs, i)
  BY <1>1, <1>2 DEF Live
<1>5. \A i \in Ids : i # n => rs[i].superseder # n /\ rs[i].pred # n
  BY <1>1, <1>3, <1>4, NoIdIsNoRow DEF Streams, LinkedBack, ReplacedOnce
<1> HIDE DEF qs
<1>6. FreeAbove(qs)
  <2> SUFFICES ASSUME NEW i \in Ids, NEW j \in Ids, qs[i].status = "FREE", i < j
               PROVE  qs[j].status = "FREE"
    BY DEF FreeAbove
  <2>1. i # n /\ rs[i].status = "FREE"
    BY <1>2
  <2>2. rs[j].status = "FREE"
    BY <2>1 DEF Streams, FreeAbove
  <2>3. j # n
    BY <1>1, <2>1
  <2> QED
    BY <1>2, <2>2, <2>3
<1>7. LinkedBack(qs)
  <2> SUFFICES ASSUME NEW i \in Ids, qs[i].pred # NoId
               PROVE  /\ Live(qs, qs[i].pred) /\ qs[i].pred < i
                      /\ qs[i].resyncFor # NoId => qs[i].pred < qs[i].resyncFor
    BY DEF LinkedBack
  <2>1. CASE i = n
    <3>1. row.pred \in Ids
      BY <1>2, <2>1 DEF Row
    <3>2. row.pred < n
      <4>1. rs[row.pred].status # "FREE" /\ row.pred # n
        BY <1>2, <1>4, <2>1, <3>1 DEF Live
      <4>2. ~(n < row.pred)
        BY <1>1, <3>1, <4>1 DEF Streams, FreeAbove
      <4>3. row.pred \in Nat /\ n \in Nat
        BY <1>1, <3>1, NoIdIsNoRow
      <4> QED
        BY <4>1, <4>2, <4>3
    <3> QED
      BY <1>2, <1>4, <2>1, <3>1, <3>2
  <2>2. CASE i # n
    <3>1. rs[i].pred \in Ids
      BY <1>2, <1>3, <2>2
    <3> QED
      BY <1>2, <1>4, <2>2, <3>1 DEF Streams, LinkedBack
  <2> QED
    BY <2>1, <2>2
<1>8. ReplacedOnce(qs)
  <2> SUFFICES ASSUME NEW i \in Ids, qs[i].superseder # NoId
               PROVE  /\ qs[i].status = "DEAD" /\ Live(qs, qs[i].superseder)
                      /\ qs[qs[i].superseder].key = ResyncKey(qs, i)
                      /\ qs[qs[i].superseder].superseder = NoId
    BY DEF ReplacedOnce
  <2>1. i # n /\ qs[i] = rs[i] /\ rs[i].superseder \in Ids /\ rs[i].superseder # n
    BY <1>2, <1>3, <1>5
  <2> QED
    BY <1>2, <1>4, <2>1 DEF Streams, ReplacedOnce, ResyncKey
<1>9. RecoveryIsLast(qs) /\ NoRowNoLinks(qs)
  BY <1>2, <1>4 DEF Streams, RecoveryIsLast, NoRowNoLinks, Live
<1>10. Causal(qs)
  <2> SUFFICES ASSUME NEW i \in Ids, qs[i].status \in {"IN_FLIGHT", "SUCCEEDED"},
                      qs[i].pred # NoId
               PROVE  Resolved(qs, qs[i].pred)
    BY DEF Causal, PredecessorResolved
  <2>1. i # n /\ qs[i] = rs[i] /\ rs[i].pred \in Ids /\ rs[i].pred # n
    BY <1>2, <1>3, <1>5
  <2>2. Resolved(rs, rs[i].pred)
    BY <2>1 DEF Streams, Causal, PredecessorResolved
  <2>3. rs[rs[i].pred].superseder \in Ids \cup {NoId} /\ rs[rs[i].pred].superseder # n
    BY <1>3, <1>5, <2>1
  <2> QED
    BY <1>2, <2>1, <2>2, <2>3 DEF Resolved
<1> QED
  BY <1>6, <1>7, <1>8, <1>9, <1>10 DEF Streams, qs

(* An insert touches free ids only.                                        *)
Filled(rs, qs, M) ==
    \A i \in Ids : qs[i] = rs[i] \/ (rs[i].status = "FREE" /\ qs[i].key.msg \in M)

LEMMA FilledTransitive ==
    ASSUME NEW rs, NEW qs, NEW ts, NEW M, Filled(rs, qs, M), Filled(qs, ts, M)
    PROVE  Filled(rs, ts, M)
BY DEF Filled

LEMMA FilledForward ==
    ASSUME NEW rs \in Table, Streams(rs), NEW qs, NEW M, Filled(rs, qs, M)
    PROVE  Forward(rs, qs)
<1> SUFFICES ASSUME NEW i \in Ids
             PROVE  /\ Live(rs, i) => Live(qs, i)
                    /\ Resolved(rs, i) => Resolved(qs, i)
  BY DEF Forward
<1>1. rs[i].superseder \in Ids \cup {NoId}
  BY RowFields
<1>2. Live(rs, i) => qs[i] = rs[i]
  BY DEF Filled, Live
<1>3. Resolved(rs, i) => Live(rs, i)
  BY DEF Resolved, Live, Streams, NoRowNoLinks
<1>4. rs[i].superseder # NoId => qs[rs[i].superseder] = rs[rs[i].superseder]
  BY <1>1 DEF Streams, ReplacedOnce, Live, Filled
<1> QED
  BY <1>2, <1>3, <1>4 DEF Live, Resolved

LEMMA EnqueueStreams ==
    ASSUME TypeInv, NEW rs \in Table, Streams(rs), NEW m \in Messages,
           NEW qs \in EnqueueUpload(rs, m), NEW M, m \in M
    PROVE  Streams(qs) /\ Filled(rs, qs, M)
<1> DEFINE row(p) == NewRow(UploadKey(m), CausalGroup(m), MaxAttempts, p, NoId)
<1>1. CASE WithKey(rs, UploadKey(m)) # {}
  <2>1. qs = rs
    BY <1>1 DEF EnqueueUpload
  <2> QED
    BY <2>1 DEF Filled
<1>2. CASE WithKey(rs, UploadKey(m)) = {}
  <2>1. PICK n \in NextId(rs), p \in StreamTail(rs, CausalGroup(m)) :
            qs = [rs EXCEPT ![n] = row(p)]
    BY <1>2 DEF EnqueueUpload
  <2>2. /\ row(p).status = "PENDING" /\ row(p).superseder = NoId /\ row(p).pred = p
        /\ row(p).resyncFor = NoId /\ row(p).key.msg = m
    BY DEF NewRow, NoRow, UploadKey
  <2>3. row(p) \in Row
    <3>1. UploadKey(m) \in Keys /\ CausalGroup(m) \in Endpoints \cup {None}
      BY DEF Keys, UploadKey, CausalGroup, Endpoints, Messages
    <3>2. p \in Ids \cup {NoId} /\ MaxAttempts \in Nat
      BY <2>1, StreamTailType, ConstantsAssumption
    <3> QED
      BY <3>1, <3>2, NewRowSound DEF SoundRow
  <2>4. p # NoId => Live(rs, p)
    BY <2>1 DEF StreamTail
  <2>5. n \in Ids /\ rs[n].status = "FREE"
    BY <2>1 DEF NextId
  <2> HIDE DEF row
  <2>6. Streams(qs)
    BY <2>1, <2>2, <2>3, <2>4, InsertStreams
  <2>7. Filled(rs, qs, M)
    <3>1. qs[n] = row(p) /\ \A i \in Ids : i # n => qs[i] = rs[i]
      BY <2>1, <2>5 DEF Table
    <3> QED
      BY <2>2, <2>5, <3>1 DEF Filled
  <2> QED
    BY <2>6, <2>7
<1> QED
  BY <1>1, <1>2

-----------------------------------------------------------------------------
(* Leases, retries, dead letters and requeues: the status of a row that    *)
(* nothing replaced changes, its key and its links stay                    *)

MovedRow(rs, i, q) ==
    /\ rs[i].status \in {"PENDING", "IN_FLIGHT", "DEAD"}
    /\ rs[i].superseder = NoId
    /\ q.status \in {"PENDING", "IN_FLIGHT", "DEAD", "SUCCEEDED"}
    /\ q.key = rs[i].key /\ q.pred = rs[i].pred /\ q.group = rs[i].group
    /\ q.superseder = NoId /\ q.resyncFor = rs[i].resyncFor
    /\ q.status \in {"IN_FLIGHT", "SUCCEEDED"} => PredecessorResolved(rs, i)

Moved(rs, qs) == \A i \in Ids : qs[i] = rs[i] \/ MovedRow(rs, i, qs[i])

LEMMA MovedStreams ==
    ASSUME NEW rs \in Table, Streams(rs), NEW qs, Moved(rs, qs)
    PROVE  Streams(qs) /\ Forward(rs, qs)
<1>1. \A i \in Ids :
        /\ qs[i].key = rs[i].key /\ qs[i].pred = rs[i].pred
        /\ qs[i].superseder = rs[i].superseder /\ qs[i].resyncFor = rs[i].resyncFor
        /\ Live(qs, i) <=> Live(rs, i)
        /\ qs[i].status = "FREE" <=> rs[i].status = "FREE"
        /\ rs[i].status = "SUCCEEDED" => qs[i].status = "SUCCEEDED"
        /\ rs[i].superseder # NoId => qs[i] = rs[i]
  BY DEF Moved, MovedRow, Live
<1>2. \A i \in Ids : /\ rs[i].pred \in Ids \cup {NoId}
                     /\ rs[i].superseder \in Ids \cup {NoId}
  BY RowFields
<1>3. \A i \in Ids : Resolved(rs, i) => Resolved(qs, i)
  BY <1>1, <1>2 DEF Resolved
<1>4. Forward(rs, qs)
  BY <1>1, <1>3 DEF Forward
<1>5. FreeAbove(qs) /\ RecoveryIsLast(qs) /\ NoRowNoLinks(qs)
  BY <1>1 DEF Streams, FreeAbove, RecoveryIsLast, NoRowNoLinks
<1>6. LinkedBack(qs)
  BY <1>1, <1>2 DEF Streams, LinkedBack
<1>7. ReplacedOnce(qs)
  BY <1>1, <1>2 DEF Streams, ReplacedOnce, ResyncKey
<1>8. Causal(qs)
  <2> SUFFICES ASSUME NEW i \in Ids, qs[i].status \in {"IN_FLIGHT", "SUCCEEDED"},
                      qs[i].pred # NoId
               PROVE  Resolved(qs, qs[i].pred)
    BY DEF Causal, PredecessorResolved
  <2>1. PredecessorResolved(rs, i)
    BY DEF Streams, Causal, Moved, MovedRow
  <2> QED
    BY <1>1, <1>2, <1>3, <2>1 DEF PredecessorResolved
<1> QED
  BY <1>4, <1>5, <1>6, <1>7, <1>8 DEF Streams

LEMMA MovedOneRow ==
    ASSUME NEW rs \in Table, NEW i \in Ids, NEW q, MovedRow(rs, i, q)
    PROVE  Moved(rs, [rs EXCEPT ![i] = q])
BY DEF Moved, Table

(* What replaced rows have in common: they are dead.                       *)
LEMMA NotReplaced ==
    ASSUME NEW rs, Streams(rs), NEW i \in Ids, rs[i].status # "DEAD"
    PROVE  rs[i].superseder = NoId
BY DEF Streams, ReplacedOnce

LEMMA UpdatesMoveRow ==
    ASSUME NEW rs \in Table, NEW i \in Ids, rs[i].superseder = NoId, NEW at
    PROVE  /\ rs[i].status \in {"PENDING", "IN_FLIGHT", "DEAD"} =>
                /\ MovedRow(rs, i, Dead(rs[i]))
                /\ MovedRow(rs, i, Retry(rs[i], at))
                /\ \A limit \in Nat : MovedRow(rs, i, Requeued(rs[i], limit))
           /\ Claimable(rs, i) => MovedRow(rs, i, Claimed(rs[i]))
           /\ rs[i].status = "IN_FLIGHT" /\ Causal(rs) =>
                MovedRow(rs, i, [Unleased(rs[i], "SUCCEEDED") EXCEPT !.nextAt = 0])
<1>1. rs[i] \in Row
  BY RowFields
<1> HIDE DEF Ids
<1>2. rs[i].status \in {"PENDING", "IN_FLIGHT", "DEAD"} =>
                /\ MovedRow(rs, i, Dead(rs[i]))
                /\ MovedRow(rs, i, Retry(rs[i], at))
                /\ \A limit \in Nat : MovedRow(rs, i, Requeued(rs[i], limit))
  BY <1>1 DEF Dead, Retry, Unleased, Requeued, MovedRow, Row
<1>3. Claimable(rs, i) => MovedRow(rs, i, Claimed(rs[i]))
  BY <1>1 DEF Claimable, Claimed, MovedRow, Row
<1>4. rs[i].status = "IN_FLIGHT" /\ Causal(rs) =>
                MovedRow(rs, i, [Unleased(rs[i], "SUCCEEDED") EXCEPT !.nextAt = 0])
  BY <1>1 DEF Causal, Unleased, MovedRow, Row
<1> QED
  BY <1>2, <1>3, <1>4

LEMMA ExpireStreams ==
    ASSUME TypeInv, Streams(rows)
    PROVE  Streams(ExpireLeases(rows)) /\ Forward(rows, ExpireLeases(rows))
<1>1. rows \in Table
  BY DEF TypeInv
<1>2. ASSUME NEW i \in Ids, rows[i].status = "IN_FLIGHT"
      PROVE  MovedRow(rows, i, Dead(rows[i])) /\ MovedRow(rows, i, Retry(rows[i], now))
  BY <1>1, <1>2, NotReplaced, UpdatesMoveRow
<1>3. Moved(rows, ExpireLeases(rows))
  BY <1>2 DEF Moved, ExpireLeases
<1> QED
  BY <1>1, <1>3, MovedStreams

-----------------------------------------------------------------------------
(* A refused row is replaced by its full resync                            *)

LEMMA SupersedeStreams ==
    ASSUME NEW rs \in Table, Streams(rs), NEW i \in Ids, rs[i].status = "IN_FLIGHT",
           ~rs[i].key.recovery,
           NEW r \in Ids, Live(rs, r), rs[r].key = ResyncKey(rs, i)
    PROVE  Streams(Supersede(rs, i, r)) /\ Forward(rs, Supersede(rs, i, r))
<1> DEFINE qs == Supersede(rs, i, r)
<1>1. \A j \in Ids : j # i => qs[j] = rs[j]
  BY DEF Supersede, Table
<1>2. /\ qs[i].status = "DEAD" /\ qs[i].superseder = r /\ qs[i].key = rs[i].key
      /\ qs[i].pred = rs[i].pred /\ qs[i].resyncFor = rs[i].resyncFor
  <2>1. rs[i] \in Row
    BY RowFields
  <2>2. qs[i] = [Dead(rs[i]) EXCEPT !.superseder = r]
    BY DEF Supersede, Table
  <2> HIDE DEF qs
  <2> QED
    BY <2>1, <2>2 DEF Dead, Unleased, Row
<1>3. \A j \in Ids : /\ rs[j].pred \in Ids \cup {NoId}
                     /\ rs[j].superseder \in Ids \cup {NoId}
  BY RowFields
<1> HIDE DEF qs
<1>4. rs[i].superseder = NoId /\ ~Resolved(rs, i) /\ Live(rs, i)
  <2>1. rs[i].superseder = NoId
    BY NotReplaced
  <2> QED
    BY <2>1 DEF Resolved, Live
<1>5. r # i /\ rs[r].key.recovery /\ rs[r].superseder = NoId
  BY DEF ResyncKey, Streams, RecoveryIsLast
<1>6. \A j \in Ids : /\ Live(qs, j) <=> Live(rs, j)
                     /\ qs[j].status = "FREE" <=> rs[j].status = "FREE"
                     /\ qs[j].key = rs[j].key /\ qs[j].pred = rs[j].pred
                     /\ qs[j].resyncFor = rs[j].resyncFor
                     /\ rs[j].status = "SUCCEEDED" => qs[j].status = "SUCCEEDED"
                     /\ qs[j].status \in {"IN_FLIGHT", "SUCCEEDED"} => qs[j] = rs[j]
  BY <1>1, <1>2, <1>4 DEF Live
<1>7. \A j \in Ids : Resolved(rs, j) => Resolved(qs, j)
  BY <1>1, <1>3, <1>4, <1>6 DEF Resolved
<1>8. FreeAbove(qs)
  BY <1>6 DEF Streams, FreeAbove
<1>9. LinkedBack(qs)
  BY <1>3, <1>6 DEF Streams, LinkedBack
<1>10. RecoveryIsLast(qs) /\ NoRowNoLinks(qs)
  BY <1>1, <1>4, <1>6 DEF Streams, RecoveryIsLast, NoRowNoLinks
<1>11. ReplacedOnce(qs)
  <2> SUFFICES ASSUME NEW j \in Ids, qs[j].superseder # NoId
               PROVE  /\ qs[j].status = "DEAD" /\ Live(qs, qs[j].superseder)
                      /\ qs[qs[j].superseder].key = ResyncKey(qs, j)
                      /\ qs[qs[j].superseder].superseder = NoId
    BY DEF ReplacedOnce
  <2>1. CASE j = i
    BY <1>1, <1>2, <1>5, <1>6, <2>1 DEF ResyncKey
  <2>2. CASE j # i
    <3> DEFINE t == rs[j].superseder
    <3>1. qs[j] = rs[j] /\ t \in Ids
      BY <1>1, <1>3, <2>2
    <3>2. /\ rs[j].status = "DEAD" /\ Live(rs, t) /\ rs[t].key = ResyncKey(rs, j)
          /\ rs[t].superseder = NoId
      BY <3>1 DEF Streams, ReplacedOnce
    <3>3. t # i
      BY <3>2 DEF ResyncKey
    <3> QED
      BY <1>1, <1>6, <3>1, <3>2, <3>3 DEF ResyncKey
  <2> QED
    BY <2>1, <2>2
<1>12. Causal(qs)
  <2> SUFFICES ASSUME NEW j \in Ids, qs[j].status \in {"IN_FLIGHT", "SUCCEEDED"},
                      qs[j].pred # NoId
               PROVE  Resolved(qs, qs[j].pred)
    BY DEF Causal, PredecessorResolved
  <2> QED
    BY <1>3, <1>6, <1>7 DEF Streams, Causal, PredecessorResolved
<1>13. Forward(rs, qs)
  BY <1>6, <1>7 DEF Forward
<1> QED
  BY <1>8, <1>9, <1>10, <1>11, <1>12, <1>13 DEF Streams, qs

LEMMA ResyncStreams ==
    ASSUME TypeInv, Streams(rows), NEW i \in Ids, rows[i].status = "IN_FLIGHT",
           CanResync(rows, i), NEW qs \in ScheduleFullResync(rows, i)
    PROVE  Streams(qs) /\ Forward(rows, qs)
<1> DEFINE k   == ResyncKey(rows, i)
           row == NewRow(k, rows[i].group, rows[i].limit, rows[i].pred, i)
<1>1. rows \in Table /\ rows[i] \in SoundRow /\ ~rows[i].key.recovery /\ Live(rows, i)
  BY DEF TypeInv, Table, CanResync, Live
<1>2. CASE WithKey(rows, k) # {}
  <2>1. PICK r \in WithKey(rows, k) : qs = Supersede(rows, i, r)
    BY <1>2 DEF ScheduleFullResync
  <2>2. r \in Ids /\ Live(rows, r) /\ rows[r].key = k
    BY <2>1 DEF WithKey
  <2> QED
    BY <1>1, <2>1, <2>2, SupersedeStreams
<1>3. CASE WithKey(rows, k) = {}
  <2>1. PICK r \in NextId(rows) : qs = Supersede([rows EXCEPT ![r] = row], i, r)
    BY <1>3 DEF ScheduleFullResync
  <2> DEFINE rs == [rows EXCEPT ![r] = row]
  <2>2. r \in Ids /\ r # i /\ rows[r].status = "FREE"
    BY <1>1, <2>1 DEF NextId, Live
  <2>3. k \in Keys
    BY <1>1 DEF Keys, ResyncKey, SoundRow, Live
  <2>4. row \in SoundRow
    BY <1>1, <2>3, NewRowSound DEF Row, SoundRow
  <2>5. /\ row.status = "PENDING" /\ row.superseder = NoId /\ row.pred = rows[i].pred
        /\ row.resyncFor = i /\ row.key = k
    BY DEF NewRow, NoRow
  <2>6. rows[i].pred # NoId => Live(rows, rows[i].pred) /\ rows[i].pred < i
    BY DEF Streams, LinkedBack
  <2> HIDE DEF row, k
  <2>7. row \in Row
    BY <2>4 DEF SoundRow
  <2>8. rs \in Table /\ rs[r] = row /\ \A j \in Ids : j # r => rs[j] = rows[j]
    BY <1>1, <2>2, <2>4 DEF Table
  <2>9. Streams(rs)
    BY <1>1, <2>1, <2>5, <2>6, <2>7, InsertStreams
  <2>10. Filled(rows, rs, {k.msg})
    BY <2>2, <2>5, <2>8 DEF Filled
  <2>11. Forward(rows, rs)
    BY <1>1, <2>10, FilledForward
  <2>12. ResyncKey(rs, i) = k /\ Live(rs, r) /\ rs[i] = rows[i]
    BY <2>2, <2>5, <2>8 DEF ResyncKey, Live, k
  <2> HIDE DEF rs
  <2>13. qs = Supersede(rs, i, r)
    BY <2>1 DEF rs, row, k
  <2>14. Streams(qs) /\ Forward(rs, qs)
    BY <1>1, <2>2, <2>5, <2>8, <2>9, <2>12, <2>13, SupersedeStreams
  <2> QED
    BY <2>11, <2>14, ForwardTransitive
<1> QED
  BY <1>2, <1>3

-----------------------------------------------------------------------------
(* Retention deletes rows that nothing else needs                          *)

LEMMA DeletedStreams ==
    ASSUME NEW rs \in Table, Streams(rs), NEW D \in SUBSET Ids,
           \A d \in D : Resolved(rs, d),
           \A j \in Ids \ D : rs[j].superseder \notin D
    PROVE  Streams(Deleted(rs, D)) /\ Resolves(rs, Deleted(rs, D))
<1> DEFINE qs == Deleted(rs, D)
<1>1. \A i \in Ids : /\ rs[i] \in Row
                     /\ rs[i].pred \in Ids \cup {NoId}
                     /\ rs[i].superseder \in Ids \cup {NoId}
  BY RowFields
<1>2. \A i \in D : /\ qs[i].status = "GONE" /\ qs[i].pred = NoId
                   /\ qs[i].superseder = NoId
  BY DEF Deleted, NoRow
<1>3. \A i \in Ids \ D :
        /\ qs[i].status = rs[i].status /\ qs[i].key = rs[i].key
        /\ qs[i].superseder = rs[i].superseder
        /\ qs[i].pred = Nulled(rs[i].pred, D)
        /\ qs[i].resyncFor = Nulled(rs[i].resyncFor, D)
  <2> SUFFICES ASSUME NEW i \in Ids \ D
               PROVE  /\ qs[i].status = rs[i].status /\ qs[i].key = rs[i].key
                      /\ qs[i].superseder = rs[i].superseder
                      /\ qs[i].pred = Nulled(rs[i].pred, D)
                      /\ qs[i].resyncFor = Nulled(rs[i].resyncFor, D)
    OBVIOUS
  <2>1. qs[i] = Unlinked(rs[i], D)
    BY DEF Deleted
  <2>2. Nulled(rs[i].superseder, D) = rs[i].superseder
    BY DEF Nulled
  <2> HIDE DEF qs
  <2> QED
    BY <1>1, <2>1, <2>2 DEF Unlinked, Row
<1>4. \A d \in D : Live(rs, d)
  BY DEF Resolved, Live, Streams, NoRowNoLinks
<1> HIDE DEF qs
<1>5. ASSUME NEW i \in Ids, i \notin D
      PROVE  /\ Live(qs, i) <=> Live(rs, i)
             /\ Resolved(rs, i) => Resolved(qs, i)
  <2>1. qs[i].status = rs[i].status /\ qs[i].superseder = rs[i].superseder
    BY <1>3, <1>5
  <2>2. rs[i].superseder # NoId => qs[rs[i].superseder].status = rs[rs[i].superseder].status
    BY <1>1, <1>3, <1>5
  <2> QED
    BY <2>1, <2>2 DEF Live, Resolved
<1>6. Resolves(rs, qs)
  <2> SUFFICES ASSUME NEW i \in Ids
               PROVE  /\ Live(rs, i) /\ ~Resolved(rs, i) => Live(qs, i)
                      /\ Resolved(rs, i) => Resolved(qs, i) \/ qs[i].status = "GONE"
    BY DEF Resolves
  <2>1. CASE i \in D
    BY <1>2, <2>1
  <2>2. CASE i \notin D
    BY <1>5, <2>2
  <2> QED
    BY <2>1, <2>2
<1>7. FreeAbove(qs)
  <2> SUFFICES ASSUME NEW i \in Ids, NEW j \in Ids, qs[i].status = "FREE", i < j
               PROVE  qs[j].status = "FREE"
    BY DEF FreeAbove
  <2>1. rs[i].status = "FREE"
    BY <1>2, <1>3
  <2>2. rs[j].status = "FREE"
    BY <2>1 DEF Streams, FreeAbove
  <2>3. j \notin D
    BY <1>4, <2>2 DEF Live
  <2> QED
    BY <1>3, <2>2, <2>3
<1>8. \A i \in Ids : qs[i].pred # NoId =>
        i \notin D /\ qs[i].pred = rs[i].pred /\ rs[i].pred \in Ids \ D
  BY <1>1, <1>2, <1>3 DEF Nulled
<1>9. LinkedBack(qs)
  <2> SUFFICES ASSUME NEW i \in Ids, qs[i].pred # NoId
               PROVE  /\ Live(qs, qs[i].pred) /\ qs[i].pred < i
                      /\ qs[i].resyncFor # NoId => qs[i].pred < qs[i].resyncFor
    BY DEF LinkedBack
  <2>1. i \notin D /\ qs[i].pred = rs[i].pred /\ rs[i].pred \in Ids \ D
    BY <1>8
  <2>2. qs[i].resyncFor # NoId => qs[i].resyncFor = rs[i].resyncFor
    BY <1>3, <2>1 DEF Nulled
  <2>3. /\ Live(rs, rs[i].pred) /\ rs[i].pred < i
        /\ rs[i].resyncFor # NoId => rs[i].pred < rs[i].resyncFor
    BY <2>1, NoIdIsNoRow DEF Streams, LinkedBack
  <2>4. Live(qs, rs[i].pred)
    BY <1>5, <2>1, <2>3
  <2> QED
    BY <2>1, <2>2, <2>3, <2>4
<1>10. ReplacedOnce(qs)
  <2> SUFFICES ASSUME NEW i \in Ids, qs[i].superseder # NoId
               PROVE  /\ qs[i].status = "DEAD" /\ Live(qs, qs[i].superseder)
                      /\ qs[qs[i].superseder].key = ResyncKey(qs, i)
                      /\ qs[qs[i].superseder].superseder = NoId
    BY DEF ReplacedOnce
  <2>1. i \notin D /\ qs[i].superseder = rs[i].superseder /\ rs[i].superseder \in Ids \ D
    BY <1>1, <1>2, <1>3
  <2> DEFINE r == rs[i].superseder
  <2>2. /\ rs[i].status = "DEAD" /\ Live(rs, r) /\ rs[r].key = ResyncKey(rs, i)
        /\ rs[r].superseder = NoId
    BY <2>1, NoIdIsNoRow DEF Streams, ReplacedOnce
  <2>3. Live(qs, r) /\ qs[r].key = rs[r].key /\ qs[r].superseder = NoId
    BY <1>3, <1>5, <2>1, <2>2
  <2>4. qs[i].status = rs[i].status /\ qs[i].key = rs[i].key
    BY <1>3, <2>1
  <2> QED
    BY <2>1, <2>2, <2>3, <2>4 DEF ResyncKey
<1>11. RecoveryIsLast(qs) /\ NoRowNoLinks(qs)
  <2> SUFFICES ASSUME NEW i \in Ids
               PROVE  /\ Live(qs, i) /\ qs[i].key.recovery => qs[i].superseder = NoId
                      /\ ~Live(qs, i) => qs[i].pred = NoId /\ qs[i].superseder = NoId
    BY DEF RecoveryIsLast, NoRowNoLinks
  <2>1. CASE i \in D
    BY <1>2, <2>1
  <2>2. CASE i \notin D
    <3>1. Live(qs, i) <=> Live(rs, i)
      BY <1>5, <2>2
    <3>2. /\ qs[i].key = rs[i].key /\ qs[i].superseder = rs[i].superseder
          /\ rs[i].pred = NoId => qs[i].pred = NoId
      BY <1>3, <1>8, <2>2
    <3> QED
      BY <3>1, <3>2 DEF Streams, RecoveryIsLast, NoRowNoLinks
  <2> QED
    BY <2>1, <2>2
<1>12. Causal(qs)
  <2> SUFFICES ASSUME NEW i \in Ids, qs[i].status \in {"IN_FLIGHT", "SUCCEEDED"},
                      qs[i].pred # NoId
               PROVE  Resolved(qs, qs[i].pred)
    BY DEF Causal, PredecessorResolved
  <2>1. i \notin D /\ qs[i].pred = rs[i].pred /\ rs[i].pred \in Ids \ D
    BY <1>8
  <2>2. Resolved(rs, rs[i].pred)
    <3>1. rs[i].status \in {"IN_FLIGHT", "SUCCEEDED"} /\ rs[i].pred # NoId
      BY <1>3, <2>1, NoIdIsNoRow
    <3> QED
      BY <3>1 DEF Streams, Causal, PredecessorResolved
  <2> QED
    BY <1>5, <2>1, <2>2
<1> QED
  BY <1>6, <1>7, <1>9, <1>10, <1>11, <1>12 DEF Streams, qs

(* Resolved rows go, and what remains refers to none of them.              *)
Removed(rs, qs, D) ==
    /\ D \in SUBSET Ids
    /\ \A d \in D : Resolved(rs, d)
    /\ \A j \in Ids \ D : rs[j].superseder \notin D
    /\ qs = Deleted(rs, D)

LEMMA PurgeRemoves ==
    ASSUME TypeInv, Streams(rows), NEW old \in SUBSET Ids, NEW limit, Purge(old, limit)
    PROVE  \E D : Removed(rows, rows', D)
<1> DEFINE originals == FirstOf({i \in Ids : rows[i].status = "DEAD"
                                            /\ rows[i].superseder \in old}, limit)
           left      == limit - Cardinality(originals)
           delivered == IF left = 0 THEN {} ELSE FirstOf(Purgeable(old, originals), left)
           D         == originals \cup delivered
<1>1. rows' = Deleted(rows, D) /\ \A i \in old : rows[i].status = "SUCCEEDED"
  BY DEF Purge
<1>2. \A i \in originals : i \in Ids /\ rows[i].status = "DEAD" /\ rows[i].superseder \in old
  BY DEF FirstOf
<1>3. \A i \in delivered : i \in old /\ \A j \in Ids \ originals : rows[j].superseder # i
  BY DEF FirstOf, Purgeable
<1> HIDE DEF originals, delivered
<1>4. \A d \in D : d \in Ids /\ Resolved(rows, d)
  BY <1>1, <1>2, <1>3, NoIdIsNoRow DEF Resolved
<1>5. ASSUME NEW j \in Ids \ D PROVE rows[j].superseder \notin D
  <2>1. rows[j].superseder \notin delivered
    BY <1>3
  <2>2. rows[j].superseder \notin originals
    BY <1>2, NoIdIsNoRow DEF Streams, ReplacedOnce
  <2> QED
    BY <2>1, <2>2
<1> QED
  BY <1>1, <1>4, <1>5 DEF Removed


LEMMA PurgeStreams ==
    ASSUME TypeInv, Streams(rows), NEW old \in SUBSET Ids, NEW limit, Purge(old, limit)
    PROVE  Streams(rows') /\ Resolves(rows, rows')
<1>1. PICK D : Removed(rows, rows', D)
  BY PurgeRemoves
<1>2. rows \in Table
  BY DEF TypeInv
<1> QED
  BY <1>1, <1>2, DeletedStreams DEF Removed

-----------------------------------------------------------------------------
(* Where a full resync takes its document from: a row that is new in qs,   *)
(* and queues a result, is of a scan that is stored in rec                 *)

Sourced(rs, qs, rec) ==
    \A i \in Ids :
        Live(qs, i) =>
            \/ Live(rs, i) /\ qs[i].key = rs[i].key
            \/ qs[i].key.msg.kind = "result" => rec[qs[i].key.msg.scan] = "stored"

LEMMA SourcedTransitive ==
    ASSUME NEW rs, NEW qs, NEW ts, NEW rec, Sourced(rs, qs, rec), Sourced(qs, ts, rec)
    PROVE  Sourced(rs, ts, rec)
BY DEF Sourced

LEMMA FilledSourced ==
    ASSUME NEW rs, NEW qs, NEW M, NEW rec, Filled(rs, qs, M),
           \A m \in M : m.kind = "result" => rec[m.scan] = "stored"
    PROVE  Sourced(rs, qs, rec)
BY DEF Filled, Sourced, Live

LEMMA MovedSourced ==
    ASSUME NEW rs, NEW qs, NEW rec, Moved(rs, qs)
    PROVE  Sourced(rs, qs, rec)
BY DEF Moved, MovedRow, Sourced, Live

LEMMA DeletedSourced ==
    ASSUME NEW rs \in Table, NEW D, NEW rec
    PROVE  Sourced(rs, Deleted(rs, D), rec)
<1> SUFFICES ASSUME NEW i \in Ids, Live(Deleted(rs, D), i)
             PROVE  Live(rs, i) /\ Deleted(rs, D)[i].key = rs[i].key
  BY DEF Sourced
<1>1. rs[i] \in Row
  BY RowFields
<1>2. i \notin D
  BY DEF Deleted, Live, NoRow
<1>3. Deleted(rs, D)[i] = Unlinked(rs[i], D)
  BY <1>2 DEF Deleted
<1> QED
  BY <1>1, <1>3 DEF Unlinked, Live, Row

LEMMA SupersedeOthers ==
    ASSUME NEW rs \in Table, NEW i \in Ids, Live(rs, i), NEW r
    PROVE  /\ \A j \in Ids : j # i => Supersede(rs, i, r)[j] = rs[j]
           /\ Supersede(rs, i, r)[i].key = rs[i].key
<1>1. rs[i] \in Row
  BY RowFields
<1>2. Supersede(rs, i, r)[i] = [Dead(rs[i]) EXCEPT !.superseder = r]
  BY DEF Supersede, Table
<1>3. Supersede(rs, i, r)[i].key = rs[i].key
  BY <1>1, <1>2 DEF Dead, Unleased, Row
<1> QED
  BY <1>3 DEF Supersede, Table

(* Of the rows that exist only the refused one changes.                    *)
LEMMA ResyncOthers ==
    ASSUME TypeInv, NEW i \in Ids, Live(rows, i), NEW qs \in ScheduleFullResync(rows, i)
    PROVE  \A j \in Ids :
              \/ j # i /\ qs[j] = rows[j]
              \/ j = i /\ qs[j].key = rows[j].key
              \/ rows[j].status = "FREE" /\ qs[j].key.msg = rows[i].key.msg
<1> DEFINE k   == ResyncKey(rows, i)
           row == NewRow(k, rows[i].group, rows[i].limit, rows[i].pred, i)
<1>1. rows \in Table
  BY DEF TypeInv
<1>2. CASE WithKey(rows, k) # {}
  BY <1>1, <1>2, SupersedeOthers DEF ScheduleFullResync
<1>3. CASE WithKey(rows, k) = {}
  <2>1. PICK r \in NextId(rows) : qs = Supersede([rows EXCEPT ![r] = row], i, r)
    BY <1>3 DEF ScheduleFullResync
  <2> DEFINE rs == [rows EXCEPT ![r] = row]
  <2>2. r \in Ids /\ r # i /\ rows[r].status = "FREE"
    BY <2>1 DEF NextId, Live
  <2>3. row.key.msg = rows[i].key.msg
    BY DEF NewRow, NoRow, ResyncKey
  <2>4. row \in SoundRow
    <3>1. rows[i] \in SoundRow
      BY <1>1 DEF Table
    <3>2. k \in Keys
      BY <3>1 DEF Keys, ResyncKey, SoundRow, Live
    <3> QED
      BY <3>1, <3>2, NewRowSound DEF Row, SoundRow
  <2> HIDE DEF row
  <2>5. rs \in Table /\ rs[r] = row /\ \A j \in Ids : j # r => rs[j] = rows[j]
    BY <1>1, <2>2, <2>4 DEF Table
  <2>6. Live(rs, i)
    BY <2>2, <2>5 DEF Live
  <2> HIDE DEF rs
  <2>7. qs = Supersede(rs, i, r)
    BY <2>1 DEF rs, row
  <2>8. /\ \A j \in Ids : j # i => qs[j] = rs[j]
        /\ qs[i].key = rs[i].key
    BY <2>5, <2>6, <2>7, SupersedeOthers
  <2> QED
    BY <2>2, <2>3, <2>5, <2>8
<1> QED
  BY <1>2, <1>3

LEMMA ResyncSourced ==
    ASSUME TypeInv, NEW i \in Ids, Live(rows, i), CanResync(rows, i),
           NEW qs \in ScheduleFullResync(rows, i)
    PROVE  Sourced(rows, qs, record)
BY ResyncOthers DEF Sourced, Live, CanResync

-----------------------------------------------------------------------------
(* The steps                                                               *)

LEMMA InitStreams == Init => Streams(rows)
BY NoIdIsNoRow DEF Init, NoRow, Streams, FreeAbove, LinkedBack, ReplacedOnce, RecoveryIsLast,
   NoRowNoLinks, Causal, Live

(* The messages a transaction of scan s may queue.                         *)
Queued(s) ==
    {m \in Messages :
        m.scan = s /\ (m.kind = "result" => CompleteScan(s) \/ ReconcileScan(s))}

LEMMA ScanStreams ==
    ASSUME TypeInv, Streams(rows), NEW s \in Scans,
           CompleteScan(s) \/ ReconcileScan(s) \/ FailScan(s) \/ RejectJob(s) \/ PruneScan(s)
    PROVE  Streams(rows') /\ Filled(rows, rows', Queued(s))
<1> DEFINE message(kind) == [scan |-> s, kind |-> kind]
<1>1. rows \in Table
  BY DEF TypeInv
<1>2. \A kind \in {"result", "status", "failed", "rejection"} : message(kind) \in Messages
  BY DEF Messages, Kinds
<1>3. \A kind \in {"status", "failed", "rejection"} : message(kind) \in Queued(s)
  BY <1>2 DEF Queued
<1>4. CASE CompleteScan(s) \/ ReconcileScan(s)
  <2>1. PICK rs \in EnqueueUpload(rows, message("result")) :
            rows' \in EnqueueUpload(rs, message("status"))
    BY <1>4 DEF CompleteScan, ReconcileScan
  <2>2. message("result") \in Queued(s)
    BY <1>2, <1>4 DEF Queued
  <2>3. rs \in Table /\ Streams(rs) /\ Filled(rows, rs, Queued(s))
    BY <1>1, <1>2, <2>1, <2>2, EnqueueSound, EnqueueStreams
  <2>4. Streams(rows') /\ Filled(rs, rows', Queued(s))
    BY <1>2, <1>3, <2>1, <2>3, EnqueueStreams
  <2> QED
    BY <2>3, <2>4, FilledTransitive
<1>5. CASE FailScan(s)
  BY <1>1, <1>2, <1>3, <1>5, EnqueueStreams DEF FailScan
<1>6. CASE RejectJob(s)
  BY <1>1, <1>2, <1>3, <1>6, EnqueueStreams DEF RejectJob
<1>7. CASE PruneScan(s)
  <2>1. rows' = rows
    BY <1>7 DEF PruneScan
  <2> QED
    BY <2>1 DEF Filled
<1> QED
  BY <1>4, <1>5, <1>6, <1>7

LEMMA ClaimStreams ==
    ASSUME TypeInv, Streams(rows), NEW w \in Workers, Claim(w)
    PROVE  Streams(rows') /\ Forward(rows, rows') /\ Sourced(rows, rows', record')
<1> DEFINE rs == ExpireLeases(rows)
<1>1. rs \in Table /\ Streams(rs) /\ Forward(rows, rs)
  BY ExpireSound, ExpireStreams
<1>2. Sourced(rows, rs, record')
  <2>1. \A i \in Ids : rows[i] \in Row
    BY RowFields DEF TypeInv
  <2>2. ASSUME NEW i \in Ids PROVE Live(rows, i) <=> Live(rs, i)
    BY <2>1, <2>2 DEF ExpireLeases, Live, Dead, Retry, Unleased, Row
  <2>3. ASSUME NEW i \in Ids PROVE rs[i].key = rows[i].key
    BY <2>1, <2>3 DEF ExpireLeases, Dead, Retry, Unleased, Row
  <2> QED
    BY <2>2, <2>3 DEF Sourced
<1> HIDE DEF rs
<1>3. CASE rows' = rs
  BY <1>1, <1>2, <1>3
<1>4. ASSUME NEW i \in FirstClaimable(rs), rows' = [rs EXCEPT ![i] = Claimed(@)]
      PROVE  Streams(rows') /\ Forward(rows, rows') /\ Sourced(rows, rows', record')
  <2>1. i \in Ids /\ Claimable(rs, i) /\ rs[i].status # "DEAD"
    BY DEF FirstClaimable, Claimable
  <2>2. MovedRow(rs, i, Claimed(rs[i]))
    BY <1>1, <2>1, NotReplaced, UpdatesMoveRow
  <2>3. Moved(rs, rows')
    BY <1>1, <1>4, <2>1, <2>2, MovedOneRow
  <2> QED
    BY <1>1, <1>2, <2>3, MovedStreams, MovedSourced, ForwardTransitive, SourcedTransitive
<1> QED
  BY <1>3, <1>4 DEF Claim, rs

LEMMA SettleStreams ==
    ASSUME TypeInv, Streams(rows), NEW w \in Workers, Settle(w)
    PROVE  Streams(rows') /\ Forward(rows, rows') /\ Sourced(rows, rows', record')
<1> DEFINE i == worker[w].id
<1>1. rows \in Table /\ record' = record
  BY DEF TypeInv, Settle
<1>2. CASE Moved(rows, rows')
  BY <1>1, <1>2, MovedStreams, MovedSourced
<1>3. CASE UNCHANGED rows
  <2>1. Moved(rows, rows')
    BY <1>3 DEF Moved
  <2> QED
    BY <1>2, <2>1
<1>4. CASE HoldsLease(rows, i, worker[w].token)
  <2>1. i \in Ids /\ rows[i].status = "IN_FLIGHT"
    BY <1>4 DEF HoldsLease, TypeInv, Hands, Worker
  <2>2. rows[i].superseder = NoId /\ Live(rows, i) /\ Causal(rows)
    BY <2>1, NotReplaced DEF Live, Streams
  <2>3. ASSUME NEW q, MovedRow(rows, i, q), rows' = [rows EXCEPT ![i] = q]
        PROVE  Streams(rows') /\ Forward(rows, rows') /\ Sourced(rows, rows', record')
    BY <1>1, <1>2, <2>1, <2>3, MovedOneRow
  <2>4. CASE rows' = MarkSucceeded(rows, i)
    BY <1>1, <2>1, <2>2, <2>3, <2>4, UpdatesMoveRow DEF MarkSucceeded
  <2>5. CASE CanResync(rows, i) /\ rows' \in ScheduleFullResync(rows, i)
    BY <1>1, <2>1, <2>2, <2>5, ResyncStreams, ResyncSourced
  <2>6. CASE rows' = [rows EXCEPT ![i] = Dead(@)]
    BY <1>1, <2>1, <2>2, <2>3, <2>6, UpdatesMoveRow
  <2>7. ASSUME NEW d \in Delays, rows' = [rows EXCEPT ![i] = Retry(@, After(d))]
        PROVE  Streams(rows') /\ Forward(rows, rows') /\ Sourced(rows, rows', record')
    BY <1>1, <2>1, <2>2, <2>3, <2>7, UpdatesMoveRow
  <2> QED
    BY <1>3, <2>4, <2>5, <2>6, <2>7, SettleCases
<1> QED
  BY <1>3, <1>4, SettleCases

(* Every step keeps the streams, loses no undelivered row, and inserts     *)
(* results of stored scans only.                                           *)
LEMMA NextStreams ==
    ASSUME TypeInv, Streams(rows), [Next]_vars
    PROVE  Streams(rows') /\ Resolves(rows, rows') /\ Sourced(rows, rows', record')
<1>0. rows \in Table
  BY DEF TypeInv
<1>1. ASSUME NEW s \in Scans,
             CompleteScan(s) \/ ReconcileScan(s) \/ FailScan(s) \/ RejectJob(s) \/ PruneScan(s)
      PROVE  Streams(rows') /\ Resolves(rows, rows') /\ Sourced(rows, rows', record')
  <2>1. Streams(rows') /\ Filled(rows, rows', Queued(s))
    BY <1>1, ScanStreams
  <2>2. CompleteScan(s) \/ ReconcileScan(s) => record'[s] = "stored"
    BY DEF CompleteScan, ReconcileScan, TypeInv
  <2>3. \A m \in Queued(s) : m.kind = "result" => record'[m.scan] = "stored"
    BY <2>2 DEF Queued
  <2> QED
    BY <1>0, <2>1, <2>3, FilledForward, ForwardResolves, FilledSourced
<1>2. CASE Moved(rows, rows')
  BY <1>0, <1>2, MovedStreams, ForwardResolves, MovedSourced
<1>3. CASE UNCHANGED rows
  <2>1. Moved(rows, rows')
    BY <1>3 DEF Moved
  <2> QED
    BY <1>2, <2>1
<1>4. ASSUME NEW w \in Workers, Deliver(w) \/ Crash(w)
      PROVE  Streams(rows') /\ Resolves(rows, rows') /\ Sourced(rows, rows', record')
  <2>1. CASE Claim(w)
    BY <2>1, ClaimStreams, ForwardResolves
  <2>2. CASE Settle(w)
    BY <2>2, SettleStreams, ForwardResolves
  <2>3. CASE (\E a \in Answers : Request(w, a)) \/ Crash(w)
    BY <1>3, <2>3 DEF Request, Crash
  <2> QED
    BY <1>4, <2>1, <2>2, <2>3 DEF Deliver
<1>5. ASSUME NEW i \in Ids, NEW n \in RetryLimits, Requeue(i, n)
      PROVE  Moved(rows, rows')
  <2>1. rows[i].status = "DEAD" /\ rows[i].superseder = NoId /\ n \in Nat
    BY <1>5, ConstantsAssumption DEF Requeue
  <2>2. MovedRow(rows, i, Requeued(rows[i], n))
    BY <1>0, <2>1, UpdatesMoveRow
  <2> QED
    BY <1>0, <1>5, <2>2, MovedOneRow DEF Requeue
<1>6. ASSUME NEW old \in SUBSET Ids, NEW n \in PurgeLimits, Purge(old, n)
      PROVE  Streams(rows') /\ Resolves(rows, rows') /\ Sourced(rows, rows', record')
  <2>1. PICK D : rows' = Deleted(rows, D)
    BY <1>6 DEF Purge
  <2> QED
    BY <1>0, <1>6, <2>1, PurgeStreams, DeletedSourced
<1> QED
  BY <1>1, <1>2, <1>3, <1>4, <1>5, <1>6 DEF Next, Tick, vars

(* The streams hold through every interleaving of scans, workers, crashes, *)
(* resyncs, requeues and purges.                                           *)
THEOREM StreamInvariance == Spec => [](TypeInv /\ Streams(rows))
<1>1. Init => TypeInv /\ Streams(rows)
  BY InitTypeInv, InitStreams
<1>2. TypeInv /\ Streams(rows) /\ [Next]_vars => (TypeInv /\ Streams(rows))'
  <2> SUFFICES ASSUME TypeInv, Streams(rows), [Next]_vars
               PROVE  TypeInv' /\ Streams(rows)'
    OBVIOUS
  <2>1. TypeInv'
    BY NextTypeInv
  <2>2. Streams(rows')
    BY NextStreams
  <2>3. Streams(rows)' <=> Streams(rows')
    BY DEF Streams, FreeAbove, LinkedBack, ReplacedOnce, RecoveryIsLast, NoRowNoLinks, Causal,
           Live, ResyncKey, PredecessorResolved, Resolved
  <2> QED
    BY <2>1, <2>2, <2>3
<1> QED
  BY <1>1, <1>2, PTL DEF Spec

(* claim_uploads never leases, hence run_once never sends, a row before    *)
(* the upload it is linked behind, or that one's full resync, is delivered. *)
THEOREM CausalDeliveryCorrect == Spec => []CausalDelivery
<1>1. Streams(rows) => CausalDelivery
  BY DEF Streams, Causal, CausalDelivery
<1> QED
  BY <1>1, StreamInvariance, PTL

(* schedule_full_resync replaces an upload once, and purge_succeeded_      *)
(* uploads never removes a replacement before its original.                *)
THEOREM OneRecoveryCorrect == Spec => []OneRecoveryGeneration
<1>1. Streams(rows) => OneRecoveryGeneration
  BY DEF Streams, ReplacedOnce, OneRecoveryGeneration
<1> QED
  BY <1>1, StreamInvariance, PTL

(* The causal links of the table are acyclic, resyncs included, so no      *)
(* upload waits for itself.                                                *)
THEOREM NoCircularWaitCorrect == Spec => []NoCircularWait
<1>1. Streams(rows) => NoCircularWait
  BY DEF Streams, LinkedBack, NoCircularWait
<1> QED
  BY <1>1, StreamInvariance, PTL

(* No step makes a delivered upload undelivered, and no retention deletes  *)
(* one the cloud has not received.                                         *)
THEOREM ResolutionFinal == Spec => ResolutionIsFinal
<1>1. TypeInv /\ Streams(rows) /\ [Next]_vars =>
        [\A i \in Ids :
            /\ Live(rows, i) /\ ~Resolved(rows, i) => Live(rows', i)
            /\ Resolved(rows, i) => Resolved(rows', i) \/ rows'[i].status = "GONE"]_vars
  BY NextStreams DEF Resolves
<1> QED
  BY <1>1, StreamInvariance, PTL DEF Spec, ResolutionIsFinal

-----------------------------------------------------------------------------
(* The source of a full resync                                             *)

(* A scan's result stops being stored only when the outbox is through with *)
(* the scan (prune_completed_scan_records).                                *)
LEMMA RecordStep ==
    ASSUME TypeInv, [Next]_vars, NEW s \in Scans, record[s] = "stored"
    PROVE  record'[s] = "stored" \/ \A i \in Ids : ~Blocks(rows, i, s)
<1>1. ASSUME NEW r \in Scans,
             CompleteScan(r) \/ ReconcileScan(r) \/ FailScan(r) \/ RejectJob(r) \/ PruneScan(r)
      PROVE  record'[s] = "stored" \/ \A i \in Ids : ~Blocks(rows, i, s)
  BY <1>1 DEF CompleteScan, ReconcileScan, FailScan, RejectJob, PruneScan, TypeInv
<1>2. ASSUME NEW w \in Workers, Deliver(w) \/ Crash(w) PROVE record' = record
  BY <1>2 DEF Deliver, Claim, Request, Settle, Crash
<1> QED
  BY <1>1, <1>2 DEF Next, Tick, Requeue, Purge, vars

LEMMA NextSource ==
    ASSUME TypeInv, TypeInv', Streams(rows), ResyncSourceKept, [Next]_vars
    PROVE  ResyncSourceKept'
<1> SUFFICES ASSUME NEW i \in Ids, Live(rows', i), rows'[i].key.msg.kind = "result",
                    ~Resolved(rows', i)
             PROVE  record'[rows'[i].key.msg.scan] = "stored"
  BY DEF ResyncSourceKept, Live, Resolved
<1>1. Sourced(rows, rows', record') /\ Resolves(rows, rows')
  BY NextStreams
<1>2. CASE Live(rows, i) /\ rows'[i].key = rows[i].key
  <2> DEFINE s == rows[i].key.msg.scan
  <2>1. ~Resolved(rows, i)
    BY <1>1 DEF Resolves, Live
  <2>2. record[s] = "stored"
    BY <1>2, <2>1 DEF ResyncSourceKept
  <2>3. s \in Scans
    BY <1>2, RowFields DEF TypeInv, Keys, Messages
  <2>4. Blocks(rows, i, s)
    BY <1>2, <2>1 DEF Blocks
  <2> QED
    BY <1>2, <2>2, <2>3, <2>4, RecordStep
<1> QED
  BY <1>1, <1>2 DEF Sourced

(* prune_completed_scan_records never removes the snapshot that the full   *)
(* resync of a still undelivered result would be built from.               *)
THEOREM ResyncSourceCorrect == Spec => []ResyncSourceKept
<1>1. Init => ResyncSourceKept
  BY DEF Init, ResyncSourceKept, Live, NoRow
<1>2. TypeInv /\ TypeInv' /\ Streams(rows) /\ ResyncSourceKept /\ [Next]_vars
        => ResyncSourceKept'
  BY NextSource
<1> QED
  BY <1>1, <1>2, StreamInvariance, PTL DEF Spec

-----------------------------------------------------------------------------
(* Leases are fenced                                                       *)

LEMMA FencedClaim ==
    ASSUME TypeInv, NEW w \in Workers, Claim(w),
           NEW i \in Ids, rows[i].status = "IN_FLIGHT", ~(rows[i].until <= now)
    PROVE  rows'[i].status = "IN_FLIGHT"
<1> DEFINE rs == ExpireLeases(rows)
<1>1. rs[i] = rows[i]
  BY DEF ExpireLeases
<1>2. rs \in Table /\ rs[i].status = "IN_FLIGHT"
  BY <1>1, ExpireSound
<1> HIDE DEF rs
<1>3. rows' = rs \/ \E j \in FirstClaimable(rs) : rows' = [rs EXCEPT ![j] = Claimed(@)]
  BY DEF Claim, rs
<1>4. \A j \in FirstClaimable(rs) : rs[j].status = "PENDING"
  BY DEF FirstClaimable, Claimable
<1> QED
  BY <1>2, <1>3, <1>4 DEF Table

LEMMA FencedSettle ==
    ASSUME TypeInv, NEW w \in Workers, Settle(w),
           NEW j \in Ids, rows[j].status = "IN_FLIGHT", rows'[j].status # "IN_FLIGHT"
    PROVE  worker[w].phase = "answered" /\ worker[w].id = j /\ worker[w].token = rows[j].token
<1> DEFINE i == worker[w].id
<1>1. rows \in Table
  BY DEF TypeInv
<1>2. HoldsLease(rows, i, worker[w].token) /\ worker[w].phase = "answered"
  BY SettleCases
<1>3. i \in Ids /\ Live(rows, i)
  BY <1>2 DEF HoldsLease, Live, TypeInv, Hands, Worker
<1>4. i = j
  <2> SUFFICES ASSUME i # j PROVE rows'[j] = rows[j]
    OBVIOUS
  <2>1. CASE rows' \in ScheduleFullResync(rows, i)
    BY <1>3, <2>1, ResyncOthers
  <2>2. CASE rows' = MarkSucceeded(rows, i)
    BY <1>1, <2>2 DEF MarkSucceeded, Table
  <2>3. CASE \E q : rows' = [rows EXCEPT ![i] = q]
    BY <1>1, <2>3 DEF Table
  <2> QED
    BY <2>1, <2>2, <2>3, SettleCases
<1> QED
  BY <1>2, <1>4 DEF HoldsLease

LEMMA FencedPurge ==
    ASSUME TypeInv, NEW old \in SUBSET Ids, NEW limit, Purge(old, limit),
           NEW i \in Ids, rows[i].status = "IN_FLIGHT"
    PROVE  rows'[i].status = "IN_FLIGHT"
<1>1. PICK D : /\ rows' = Deleted(rows, D)
              /\ \A d \in D : rows[d].status \in {"DEAD", "SUCCEEDED"}
  BY DEF Purge, FirstOf, Purgeable
<1>2. rows[i] \in Row
  BY RowFields DEF TypeInv
<1>3. rows'[i] = Unlinked(rows[i], D)
  BY <1>1 DEF Deleted
<1> QED
  BY <1>2, <1>3 DEF Unlinked, Row

(* Only the worker that holds the lease and has an answer, or the clock,   *)
(* ends a lease: no stale worker, purge, requeue or scan does.             *)
THEOREM LeasesFenced == Spec => LeaseFencing
<1>1. ASSUME TypeInv, Streams(rows), [Next]_vars, NEW i \in Ids,
             rows[i].status = "IN_FLIGHT", rows'[i].status # "IN_FLIGHT"
      PROVE  \/ rows[i].until <= now
             \/ \E w \in Workers :
                   /\ worker[w].phase = "answered"
                   /\ worker[w].id = i
                   /\ worker[w].token = rows[i].token
  <2>1. ASSUME NEW s \in Scans,
               CompleteScan(s) \/ ReconcileScan(s) \/ FailScan(s) \/ RejectJob(s) \/ PruneScan(s)
        PROVE  rows'[i] = rows[i]
    BY <1>1, <2>1, ScanStreams DEF Filled
  <2>2. ASSUME NEW w \in Workers, Claim(w) PROVE rows[i].until <= now
    BY <1>1, <2>2, FencedClaim
  <2>3. ASSUME NEW w \in Workers, Settle(w)
        PROVE  /\ worker[w].phase = "answered" /\ worker[w].id = i
               /\ worker[w].token = rows[i].token
    BY <1>1, <2>3, FencedSettle
  <2>4. ASSUME NEW w \in Workers, NEW a \in Answers, Request(w, a) PROVE rows' = rows
    BY <2>4 DEF Request
  <2>5. ASSUME NEW w \in Workers, Crash(w) PROVE rows' = rows
    BY <2>5 DEF Crash
  <2>6. ASSUME NEW j \in Ids, NEW n \in RetryLimits, Requeue(j, n) PROVE rows'[i] = rows[i]
    BY <1>1, <2>6 DEF Requeue, TypeInv, Table
  <2>7. ASSUME NEW old \in SUBSET Ids, NEW n \in PurgeLimits, Purge(old, n)
        PROVE  rows'[i].status = "IN_FLIGHT"
    BY <1>1, <2>7, FencedPurge
  <2>8. Tick \/ UNCHANGED vars => rows' = rows
    BY DEF Tick, vars
  <2> QED
    BY <1>1, <2>1, <2>2, <2>3, <2>4, <2>5, <2>6, <2>7, <2>8 DEF Next, Deliver
<1>2. TypeInv /\ Streams(rows) /\ [Next]_vars =>
        [\A i \in Ids :
            rows[i].status = "IN_FLIGHT" /\ rows'[i].status # "IN_FLIGHT" =>
                \/ rows[i].until <= now
                \/ \E w \in Workers :
                      /\ worker[w].phase = "answered"
                      /\ worker[w].id = i
                      /\ worker[w].token = rows[i].token]_vars
  BY <1>1
<1> QED
  BY <1>2, StreamInvariance, PTL DEF Spec, LeaseFencing

-----------------------------------------------------------------------------
(* The table as an outbox of messages                                      *)

(* A key is queued once (the UNIQUE idempotency key).                      *)
OneRow(rs) ==
    \A i, j \in Ids : Live(rs, i) /\ Live(rs, j) /\ rs[i].key = rs[j].key => i = j

(* A row is linked inside the stream of its message.                       *)
InStream(rs) ==
    \A i \in Ids :
        Live(rs, i) =>
            /\ rs[i].group = CausalGroup(rs[i].key.msg)
            /\ rs[i].pred # NoId => rs[i].group # None /\ rs[rs[i].pred].group = rs[i].group

(* A row is replaced when it was its turn, and a full resync that is not   *)
(* delivered still replaces its original.                                  *)
ReplacedInTurn(rs) ==
    \A i \in Ids : rs[i].superseder # NoId => PredecessorResolved(rs, i)
HasOriginal(rs) ==
    \A r \in Ids :
        Live(rs, r) /\ rs[r].key.recovery /\ rs[r].status # "SUCCEEDED" =>
            \E i \in Ids : rs[i].superseder = r /\ rs[i].key = UploadKey(rs[r].key.msg)

Letters(rs) == OneRow(rs) /\ InStream(rs) /\ ReplacedInTurn(rs) /\ HasOriginal(rs)

LEMMA InitLetters == Init => Letters(rows)
BY DEF Init, Letters, OneRow, InStream, ReplacedInTurn, HasOriginal, Live, NoRow

LEMMA MovedLetters ==
    ASSUME NEW rs \in Table, Streams(rs), Letters(rs), NEW qs, Moved(rs, qs)
    PROVE  Letters(qs)
<1>1. \A i \in Ids :
        /\ qs[i].key = rs[i].key /\ qs[i].pred = rs[i].pred /\ qs[i].group = rs[i].group
        /\ qs[i].superseder = rs[i].superseder
        /\ Live(qs, i) <=> Live(rs, i)
        /\ rs[i].status = "SUCCEEDED" => qs[i].status = "SUCCEEDED"
  BY DEF Moved, MovedRow, Live
<1>2. \A i \in Ids : rs[i].pred \in Ids \cup {NoId}
  BY RowFields
<1>3. Forward(rs, qs)
  BY MovedStreams
<1>4. OneRow(qs)
  BY <1>1 DEF Letters, OneRow
<1>5. InStream(qs)
  BY <1>1, <1>2 DEF Letters, InStream
<1>6. ReplacedInTurn(qs)
  BY <1>1, <1>2, <1>3 DEF Letters, ReplacedInTurn, PredecessorResolved, Forward
<1>7. HasOriginal(qs)
  BY <1>1 DEF Letters, HasOriginal
<1> QED
  BY <1>4, <1>5, <1>6, <1>7 DEF Letters

(* A new row whose key is not in the table.                                *)
Inserted(rs, qs, n, row) ==
    /\ n \in Ids /\ rs[n].status = "FREE" /\ row.status = "PENDING"
    /\ qs[n] = row /\ \A i \in Ids : i # n => qs[i] = rs[i]
    /\ \A i \in Ids : Live(rs, i) => rs[i].key # row.key
    /\ row.group = CausalGroup(row.key.msg) /\ row.superseder = NoId
    /\ row.pred # NoId => /\ row.pred \in Ids /\ Live(rs, row.pred)
                          /\ row.group # None /\ rs[row.pred].group = row.group

(* Nothing refers to the new row, so nothing else changes.                 *)
LEMMA InsertedRest ==
    ASSUME NEW rs \in Table, Streams(rs), NEW qs, NEW n, NEW row, Inserted(rs, qs, n, row)
    PROVE  /\ ~Live(rs, n) /\ Live(qs, n)
           /\ \A i \in Ids : i # n => qs[i] = rs[i] /\ rs[i].superseder # n /\ rs[i].pred # n
           /\ \A i \in Ids : i # n => /\ Live(qs, i) <=> Live(rs, i)
                                      /\ Resolved(qs, i) <=> Resolved(rs, i)
           /\ \A i \in Ids : i # n =>
                  (PredecessorResolved(qs, i) <=> PredecessorResolved(rs, i))
           /\ ~Resolved(qs, n)
<1>1. \A i \in Ids : /\ rs[i].pred \in Ids \cup {NoId}
                     /\ rs[i].superseder \in Ids \cup {NoId}
  BY RowFields
<1>2. ~Live(rs, n) /\ Live(qs, n) /\ \A i \in Ids : i # n => qs[i] = rs[i]
  BY DEF Inserted, Live
<1>3. \A i \in Ids : i # n => rs[i].superseder # n /\ rs[i].pred # n
  BY <1>1, <1>2, NoIdIsNoRow DEF Streams, LinkedBack, ReplacedOnce, Inserted
<1>4. \A i \in Ids : i # n => /\ Live(qs, i) <=> Live(rs, i)
                              /\ Resolved(qs, i) <=> Resolved(rs, i)
  BY <1>1, <1>2, <1>3 DEF Live, Resolved
<1>5. \A i \in Ids : i # n => (PredecessorResolved(qs, i) <=> PredecessorResolved(rs, i))
  BY <1>1, <1>2, <1>3, <1>4 DEF PredecessorResolved
<1>6. ~Resolved(qs, n)
  BY DEF Inserted, Resolved
<1> QED
  BY <1>2, <1>3, <1>4, <1>5, <1>6

LEMMA InsertedLetters ==
    ASSUME NEW rs \in Table, Streams(rs), Letters(rs),
           NEW qs, NEW n, NEW row, Inserted(rs, qs, n, row)
    PROVE  /\ OneRow(qs) /\ InStream(qs) /\ ReplacedInTurn(qs)
           /\ ~row.key.recovery => HasOriginal(qs)
<1>1. /\ n \in Ids /\ ~Live(rs, n) /\ Live(qs, n) /\ qs[n] = row /\ row.superseder = NoId
      /\ \A i \in Ids : i # n => /\ qs[i] = rs[i] /\ rs[i].superseder # n /\ rs[i].pred # n
                                 /\ Live(qs, i) <=> Live(rs, i)
                                 /\ PredecessorResolved(qs, i) <=> PredecessorResolved(rs, i)
  BY InsertedRest DEF Inserted
<1>2. \A i \in Ids : rs[i].pred \in Ids \cup {NoId}
  BY RowFields
<1>3. OneRow(qs)
  <2> SUFFICES ASSUME NEW i \in Ids, NEW j \in Ids, Live(qs, i), Live(qs, j),
                      qs[i].key = qs[j].key, i # j
               PROVE  FALSE
    BY DEF OneRow
  <2>1. CASE i = n
    BY <1>1, <2>1 DEF Inserted
  <2>2. CASE j = n
    BY <1>1, <2>2 DEF Inserted
  <2>3. CASE i # n /\ j # n
    BY <1>1, <2>3 DEF Letters, OneRow
  <2> QED
    BY <2>1, <2>2, <2>3
<1>4. InStream(qs)
  <2> SUFFICES ASSUME NEW i \in Ids, Live(qs, i)
               PROVE  /\ qs[i].group = CausalGroup(qs[i].key.msg)
                      /\ qs[i].pred # NoId => /\ qs[i].group # None
                                              /\ qs[qs[i].pred].group = qs[i].group
    BY DEF InStream
  <2>1. CASE i = n
    <3>1. row.pred # NoId => row.pred # n
      BY <1>1 DEF Inserted
    <3> QED
      BY <1>1, <2>1, <3>1 DEF Inserted
  <2>2. CASE i # n
    BY <1>1, <1>2, <2>2 DEF Letters, InStream
  <2> QED
    BY <2>1, <2>2
<1>5. ReplacedInTurn(qs)
  BY <1>1 DEF Letters, ReplacedInTurn
<1>6. ~row.key.recovery => HasOriginal(qs)
  <2> SUFFICES ASSUME ~row.key.recovery, NEW r \in Ids, Live(qs, r), qs[r].key.recovery,
                      qs[r].status # "SUCCEEDED"
               PROVE  \E i \in Ids : /\ qs[i].superseder = r
                                     /\ qs[i].key = UploadKey(qs[r].key.msg)
    BY DEF HasOriginal
  <2>1. r # n /\ qs[r] = rs[r] /\ Live(rs, r)
    BY <1>1
  <2>2. PICK i \in Ids : rs[i].superseder = r /\ rs[i].key = UploadKey(rs[r].key.msg)
    BY <2>1 DEF Letters, HasOriginal
  <2>3. i # n
    <3>1. r # NoId
      BY NoIdIsNoRow
    <3>2. Live(rs, i)
      BY <2>2, <3>1 DEF Streams, ReplacedOnce, Live
    <3> QED
      BY <1>1, <3>2
  <2> QED
    BY <1>1, <2>1, <2>2, <2>3
<1> QED
  BY <1>3, <1>4, <1>5, <1>6


(* enqueue_upload leaves the table or inserts behind the stream's tail.     *)
LEMMA EnqueueInserts ==
    ASSUME TypeInv, NEW rs \in Table, Streams(rs), Letters(rs), NEW m \in Messages,
           NEW qs \in EnqueueUpload(rs, m)
    PROVE  \/ WithKey(rs, UploadKey(m)) # {} /\ qs = rs
           \/ /\ WithKey(rs, UploadKey(m)) = {}
              /\ \E n \in NextId(rs), p \in StreamTail(rs, CausalGroup(m)), row \in Row :
                    /\ row.pred = p /\ row.key = UploadKey(m)
                    /\ Inserted(rs, qs, n, row)
<1>1. CASE WithKey(rs, UploadKey(m)) # {}
  BY <1>1 DEF EnqueueUpload
<1>2. CASE WithKey(rs, UploadKey(m)) = {}
  <2>1. PICK n \in NextId(rs), p \in StreamTail(rs, CausalGroup(m)) :
            qs = [rs EXCEPT ![n] = NewRow(UploadKey(m), CausalGroup(m), MaxAttempts, p, NoId)]
    BY <1>2 DEF EnqueueUpload
  <2>2. PICK row : row = NewRow(UploadKey(m), CausalGroup(m), MaxAttempts, p, NoId)
    OBVIOUS
  <2>3. /\ row.status = "PENDING" /\ row.superseder = NoId /\ row.pred = p
        /\ row.key = UploadKey(m) /\ row.key.msg = m /\ row.group = CausalGroup(m)
    BY <2>2 DEF NewRow, NoRow, UploadKey
  <2>4. row \in Row
    <3>1. UploadKey(m) \in Keys /\ CausalGroup(m) \in Endpoints \cup {None}
      BY DEF Keys, UploadKey, CausalGroup, Endpoints, Messages
    <3>2. p \in Ids \cup {NoId} /\ MaxAttempts \in Nat
      BY <2>1, StreamTailType, ConstantsAssumption
    <3> QED
      BY <2>2, <3>1, <3>2, NewRowSound DEF SoundRow
  <2>5. p # NoId => /\ p \in Ids /\ Live(rs, p) /\ CausalGroup(m) # None
                    /\ rs[p].group = CausalGroup(m)
    BY <2>1 DEF StreamTail
  <2>6. n \in Ids /\ rs[n].status = "FREE" /\ qs[n] = row /\ \A i \in Ids : i # n => qs[i] = rs[i]
    BY <2>1, <2>2 DEF NextId, Table
  <2>7. \A i \in Ids : Live(rs, i) => rs[i].key # UploadKey(m)
    BY <1>2 DEF WithKey
  <2>8. Inserted(rs, qs, n, row)
    BY <2>3, <2>5, <2>6, <2>7 DEF Inserted
  <2> QED
    BY <1>2, <2>1, <2>3, <2>4, <2>8
<1> QED
  BY <1>1, <1>2

LEMMA EnqueueLetters ==
    ASSUME TypeInv, NEW rs \in Table, Streams(rs), Letters(rs), NEW m \in Messages,
           NEW qs \in EnqueueUpload(rs, m)
    PROVE  Letters(qs)
<1>1. CASE qs = rs
  BY <1>1
<1>2. ASSUME NEW n, NEW row, row.key = UploadKey(m), Inserted(rs, qs, n, row)
      PROVE  Letters(qs)
  <2>1. ~row.key.recovery
    BY <1>2 DEF UploadKey
  <2> QED
    BY <1>2, <2>1, InsertedLetters DEF Letters
<1> QED
  BY <1>1, <1>2, EnqueueInserts

(* Row i, refused, is replaced by the full resync in row r.                *)
Replaced(rs, qs, i, r) ==
    /\ i \in Ids /\ r \in Ids /\ r # i
    /\ rs[i].status = "IN_FLIGHT" /\ ~rs[i].key.recovery
    /\ Live(rs, r) /\ rs[r].key = ResyncKey(rs, i)
    /\ \A j \in Ids : j # i => qs[j] = rs[j]
    /\ qs[i].status = "DEAD" /\ qs[i].superseder = r /\ qs[i].key = rs[i].key
    /\ qs[i].pred = rs[i].pred /\ qs[i].group = rs[i].group

LEMMA SupersedeReplaces ==
    ASSUME NEW rs \in Table, Streams(rs), NEW i \in Ids, rs[i].status = "IN_FLIGHT",
           ~rs[i].key.recovery,
           NEW r \in Ids, Live(rs, r), rs[r].key = ResyncKey(rs, i)
    PROVE  Replaced(rs, Supersede(rs, i, r), i, r)
<1>1. PICK qs : qs = Supersede(rs, i, r)
  OBVIOUS
<1>2. \A j \in Ids : j # i => qs[j] = rs[j]
  BY <1>1 DEF Supersede, Table
<1>3. /\ qs[i].status = "DEAD" /\ qs[i].superseder = r /\ qs[i].key = rs[i].key
      /\ qs[i].pred = rs[i].pred /\ qs[i].group = rs[i].group
  <2>1. rs[i] \in Row
    BY RowFields
  <2>2. qs[i] = [Dead(rs[i]) EXCEPT !.superseder = r]
    BY <1>1 DEF Supersede, Table
  <2> QED
    BY <2>1, <2>2 DEF Dead, Unleased, Row
<1>4. r # i
  BY DEF ResyncKey
<1> QED
  BY <1>1, <1>2, <1>3, <1>4 DEF Replaced

(* What a replacement changes: the message is resolved if its resync is.   *)
LEMMA ReplacedRest ==
    ASSUME NEW rs \in Table, Streams(rs), NEW qs, NEW i, NEW r, Replaced(rs, qs, i, r)
    PROVE  /\ rs[i].superseder = NoId /\ ~Resolved(rs, i) /\ PredecessorResolved(rs, i)
           /\ \A j \in Ids : /\ qs[j].key = rs[j].key /\ qs[j].pred = rs[j].pred
                             /\ qs[j].group = rs[j].group
                             /\ Live(qs, j) <=> Live(rs, j)
                             /\ j # i => qs[j] = rs[j] /\ (Resolved(qs, j) <=> Resolved(rs, j))
           /\ \A j \in Ids : PredecessorResolved(rs, j) => PredecessorResolved(qs, j)
           /\ Resolved(qs, i) <=> rs[r].status = "SUCCEEDED"
<1>1. \A j \in Ids : /\ rs[j].pred \in Ids \cup {NoId}
                     /\ rs[j].superseder \in Ids \cup {NoId}
  BY RowFields
<1>2. rs[i].superseder = NoId /\ ~Resolved(rs, i) /\ PredecessorResolved(rs, i)
  BY NotReplaced DEF Replaced, Resolved, Streams, Causal
<1>3. \A j \in Ids : /\ qs[j].key = rs[j].key /\ qs[j].pred = rs[j].pred
                     /\ qs[j].group = rs[j].group
                     /\ Live(qs, j) <=> Live(rs, j)
                     /\ j # i => qs[j] = rs[j]
  BY DEF Replaced, Live
<1>4. \A j \in Ids : j # i => rs[j].superseder # i
  <2> SUFFICES ASSUME NEW j \in Ids, j # i, rs[j].superseder = i PROVE FALSE
    OBVIOUS
  <2>1. rs[i].key = ResyncKey(rs, j)
    BY NoIdIsNoRow DEF Streams, ReplacedOnce, Replaced
  <2> QED
    BY <2>1 DEF Replaced, ResyncKey
<1>5. \A j \in Ids : j # i => (Resolved(qs, j) <=> Resolved(rs, j))
  BY <1>1, <1>3, <1>4 DEF Resolved
<1>6. Resolved(qs, i) <=> rs[r].status = "SUCCEEDED"
  BY NoIdIsNoRow DEF Replaced, Resolved
<1>7. \A j \in Ids : PredecessorResolved(rs, j) => PredecessorResolved(qs, j)
  BY <1>1, <1>2, <1>3, <1>5 DEF PredecessorResolved
<1> QED
  BY <1>2, <1>3, <1>5, <1>6, <1>7

LEMMA ReplacedLetters ==
    ASSUME NEW rs \in Table, Streams(rs), OneRow(rs), InStream(rs), ReplacedInTurn(rs),
           NEW qs, NEW i, NEW r, Replaced(rs, qs, i, r),
           \A t \in Ids : Live(rs, t) /\ rs[t].key.recovery /\ rs[t].status # "SUCCEEDED" =>
              \/ t = r
              \/ \E j \in Ids : rs[j].superseder = t /\ rs[j].key = UploadKey(rs[t].key.msg)
    PROVE  Letters(qs)
<1>1. /\ i \in Ids /\ rs[i].superseder = NoId /\ PredecessorResolved(rs, i)
      /\ \A j \in Ids : /\ qs[j].key = rs[j].key /\ qs[j].pred = rs[j].pred
                        /\ qs[j].group = rs[j].group
                        /\ Live(qs, j) <=> Live(rs, j)
                        /\ j # i => qs[j] = rs[j]
      /\ \A j \in Ids : PredecessorResolved(rs, j) => PredecessorResolved(qs, j)
  BY ReplacedRest DEF Replaced
<1>2. \A j \in Ids : rs[j].pred \in Ids \cup {NoId}
  BY RowFields
<1>3. OneRow(qs)
  BY <1>1 DEF OneRow
<1>4. InStream(qs)
  BY <1>1, <1>2 DEF InStream
<1>5. ReplacedInTurn(qs)
  BY <1>1 DEF ReplacedInTurn
<1>6. HasOriginal(qs)
  <2> SUFFICES ASSUME NEW t \in Ids, Live(qs, t), qs[t].key.recovery,
                      qs[t].status # "SUCCEEDED"
               PROVE  \E j \in Ids : /\ qs[j].superseder = t
                                     /\ qs[j].key = UploadKey(qs[t].key.msg)
    BY DEF HasOriginal
  <2>1. t # i /\ qs[t] = rs[t] /\ Live(rs, t)
    BY <1>1 DEF Replaced
  <2>2. CASE t = r
    <3>1. rs[i].key = UploadKey(rs[r].key.msg)
      <4>1. rs[i].key \in Keys /\ rs[i].key.recovery = FALSE
        BY RowFields DEF Replaced, Live, Keys
      <4>2. rs[r].key.msg = rs[i].key.msg
        BY DEF Replaced, ResyncKey
      <4> QED
        BY <4>1, <4>2 DEF UploadKey, Keys
    <3> QED
      BY <1>1, <2>1, <2>2, <3>1 DEF Replaced
  <2>3. CASE t # r
    <3>1. PICK j \in Ids : rs[j].superseder = t /\ rs[j].key = UploadKey(rs[t].key.msg)
      BY <2>1, <2>3
    <3>2. j # i
      BY <1>1, <3>1, NoIdIsNoRow
    <3> QED
      BY <1>1, <2>1, <3>1, <3>2
  <2> QED
    BY <2>2, <2>3
<1> QED
  BY <1>3, <1>4, <1>5, <1>6 DEF Letters


(* schedule_full_resync reuses the resync that is queued or inserts it.    *)
LEMMA ResyncReplaces ==
    ASSUME TypeInv, Streams(rows), Letters(rows), NEW i \in Ids, rows[i].status = "IN_FLIGHT",
           CanResync(rows, i), NEW qs \in ScheduleFullResync(rows, i)
    PROVE  \E rs \in Table, r \in Ids :
              /\ Streams(rs) /\ Replaced(rs, qs, i, r)
              /\ \/ rs = rows
                 \/ \E row : Inserted(rows, rs, r, row) /\ row.key = ResyncKey(rows, i)
<1>1. rows \in Table /\ rows[i] \in SoundRow /\ ~rows[i].key.recovery /\ Live(rows, i)
  BY DEF TypeInv, Table, CanResync, Live
<1>2. CASE WithKey(rows, ResyncKey(rows, i)) # {}
  <2>1. PICK r \in WithKey(rows, ResyncKey(rows, i)) : qs = Supersede(rows, i, r)
    BY <1>2 DEF ScheduleFullResync
  <2>2. r \in Ids /\ Live(rows, r) /\ rows[r].key = ResyncKey(rows, i)
    BY <2>1 DEF WithKey
  <2>3. Replaced(rows, qs, i, r)
    BY <1>1, <2>1, <2>2, SupersedeReplaces
  <2> QED
    BY <1>1, <2>2, <2>3
<1>3. CASE WithKey(rows, ResyncKey(rows, i)) = {}
  <2>1. PICK r \in NextId(rows) :
            qs = Supersede([rows EXCEPT ![r] = NewRow(ResyncKey(rows, i), rows[i].group,
                                                      rows[i].limit, rows[i].pred, i)], i, r)
    BY <1>3 DEF ScheduleFullResync
  <2>2. PICK row : row = NewRow(ResyncKey(rows, i), rows[i].group, rows[i].limit,
                                rows[i].pred, i)
    OBVIOUS
  <2>3. PICK rs : rs = [rows EXCEPT ![r] = row]
    OBVIOUS
  <2>4. r \in Ids /\ r # i /\ rows[r].status = "FREE"
    BY <1>1, <2>1 DEF NextId, Live
  <2>5. row \in SoundRow
    <3>1. ResyncKey(rows, i) \in Keys
      BY <1>1 DEF Keys, ResyncKey, SoundRow, Live
    <3> QED
      BY <1>1, <2>2, <3>1, NewRowSound DEF Row, SoundRow
  <2>6. /\ row.status = "PENDING" /\ row.superseder = NoId /\ row.pred = rows[i].pred
        /\ row.resyncFor = i /\ row.key = ResyncKey(rows, i) /\ row.group = rows[i].group
    BY <2>2 DEF NewRow, NoRow
  <2>7. rows[i].pred # NoId => /\ rows[i].pred \in Ids
                               /\ Live(rows, rows[i].pred) /\ rows[i].pred < i
                               /\ rows[i].group # None
                               /\ rows[rows[i].pred].group = rows[i].group
    BY <1>1, RowFields DEF Streams, LinkedBack, Letters, InStream
  <2>8. row \in Row
    BY <2>5 DEF SoundRow
  <2>9. rs \in Table /\ rs[r] = row /\ \A j \in Ids : j # r => rs[j] = rows[j]
    BY <1>1, <2>3, <2>4, <2>5 DEF Table
  <2>10. Streams(rs)
    BY <1>1, <2>1, <2>3, <2>6, <2>7, <2>8, InsertStreams
  <2>11. \A j \in Ids : Live(rows, j) => rows[j].key # ResyncKey(rows, i)
    BY <1>3 DEF WithKey
  <2>12. row.group = CausalGroup(row.key.msg)
    BY <1>1, <2>6 DEF ResyncKey, Letters, InStream
  <2>13. Inserted(rows, rs, r, row)
    BY <2>4, <2>6, <2>7, <2>9, <2>11, <2>12 DEF Inserted
  <2>14. rs[i] = rows[i] /\ Live(rs, r) /\ rs[r].key = ResyncKey(rs, i)
    BY <2>4, <2>6, <2>9 DEF Live, ResyncKey
  <2>15. qs = Supersede(rs, i, r)
    BY <2>1, <2>2, <2>3
  <2>16. Replaced(rs, qs, i, r)
    BY <1>1, <2>4, <2>9, <2>10, <2>14, <2>15, SupersedeReplaces
  <2> QED
    BY <2>4, <2>6, <2>9, <2>10, <2>13, <2>16
<1> QED
  BY <1>2, <1>3

LEMMA ResyncLetters ==
    ASSUME TypeInv, Streams(rows), Letters(rows), NEW i \in Ids, rows[i].status = "IN_FLIGHT",
           CanResync(rows, i), NEW qs \in ScheduleFullResync(rows, i)
    PROVE  Letters(qs)
<1>1. rows \in Table
  BY DEF TypeInv
<1>2. PICK rs \in Table, r \in Ids :
              /\ Streams(rs) /\ Replaced(rs, qs, i, r)
              /\ \/ rs = rows
                 \/ \E row : Inserted(rows, rs, r, row) /\ row.key = ResyncKey(rows, i)
  BY ResyncReplaces
<1>3. CASE rs = rows
  BY <1>2, <1>3, ReplacedLetters DEF Letters, HasOriginal
<1>4. ASSUME NEW row, Inserted(rows, rs, r, row)
      PROVE  Letters(qs)
  <2>1. OneRow(rs) /\ InStream(rs) /\ ReplacedInTurn(rs)
    BY <1>1, <1>4, InsertedLetters
  <2>2. ASSUME NEW t \in Ids, Live(rs, t), rs[t].key.recovery, rs[t].status # "SUCCEEDED",
               t # r
        PROVE  \E j \in Ids : rs[j].superseder = t /\ rs[j].key = UploadKey(rs[t].key.msg)
    <3>1. /\ ~Live(rows, r) /\ rs[t] = rows[t] /\ Live(rows, t)
          /\ \A j \in Ids : j # r => rs[j] = rows[j]
      BY <1>1, <1>4, <2>2, InsertedRest
    <3>2. PICK j \in Ids : rows[j].superseder = t /\ rows[j].key = UploadKey(rows[t].key.msg)
      BY <2>2, <3>1 DEF Letters, HasOriginal
    <3>3. j # r
      BY <3>1, <3>2, NoIdIsNoRow DEF Streams, NoRowNoLinks
    <3> QED
      BY <3>1, <3>2, <3>3
  <2> QED
    BY <1>2, <2>1, <2>2, ReplacedLetters
<1> QED
  BY <1>2, <1>3, <1>4

LEMMA RemovedRest ==
    ASSUME NEW rs \in Table, Streams(rs), NEW qs, NEW D, Removed(rs, qs, D)
    PROVE  /\ \A i \in D : ~Live(qs, i)
           /\ \A i \in Ids \ D :
                 /\ qs[i].key = rs[i].key /\ qs[i].status = rs[i].status
                 /\ qs[i].group = rs[i].group /\ qs[i].superseder = rs[i].superseder
                 /\ qs[i].pred = rs[i].pred \/ (qs[i].pred = NoId /\ Resolved(rs, rs[i].pred))
                 /\ Live(qs, i) <=> Live(rs, i)
                 /\ Resolved(qs, i) <=> Resolved(rs, i)
                 /\ PredecessorResolved(qs, i) <=> PredecessorResolved(rs, i)
                 /\ qs[i].pred # NoId => qs[i].pred \in Ids \ D /\ qs[i].pred = rs[i].pred
<1>1. \A i \in Ids : /\ rs[i] \in Row
                     /\ rs[i].pred \in Ids \cup {NoId}
                     /\ rs[i].superseder \in Ids \cup {NoId}
  BY RowFields
<1>2. \A i \in D : ~Live(qs, i)
  BY DEF Removed, Deleted, NoRow, Live
<1>3. \A i \in Ids \ D :
        /\ qs[i].status = rs[i].status /\ qs[i].key = rs[i].key /\ qs[i].group = rs[i].group
        /\ qs[i].superseder = rs[i].superseder
        /\ qs[i].pred = Nulled(rs[i].pred, D)
  <2> SUFFICES ASSUME NEW i \in Ids \ D
               PROVE  /\ qs[i].status = rs[i].status /\ qs[i].key = rs[i].key
                      /\ qs[i].group = rs[i].group
                      /\ qs[i].superseder = rs[i].superseder
                      /\ qs[i].pred = Nulled(rs[i].pred, D)
    OBVIOUS
  <2>1. qs[i] = Unlinked(rs[i], D)
    BY DEF Removed, Deleted
  <2>2. Nulled(rs[i].superseder, D) = rs[i].superseder
    BY DEF Nulled, Removed
  <2> QED
    BY <1>1, <2>1, <2>2 DEF Unlinked, Row
<1>4. \A i \in Ids \ D : /\ Live(qs, i) <=> Live(rs, i)
                         /\ Resolved(qs, i) <=> Resolved(rs, i)
  <2> SUFFICES ASSUME NEW i \in Ids \ D
               PROVE  /\ Live(qs, i) <=> Live(rs, i)
                      /\ Resolved(qs, i) <=> Resolved(rs, i)
    OBVIOUS
  <2>1. rs[i].superseder # NoId => qs[rs[i].superseder].status = rs[rs[i].superseder].status
    BY <1>1, <1>3 DEF Removed
  <2> QED
    BY <1>3, <2>1 DEF Live, Resolved
<1>5. \A i \in Ids \ D :
        /\ qs[i].pred = rs[i].pred \/ (qs[i].pred = NoId /\ Resolved(rs, rs[i].pred))
        /\ qs[i].pred # NoId => qs[i].pred \in Ids \ D /\ qs[i].pred = rs[i].pred
  BY <1>1, <1>3 DEF Removed, Nulled
<1>6. \A i \in Ids \ D : PredecessorResolved(qs, i) <=> PredecessorResolved(rs, i)
  BY <1>4, <1>5 DEF PredecessorResolved
<1> QED
  BY <1>2, <1>3, <1>4, <1>5, <1>6

LEMMA RemovedLetters ==
    ASSUME NEW rs \in Table, Streams(rs), Letters(rs), NEW qs, NEW D, Removed(rs, qs, D)
    PROVE  Letters(qs)
<1>1. /\ \A i \in D : ~Live(qs, i)
      /\ \A i \in Ids \ D :
             /\ qs[i].key = rs[i].key /\ qs[i].status = rs[i].status
             /\ qs[i].group = rs[i].group /\ qs[i].superseder = rs[i].superseder
             /\ Live(qs, i) <=> Live(rs, i)
             /\ PredecessorResolved(qs, i) <=> PredecessorResolved(rs, i)
             /\ qs[i].pred # NoId => qs[i].pred \in Ids \ D /\ qs[i].pred = rs[i].pred
  BY RemovedRest
<1>2. \A i \in Ids : Live(qs, i) => i \in Ids \ D
  BY <1>1
<1>3. OneRow(qs)
  BY <1>1, <1>2 DEF Letters, OneRow
<1>4. InStream(qs)
  BY <1>1, <1>2 DEF Letters, InStream
<1>5. ReplacedInTurn(qs)
  <2> SUFFICES ASSUME NEW i \in Ids, qs[i].superseder # NoId
               PROVE  PredecessorResolved(qs, i)
    BY DEF ReplacedInTurn
  <2>1. i \in Ids \ D
    BY DEF Removed, Deleted, NoRow
  <2> QED
    BY <1>1, <2>1 DEF Letters, ReplacedInTurn
<1>6. HasOriginal(qs)
  <2> SUFFICES ASSUME NEW r \in Ids, Live(qs, r), qs[r].key.recovery,
                      qs[r].status # "SUCCEEDED"
               PROVE  \E i \in Ids : /\ qs[i].superseder = r
                                     /\ qs[i].key = UploadKey(qs[r].key.msg)
    BY DEF HasOriginal
  <2>1. /\ r \notin D /\ Live(rs, r) /\ rs[r].key = qs[r].key
        /\ rs[r].status = qs[r].status
    BY <1>1, <1>2
  <2>2. PICK i \in Ids : rs[i].superseder = r /\ rs[i].key = UploadKey(rs[r].key.msg)
    BY <2>1 DEF Letters, HasOriginal
  <2>3. ~Resolved(rs, i)
    <3>1. rs[i].status = "DEAD"
      BY <2>2, NoIdIsNoRow DEF Streams, ReplacedOnce
    <3> QED
      BY <2>1, <2>2, <3>1 DEF Resolved
  <2>4. i \in Ids \ D
    BY <2>3 DEF Removed
  <2> QED
    BY <1>1, <2>1, <2>2, <2>4
<1> QED
  BY <1>3, <1>4, <1>5, <1>6 DEF Letters

LEMMA ClaimMoves ==
    ASSUME TypeInv, Streams(rows), NEW w \in Workers, Claim(w)
    PROVE  \E rs \in Table :
              /\ Streams(rs) /\ Moved(rows, rs) /\ Moved(rs, rows')
              /\ \A i \in Ids : rs[i].status = "SUCCEEDED" => rows[i].status = "SUCCEEDED"
              /\ \A i \in Ids : rows'[i].status = "SUCCEEDED" => rs[i].status = "SUCCEEDED"
              /\ worker' # worker => \E i \in Ids :
                    /\ worker'[w].id = i /\ rows'[i].status = "IN_FLIGHT"
                    /\ \A v \in Workers : v # w => worker'[v] = worker[v]
<1>1. PICK rs : rs = ExpireLeases(rows)
  OBVIOUS
<1>2. rs \in Table /\ Streams(rs)
  BY <1>1, ExpireSound, ExpireStreams
<1>3. \A i \in Ids : rows[i] \in Row
  BY RowFields DEF TypeInv
<1>4. \A i \in Ids : \/ rs[i] = rows[i]
                     \/ /\ rows[i].status = "IN_FLIGHT"
                        /\ rs[i] = Dead(rows[i]) \/ rs[i] = Retry(rows[i], now)
  BY <1>1 DEF ExpireLeases
<1>5. Moved(rows, rs)
  BY <1>4, NotReplaced, UpdatesMoveRow DEF Moved, TypeInv
<1>6. \A i \in Ids : rs[i].status = "SUCCEEDED" => rows[i].status = "SUCCEEDED"
  BY <1>3, <1>4 DEF Dead, Retry, Unleased, Row
<1>7. CASE rows' = rs /\ worker' = worker
  BY <1>2, <1>5, <1>6, <1>7 DEF Moved
<1>8. ASSUME NEW i \in FirstClaimable(rs), rows' = [rs EXCEPT ![i] = Claimed(@)],
             worker' = [worker EXCEPT ![w] =
                           [phase |-> "claimed", id |-> i, key |-> rs[i].key,
                            token |-> Claimed(rs[i]).token, answer |-> None]]
      PROVE  /\ Moved(rs, rows')
             /\ \A j \in Ids : rows'[j].status = "SUCCEEDED" => rs[j].status = "SUCCEEDED"
             /\ i \in Ids /\ worker'[w].id = i /\ rows'[i].status = "IN_FLIGHT"
             /\ \A v \in Workers : v # w => worker'[v] = worker[v]
  <2>1. i \in Ids /\ Claimable(rs, i) /\ rs[i].status # "DEAD" /\ rs[i] \in Row
    BY <1>2, RowFields DEF FirstClaimable, Claimable
  <2>2. MovedRow(rs, i, Claimed(rs[i]))
    BY <1>2, <2>1, NotReplaced, UpdatesMoveRow
  <2>3. Moved(rs, rows')
    BY <1>2, <1>8, <2>1, <2>2, MovedOneRow
  <2>4. rows'[i] = Claimed(rs[i]) /\ \A j \in Ids : j # i => rows'[j] = rs[j]
    BY <1>2, <1>8, <2>1 DEF Table
  <2>5. rows'[i].status = "IN_FLIGHT"
    BY <2>1, <2>4 DEF Claimed, Row
  <2>6. worker'[w].id = i /\ \A v \in Workers : v # w => worker'[v] = worker[v]
    BY <1>8 DEF TypeInv
  <2> QED
    BY <2>1, <2>3, <2>4, <2>5, <2>6
<1> QED
  BY <1>1, <1>2, <1>5, <1>6, <1>7, <1>8 DEF Claim

LEMMA ScanLetters ==
    ASSUME TypeInv, Streams(rows), Letters(rows), NEW s \in Scans,
           CompleteScan(s) \/ ReconcileScan(s) \/ FailScan(s) \/ RejectJob(s) \/ PruneScan(s)
    PROVE  Letters(rows')
<1>1. \A kind \in Kinds : [scan |-> s, kind |-> kind] \in Messages
  BY DEF Messages
<1>2. rows \in Table /\ {"result", "status", "failed", "rejection"} = Kinds
  BY DEF TypeInv, Kinds
<1>3. CASE CompleteScan(s) \/ ReconcileScan(s)
  <2>1. PICK rs \in EnqueueUpload(rows, [scan |-> s, kind |-> "result"]) :
            rows' \in EnqueueUpload(rs, [scan |-> s, kind |-> "status"])
    BY <1>3 DEF CompleteScan, ReconcileScan
  <2>2. rs \in Table /\ Streams(rs) /\ Letters(rs)
    BY <1>1, <1>2, <2>1, EnqueueSound, EnqueueStreams, EnqueueLetters
  <2> QED
    BY <1>1, <1>2, <2>1, <2>2, EnqueueLetters
<1>4. CASE FailScan(s) \/ RejectJob(s)
  BY <1>1, <1>2, <1>4, EnqueueLetters DEF FailScan, RejectJob
<1>5. CASE PruneScan(s)
  BY <1>5 DEF PruneScan
<1> QED
  BY <1>3, <1>4, <1>5

(* What a settled answer does to the table.                                *)
LEMMA SettleMoves ==
    ASSUME TypeInv, Streams(rows), NEW w \in Workers, Settle(w)
    PROVE  \/ rows' = rows
           \/ /\ worker[w].phase = "answered" /\ worker[w].id \in Ids
              /\ rows[worker[w].id].status = "IN_FLIGHT"
              /\ \/ /\ Moved(rows, rows')
                    /\ \A j \in Ids : rows'[j].status = "SUCCEEDED" => rows[j].status = "SUCCEEDED"
                 \/ /\ worker[w].answer = "ok"
                    /\ Moved(rows, rows')
                    /\ \A j \in Ids : j # worker[w].id => rows'[j] = rows[j]
                    /\ rows'[worker[w].id].status = "SUCCEEDED"
                 \/ CanResync(rows, worker[w].id) /\ rows' \in ScheduleFullResync(rows, worker[w].id)
<1>1. PICK i : i = worker[w].id
  OBVIOUS
<1>2. rows \in Table
  BY DEF TypeInv
<1>3. CASE HoldsLease(rows, i, worker[w].token)
  <2>1. i \in Ids /\ rows[i].status = "IN_FLIGHT"
    BY <1>1, <1>3 DEF HoldsLease, TypeInv, Hands, Worker
  <2>2. rows[i].superseder = NoId /\ Causal(rows) /\ rows[i] \in Row
    BY <1>2, <2>1, NotReplaced, RowFields DEF Streams
  <2>3. ASSUME NEW q, MovedRow(rows, i, q), rows' = [rows EXCEPT ![i] = q]
        PROVE  /\ Moved(rows, rows') /\ rows'[i] = q
               /\ \A j \in Ids : j # i => rows'[j] = rows[j]
    BY <1>2, <2>1, <2>3, MovedOneRow DEF Table
  <2>4. ASSUME NEW d \in Delays, rows' = [rows EXCEPT ![i] = Retry(@, After(d))]
        PROVE  /\ Moved(rows, rows')
               /\ \A j \in Ids : rows'[j].status = "SUCCEEDED" => rows[j].status = "SUCCEEDED"
    <3>1. /\ MovedRow(rows, i, Retry(rows[i], After(d)))
          /\ Retry(rows[i], After(d)).status = "PENDING"
      BY <1>2, <2>1, <2>2, UpdatesMoveRow DEF Retry, Unleased, Row
    <3> QED
      BY <2>3, <2>4, <3>1
  <2>5. worker[w].phase = "answered"
    BY DEF Settle
  <2>6. \/ rows' = rows
        \/ worker[w].answer = "ok" /\ rows' = MarkSucceeded(rows, i)
        \/ CanResync(rows, i) /\ rows' \in ScheduleFullResync(rows, i)
        \/ rows' = [rows EXCEPT ![i] = Dead(@)]
        \/ \E d \in Delays : rows' = [rows EXCEPT ![i] = Retry(@, After(d))]
    BY <1>1, SettleCases
  <2>7. CASE worker[w].answer = "ok" /\ rows' = MarkSucceeded(rows, i)
    <3>1. PICK q : q = [Unleased(rows[i], "SUCCEEDED") EXCEPT !.nextAt = 0]
      OBVIOUS
    <3>2. MovedRow(rows, i, q)
      BY <1>2, <2>1, <2>2, <3>1, UpdatesMoveRow
    <3>3. rows' = [rows EXCEPT ![i] = q]
      BY <2>7, <3>1 DEF MarkSucceeded
    <3>4. q.status = "SUCCEEDED"
      BY <2>2, <3>1 DEF Unleased, Row
    <3>5. /\ Moved(rows, rows') /\ rows'[i].status = "SUCCEEDED"
          /\ \A j \in Ids : j # i => rows'[j] = rows[j]
      BY <2>3, <3>2, <3>3, <3>4
    <3> QED
      BY <1>1, <2>1, <2>5, <2>7, <3>5
  <2>8. CASE rows' = [rows EXCEPT ![i] = Dead(@)]
    <3>1. MovedRow(rows, i, Dead(rows[i])) /\ Dead(rows[i]).status = "DEAD"
      BY <1>2, <2>1, <2>2, UpdatesMoveRow DEF Dead, Unleased, Row
    <3>2. /\ Moved(rows, rows') /\ rows'[i].status = "DEAD"
          /\ \A j \in Ids : j # i => rows'[j] = rows[j]
      BY <2>3, <2>8, <3>1
    <3> QED
      BY <1>1, <2>1, <2>5, <3>2
  <2> QED
    BY <1>1, <2>1, <2>4, <2>5, <2>6, <2>7, <2>8
<1> QED
  BY <1>1, <1>3, SettleCases


(* Links are kept or become null.                                          *)
LinksKept(rs, qs) ==
    \A i \in Ids :
        Live(rs, i) /\ Live(qs, i) => qs[i].pred = rs[i].pred \/ qs[i].pred = NoId

LEMMA MovedLinks ==
    ASSUME NEW rs, NEW qs, Moved(rs, qs)
    PROVE  LinksKept(rs, qs)
BY DEF Moved, MovedRow, LinksKept

LEMMA ResyncLinks ==
    ASSUME TypeInv, Streams(rows), Letters(rows), NEW i \in Ids, rows[i].status = "IN_FLIGHT",
           CanResync(rows, i), NEW qs \in ScheduleFullResync(rows, i)
    PROVE  LinksKept(rows, qs)
<1>1. rows \in Table
  BY DEF TypeInv
<1>2. PICK rs \in Table, r \in Ids :
              /\ Streams(rs) /\ Replaced(rs, qs, i, r)
              /\ \/ rs = rows
                 \/ \E row : Inserted(rows, rs, r, row) /\ row.key = ResyncKey(rows, i)
  BY ResyncReplaces
<1>3. \A j \in Ids : qs[j].pred = rs[j].pred
  BY <1>2, ReplacedRest
<1>4. \A j \in Ids : Live(rows, j) => rs[j] = rows[j]
  BY <1>1, <1>2, InsertedRest
<1> QED
  BY <1>3, <1>4 DEF LinksKept

(* Every step keeps the letters of the streams.                            *)
LEMMA NextLetters ==
    ASSUME TypeInv, Streams(rows), Letters(rows), [Next]_vars
    PROVE  Letters(rows') /\ LinksKept(rows, rows')
<1>0. rows \in Table
  BY DEF TypeInv
<1>1. CASE rows' = rows
  BY <1>1 DEF LinksKept
<1>2. CASE Moved(rows, rows')
  BY <1>0, <1>2, MovedLetters, MovedLinks
<1>3. ASSUME NEW s \in Scans,
             CompleteScan(s) \/ ReconcileScan(s) \/ FailScan(s) \/ RejectJob(s) \/ PruneScan(s)
      PROVE  Letters(rows') /\ LinksKept(rows, rows')
  <2>1. Filled(rows, rows', Queued(s))
    BY <1>3, ScanStreams
  <2> QED
    BY <1>3, <2>1, ScanLetters DEF Filled, LinksKept, Live
<1>4. ASSUME NEW w \in Workers, Claim(w) PROVE Letters(rows') /\ LinksKept(rows, rows')
  <2>1. PICK rs \in Table : Streams(rs) /\ Moved(rows, rs) /\ Moved(rs, rows')
    BY <1>4, ClaimMoves
  <2>2. Letters(rs) /\ Letters(rows')
    BY <1>0, <2>1, MovedLetters
  <2>3. LinksKept(rows, rows')
    BY <2>1 DEF Moved, MovedRow, LinksKept
  <2> QED
    BY <2>2, <2>3
<1>5. ASSUME NEW w \in Workers, Settle(w) PROVE Letters(rows') /\ LinksKept(rows, rows')
  BY <1>1, <1>2, <1>5, SettleMoves, ResyncLetters, ResyncLinks
<1>6. ASSUME NEW i \in Ids, NEW n \in RetryLimits, Requeue(i, n) PROVE Moved(rows, rows')
  <2>1. rows[i].status = "DEAD" /\ rows[i].superseder = NoId /\ n \in Nat
    BY <1>6, ConstantsAssumption DEF Requeue
  <2>2. MovedRow(rows, i, Requeued(rows[i], n))
    BY <1>0, <2>1, UpdatesMoveRow
  <2> QED
    BY <1>0, <1>6, <2>2, MovedOneRow DEF Requeue
<1>7. ASSUME NEW old \in SUBSET Ids, NEW n \in PurgeLimits, Purge(old, n)
      PROVE  Letters(rows') /\ LinksKept(rows, rows')
  <2>1. PICK D : Removed(rows, rows', D)
    BY <1>7, PurgeRemoves
  <2>2. Letters(rows')
    BY <1>0, <2>1, RemovedLetters
  <2>3. ASSUME NEW i \in Ids, Live(rows', i)
        PROVE  rows'[i].pred = rows[i].pred \/ rows'[i].pred = NoId
    <3>1. i \in Ids \ D
      BY <1>0, <2>1, <2>3, RemovedRest
    <3> QED
      BY <1>0, <2>1, <3>1, RemovedRest
  <2> QED
    BY <2>2, <2>3 DEF LinksKept
<1>8. ASSUME NEW w \in Workers, (\E a \in Answers : Request(w, a)) \/ Crash(w)
      PROVE  rows' = rows
  BY <1>8 DEF Request, Crash
<1> QED
  BY <1>1, <1>2, <1>3, <1>4, <1>5, <1>6, <1>7, <1>8 DEF Next, Deliver, Tick, vars

(* What a worker has in its hands may be sent: the cloud has the message,  *)
(* or it is its turn -- also for a worker that lost its lease long ago.    *)
MayBeSent(u) ==
    \/ u.key.msg \in Committed
    \/ Live(rows, u.id) /\ PredecessorResolved(rows, u.id)

InTurn == \A w \in Workers : worker[w].phase # "idle" => MayBeSent(worker[w])

LEMMA ResolvedCommitted ==
    ASSUME TypeInv, Streams(rows), LeaseInv, NEW i \in Ids, Resolved(rows, i)
    PROVE  rows[i].key.msg \in Committed
<1>1. rows[i].superseder \in Ids \cup {NoId}
  BY RowFields DEF TypeInv
<1>2. CASE rows[i].status = "SUCCEEDED"
  BY <1>2 DEF LeaseInv, Committed
<1>3. CASE rows[i].superseder # NoId /\ rows[rows[i].superseder].status = "SUCCEEDED"
  <2>1. PICK r \in Ids : r = rows[i].superseder
    BY <1>1, <1>3
  <2>2. rows[r].key = ResyncKey(rows, i) /\ rows[r].status = "SUCCEEDED"
    BY <1>3, <2>1 DEF Streams, ReplacedOnce
  <2>3. rows[r].key \in accepted /\ rows[r].key.msg = rows[i].key.msg
    BY <2>2 DEF LeaseInv, ResyncKey
  <2> QED
    BY <2>3 DEF Committed
<1> QED
  BY <1>2, <1>3 DEF Resolved

LEMMA StillInTurn ==
    ASSUME TypeInv, Streams(rows), LeaseInv, Streams(rows'), Resolves(rows, rows'),
           TypeInv', LinksKept(rows, rows'), accepted \subseteq accepted',
           NEW i \in Ids, NEW k, Live(rows, i) => rows[i].key = k,
           \/ k.msg \in Committed
           \/ Live(rows, i) /\ PredecessorResolved(rows, i)
    PROVE  \/ \E x \in accepted' : x.msg = k.msg
           \/ Live(rows', i) /\ PredecessorResolved(rows', i)
<1>1. CASE k.msg \in Committed
  BY <1>1 DEF Committed
<1>2. CASE Live(rows, i) /\ PredecessorResolved(rows, i) /\ Live(rows', i)
  <2>1. rows'[i].pred \in Ids \cup {NoId} /\ rows[i].pred \in Ids \cup {NoId}
    BY RowFields DEF TypeInv
  <2>2. SUFFICES ASSUME rows'[i].pred # NoId PROVE Resolved(rows', rows'[i].pred)
    BY <1>2 DEF PredecessorResolved
  <2>3. PICK p \in Ids : p = rows'[i].pred /\ p = rows[i].pred
    BY <1>2, <2>1, <2>2 DEF LinksKept
  <2>4. Resolved(rows, p)
    BY <1>2, <2>2, <2>3 DEF PredecessorResolved
  <2>5. Live(rows', p)
    BY <2>2, <2>3 DEF Streams, LinkedBack
  <2> QED
    BY <2>3, <2>4, <2>5 DEF Resolves, Live
<1>3. CASE Live(rows, i) /\ ~Live(rows', i)
  <2>1. Resolved(rows, i)
    BY <1>3 DEF Resolves
  <2>2. rows[i].key.msg \in Committed
    BY <2>1, ResolvedCommitted
  <2> QED
    BY <1>3, <2>2 DEF Committed
<1> QED
  BY <1>1, <1>2, <1>3

LEMMA NextInTurn ==
    ASSUME TypeInv, TypeInv', Streams(rows), Letters(rows), LeaseInv, InTurn, [Next]_vars
    PROVE  InTurn'
<1>1. /\ Streams(rows') /\ Resolves(rows, rows') /\ LinksKept(rows, rows')
      /\ accepted \subseteq accepted'
  <2>1. accepted \subseteq accepted'
    BY DEF Next, CompleteScan, ReconcileScan, FailScan, RejectJob, PruneScan, Deliver, Claim,
           Request, Settle, Crash, Tick, Requeue, Purge, vars
  <2> QED
    BY <2>1, NextStreams, NextLetters
<1>2. ASSUME NEW w \in Workers, worker[w].phase # "idle",
             worker'[w].id = worker[w].id, worker'[w].key = worker[w].key
      PROVE  MayBeSent(worker[w])'
  <2>1. PICK i \in Ids : i = worker[w].id
    BY <1>2 DEF TypeInv, Hands
  <2>2. PICK k \in Keys : k = worker[w].key
    BY <1>2 DEF TypeInv, Hands
  <2>3. Live(rows, i) => rows[i].key = k
    BY <1>2, <2>1, <2>2 DEF LeaseInv
  <2>4. k.msg \in Committed \/ (Live(rows, i) /\ PredecessorResolved(rows, i))
    BY <1>2, <2>1, <2>2 DEF InTurn, MayBeSent
  <2>5. \/ \E x \in accepted' : x.msg = k.msg
        \/ Live(rows', i) /\ PredecessorResolved(rows', i)
    BY <1>1, <2>3, <2>4, StillInTurn
  <2>6. worker'[w].id = i /\ worker'[w].key = k
    BY <1>2, <2>1, <2>2
  <2> QED
    BY <2>5, <2>6 DEF MayBeSent, Committed, Live, PredecessorResolved, Resolved
<1>3. SUFFICES ASSUME NEW w \in Workers, worker'[w].phase # "idle"
               PROVE  MayBeSent(worker[w])'
  BY DEF InTurn
<1>4. CASE worker'[w] = worker[w]
  BY <1>2, <1>3, <1>4
<1>5. ASSUME NEW v \in Workers, Claim(v)
      PROVE  MayBeSent(worker[w])'
  <2>1. CASE worker' = worker
    BY <1>4, <2>1
  <2>2. CASE worker' # worker
    <3>1. PICK i \in Ids : /\ worker'[v].id = i /\ rows'[i].status = "IN_FLIGHT"
                           /\ \A u \in Workers : u # v => worker'[u] = worker[u]
      BY <1>5, <2>2, ClaimMoves
    <3>2. PredecessorResolved(rows', i) /\ Live(rows', i)
      BY <1>1, <3>1 DEF Streams, Causal, Live
    <3>3. CASE w = v
      BY <3>1, <3>2, <3>3 DEF MayBeSent, Live, PredecessorResolved, Resolved
    <3> QED
      BY <1>4, <3>1, <3>3
  <2> QED
    BY <2>1, <2>2
<1>6. ASSUME NEW v \in Workers, NEW a \in Answers, Request(v, a)
      PROVE  MayBeSent(worker[w])'
  <2>1. worker'[w] \in {worker[w], [worker[w] EXCEPT !.phase = "answered", !.answer = a]}
    BY <1>6 DEF Request, TypeInv
  <2>2. worker[w] \in Worker
    BY DEF TypeInv, Hands
  <2>3. worker'[w].id = worker[w].id /\ worker'[w].key = worker[w].key
    BY <2>1, <2>2 DEF Worker
  <2>4. worker[w].phase # "idle"
    <3>1. CASE w = v
      BY <1>6, <3>1 DEF Request
    <3>2. CASE w # v
      BY <1>3, <1>6, <3>2 DEF Request, TypeInv
    <3> QED
      BY <3>1, <3>2
  <2> QED
    BY <1>2, <2>3, <2>4
<1>7. ASSUME NEW v \in Workers, Settle(v) \/ Crash(v)
      PROVE  MayBeSent(worker[w])'
  <2>1. worker'[w] \in {worker[w], Idle}
    BY <1>7 DEF Settle, Crash, TypeInv
  <2> QED
    BY <1>3, <1>4, <2>1 DEF Idle
<1>8. ASSUME worker' = worker PROVE MayBeSent(worker[w])'
  BY <1>4, <1>8
<1> QED
  BY <1>5, <1>6, <1>7, <1>8 DEF Next, Deliver, CompleteScan, ReconcileScan, FailScan,
     RejectJob, PruneScan, Tick, Requeue, Purge, vars

OutboxInv == TypeInv /\ Streams(rows) /\ LeaseInv /\ Letters(rows) /\ InTurn

(* What a worker holds may be sent, in every interleaving of scans,        *)
(* workers, crashes, expired leases, resyncs, requeues and purges: its     *)
(* message is one the cloud has, or it is that message's turn, even when   *)
(* the lease was lost long ago and another worker claimed the row since.   *)
THEOREM OutboxInvariance == Spec => []OutboxInv
<1>1. Init => OutboxInv
  <2>1. Init => InTurn
    BY DEF Init, InTurn, Idle
  <2> QED
    BY <2>1, InitTypeInv, InitStreams, InitLeaseInv, InitLetters DEF OutboxInv
<1>2. OutboxInv /\ [Next]_vars => OutboxInv'
  <2> SUFFICES ASSUME OutboxInv, [Next]_vars PROVE OutboxInv'
    OBVIOUS
  <2>1. TypeInv' /\ LeaseInv'
    BY NextTypeInv, NextLeaseInv DEF OutboxInv
  <2>2. Streams(rows') /\ Letters(rows') /\ InTurn'
    BY <2>1, NextStreams, NextLetters, NextInTurn DEF OutboxInv
  <2>3. Streams(rows)' <=> Streams(rows')
    BY DEF Streams, FreeAbove, LinkedBack, ReplacedOnce, RecoveryIsLast, NoRowNoLinks, Causal,
           Live, ResyncKey, PredecessorResolved, Resolved
  <2>4. Letters(rows)' <=> Letters(rows')
    BY DEF Letters, OneRow, InStream, ReplacedInTurn, HasOriginal, Live, CausalGroup, UploadKey,
           PredecessorResolved, Resolved
  <2> QED
    BY <2>1, <2>2, <2>3, <2>4 DEF OutboxInv
<1> QED
  BY <1>1, <1>2, PTL DEF Spec


-----------------------------------------------------------------------------
(* The outbox of messages that a table stands for, step by step            *)

Undelivered(rs, i) == Original(rs, i) /\ ~Resolved(rs, i)

LEMMA InQueued ==
    ASSUME NEW rs, NEW m
    PROVE  m \in QueuedIn(rs) <=> \E i \in Ids : Undelivered(rs, i) /\ rs[i].key.msg = m
BY DEF QueuedIn, Undelivered

LEMMA InDelivered ==
    ASSUME NEW rs, NEW m
    PROVE  m \in DeliveredIn(rs) <=>
               \E i \in Ids : Original(rs, i) /\ Resolved(rs, i) /\ rs[i].key.msg = m
BY DEF DeliveredIn

LEMMA InBehind ==
    ASSUME NEW rs, NEW p
    PROVE  p \in BehindIn(rs) <=> \E i \in Ids : /\ Waiting(rs, i)
                                                 /\ p = <<rs[i].key.msg, rs[rs[i].pred].key.msg>>
BY DEF BehindIn

LEMMA BehindPair ==
    ASSUME NEW rs, NEW p \in BehindIn(rs)
    PROVE  \E i \in Ids : /\ Waiting(rs, i) /\ p = <<rs[i].key.msg, rs[rs[i].pred].key.msg>>
                          /\ p[1] = rs[i].key.msg /\ p[2] = rs[rs[i].pred].key.msg
BY InBehind

(* A message has one original.                                             *)
LEMMA OneOriginal ==
    ASSUME NEW rs \in Table, OneRow(rs), NEW i \in Ids, NEW j \in Ids,
           Original(rs, i), Original(rs, j), rs[i].key.msg = rs[j].key.msg
    PROVE  i = j
<1>1. rs[i].key \in Keys /\ rs[j].key \in Keys /\ ~rs[i].key.recovery /\ ~rs[j].key.recovery
  BY RowFields DEF Original
<1>2. rs[i].key = rs[j].key
  BY <1>1 DEF Keys
<1> QED
  BY <1>2 DEF OneRow, Original

(* The original of a row whose turn it is: the row itself, or what it      *)
(* replaces.                                                               *)
LEMMA OriginalInTurn ==
    ASSUME NEW rs \in Table, Streams(rs), Letters(rs), NEW i \in Ids,
           Live(rs, i), ~Resolved(rs, i), PredecessorResolved(rs, i)
    PROVE  \E o \in Ids : /\ Undelivered(rs, o) /\ PredecessorResolved(rs, o)
                          /\ rs[o].key.msg = rs[i].key.msg
                          /\ o = i \/ rs[o].superseder = i
<1>1. CASE ~rs[i].key.recovery
  BY <1>1 DEF Undelivered, Original
<1>2. CASE rs[i].key.recovery
  <2>1. rs[i].status # "SUCCEEDED"
    BY DEF Resolved
  <2>2. PICK o \in Ids : rs[o].superseder = i /\ rs[o].key = UploadKey(rs[i].key.msg)
    BY <1>2, <2>1 DEF Letters, HasOriginal
  <2>3. rs[o].superseder # NoId
    BY <2>2, NoIdIsNoRow
  <2>4. rs[o].status = "DEAD" /\ PredecessorResolved(rs, o)
    BY <2>3 DEF Streams, ReplacedOnce, Letters, ReplacedInTurn
  <2>5. Undelivered(rs, o) /\ rs[o].key.msg = rs[i].key.msg
    BY <2>1, <2>2, <2>4 DEF Undelivered, Original, Live, Resolved, UploadKey
  <2> QED
    BY <1>2, <2>2, <2>4, <2>5
<1> QED
  BY <1>1, <1>2

(* A row that is not resolved carries a queued message.                    *)
LEMMA UnresolvedQueued ==
    ASSUME NEW rs \in Table, Streams(rs), Letters(rs), NEW p \in Ids,
           Live(rs, p), ~Resolved(rs, p)
    PROVE  rs[p].key.msg \in QueuedIn(rs)
<1>1. CASE ~rs[p].key.recovery
  BY <1>1, InQueued DEF Undelivered, Original
<1>2. CASE rs[p].key.recovery
  <2>1. rs[p].status # "SUCCEEDED"
    BY DEF Resolved
  <2>2. PICK i \in Ids : rs[i].superseder = p /\ rs[i].key = UploadKey(rs[p].key.msg)
    BY <1>2, <2>1 DEF Letters, HasOriginal
  <2>3. rs[i].status = "DEAD"
    BY <2>2, NoIdIsNoRow DEF Streams, ReplacedOnce
  <2>4. Undelivered(rs, i) /\ rs[i].key.msg = rs[p].key.msg
    BY <2>1, <2>2, <2>3 DEF Undelivered, Original, Live, Resolved, UploadKey
  <2> QED
    BY <2>4, InQueued
<1> QED
  BY <1>1, <1>2 DEF Keys

(* Steps that queue and deliver nothing.                                   *)
Quiet(rs, qs) ==
    /\ \A i \in Ids : Undelivered(qs, i) <=> Undelivered(rs, i)
    /\ \A i \in Ids :
          Undelivered(rs, i) =>
              /\ qs[i].key.msg = rs[i].key.msg
              /\ PredecessorResolved(qs, i) <=> PredecessorResolved(rs, i)
              /\ ~PredecessorResolved(rs, i) =>
                     qs[qs[i].pred].key.msg = rs[rs[i].pred].key.msg
    /\ \A i \in Ids :
          Original(qs, i) /\ Resolved(qs, i) =>
              Original(rs, i) /\ Resolved(rs, i) /\ qs[i].key.msg = rs[i].key.msg

LEMMA QuietOutbox ==
    ASSUME NEW rs, NEW qs, Quiet(rs, qs)
    PROVE  /\ QueuedIn(qs) = QueuedIn(rs) /\ BehindIn(qs) = BehindIn(rs)
           /\ DeliveredIn(qs) \subseteq DeliveredIn(rs)
<1>1. ASSUME NEW m PROVE m \in QueuedIn(qs) <=> m \in QueuedIn(rs)
  BY <1>1, InQueued DEF Quiet
<1>2. ASSUME NEW m \in DeliveredIn(qs) PROVE m \in DeliveredIn(rs)
  BY <1>2, InDelivered DEF Quiet
<1>3. \A i \in Ids : Waiting(qs, i) <=> Waiting(rs, i)
  BY DEF Quiet, Waiting, Undelivered
<1>4. \A i \in Ids : Waiting(rs, i) =>
          <<qs[i].key.msg, qs[qs[i].pred].key.msg>> = <<rs[i].key.msg, rs[rs[i].pred].key.msg>>
  BY DEF Quiet, Waiting, Undelivered
<1>5. ASSUME NEW p PROVE p \in BehindIn(qs) <=> p \in BehindIn(rs)
  BY <1>3, <1>4, <1>5, InBehind
<1> QED
  BY <1>1, <1>2, <1>5

LEMMA MovedQuiet ==
    ASSUME NEW rs \in Table, Streams(rs), NEW qs, Moved(rs, qs),
           \A i \in Ids : qs[i].status = "SUCCEEDED" => rs[i].status = "SUCCEEDED"
    PROVE  Quiet(rs, qs)
<1>1. \A i \in Ids :
        /\ qs[i].key = rs[i].key /\ qs[i].pred = rs[i].pred
        /\ qs[i].superseder = rs[i].superseder
        /\ Live(qs, i) <=> Live(rs, i)
        /\ qs[i].status = "SUCCEEDED" <=> rs[i].status = "SUCCEEDED"
  BY DEF Moved, MovedRow, Live
<1>2. \A i \in Ids : /\ rs[i].pred \in Ids \cup {NoId}
                     /\ rs[i].superseder \in Ids \cup {NoId}
  BY RowFields
<1>3. \A i \in Ids : Resolved(qs, i) <=> Resolved(rs, i)
  BY <1>1, <1>2 DEF Resolved
<1>4. \A i \in Ids : PredecessorResolved(qs, i) <=> PredecessorResolved(rs, i)
  BY <1>1, <1>2, <1>3 DEF PredecessorResolved
<1>5. \A i \in Ids : Original(qs, i) <=> Original(rs, i)
  BY <1>1 DEF Original
<1>6. \A i \in Ids : ~PredecessorResolved(rs, i) => qs[qs[i].pred].key = rs[rs[i].pred].key
  BY <1>1, <1>2 DEF PredecessorResolved
<1> QED
  BY <1>1, <1>3, <1>4, <1>5, <1>6 DEF Quiet, Undelivered

LEMMA RemovedQuiet ==
    ASSUME NEW rs \in Table, Streams(rs), NEW qs, NEW D, Removed(rs, qs, D)
    PROVE  Quiet(rs, qs)
<1>1. \A i \in Ids : /\ rs[i].pred \in Ids \cup {NoId}
                     /\ rs[i].superseder \in Ids \cup {NoId}
  BY RowFields
<1>2. \A i \in D : ~Original(qs, i) /\ Resolved(rs, i)
  BY RemovedRest DEF Removed, Original
<1>3. \A i \in Ids \ D :
        /\ qs[i].key = rs[i].key
        /\ Original(qs, i) <=> Original(rs, i)
        /\ Resolved(qs, i) <=> Resolved(rs, i)
        /\ PredecessorResolved(qs, i) <=> PredecessorResolved(rs, i)
        /\ qs[i].pred # NoId => qs[i].pred \in Ids \ D /\ qs[i].pred = rs[i].pred
  BY RemovedRest DEF Original
<1>4. \A i \in Ids \ D : ~PredecessorResolved(rs, i) =>
          qs[qs[i].pred].key = rs[rs[i].pred].key
  BY <1>3 DEF PredecessorResolved
<1>5. \A i \in Ids : Undelivered(qs, i) <=> Undelivered(rs, i)
  BY <1>2, <1>3 DEF Undelivered
<1>6. \A i \in Ids : Undelivered(rs, i) => i \in Ids \ D
  BY <1>2 DEF Undelivered
<1>7. \A i \in Ids : Original(qs, i) => i \in Ids \ D
  BY <1>2
<1> QED
  BY <1>3, <1>4, <1>5, <1>6, <1>7 DEF Quiet

(* A replacement that is not delivered yet.                                *)
LEMMA ReplacedQuiet ==
    ASSUME NEW rs \in Table, Streams(rs), NEW qs, NEW i, NEW r, Replaced(rs, qs, i, r),
           rs[r].status # "SUCCEEDED"
    PROVE  Quiet(rs, qs)
<1>1. /\ \A j \in Ids : /\ qs[j].key = rs[j].key /\ qs[j].pred = rs[j].pred
                        /\ Live(qs, j) <=> Live(rs, j)
                        /\ j # i => (Resolved(qs, j) <=> Resolved(rs, j))
      /\ ~Resolved(qs, i) /\ ~Resolved(rs, i)
  BY ReplacedRest
<1>2. \A j \in Ids : rs[j].pred \in Ids \cup {NoId}
  BY RowFields
<1>3. \A j \in Ids : Resolved(qs, j) <=> Resolved(rs, j)
  BY <1>1
<1>4. \A j \in Ids : PredecessorResolved(qs, j) <=> PredecessorResolved(rs, j)
  BY <1>1, <1>2, <1>3 DEF PredecessorResolved
<1>5. \A j \in Ids : Original(qs, j) <=> Original(rs, j)
  BY <1>1 DEF Original
<1>6. \A j \in Ids : ~PredecessorResolved(rs, j) => qs[qs[j].pred].key = rs[rs[j].pred].key
  BY <1>1, <1>2 DEF PredecessorResolved
<1> QED
  BY <1>1, <1>3, <1>4, <1>5, <1>6 DEF Quiet, Undelivered

(* A full resync in the table changes no message.                          *)
LEMMA ResyncRowQuiet ==
    ASSUME NEW rs \in Table, Streams(rs), NEW qs, NEW n, NEW row, Inserted(rs, qs, n, row),
           row.key.recovery
    PROVE  Quiet(rs, qs)
<1>1. /\ n \in Ids /\ qs[n] = row /\ ~Live(rs, n)
      /\ \A i \in Ids : i # n =>
             /\ qs[i] = rs[i] /\ rs[i].pred # n
             /\ Live(qs, i) <=> Live(rs, i)
             /\ Resolved(qs, i) <=> Resolved(rs, i)
             /\ PredecessorResolved(qs, i) <=> PredecessorResolved(rs, i)
  BY InsertedRest DEF Inserted
<1>2. \A i \in Ids : rs[i].pred \in Ids \cup {NoId}
  BY RowFields
<1>3. ~Original(qs, n) /\ ~Original(rs, n)
  BY <1>1 DEF Original
<1>4. \A i \in Ids : i # n => (Original(qs, i) <=> Original(rs, i))
  BY <1>1 DEF Original
<1>5. \A i \in Ids : i # n /\ ~PredecessorResolved(rs, i) =>
          qs[qs[i].pred].key = rs[rs[i].pred].key
  BY <1>1, <1>2 DEF PredecessorResolved
<1> QED
  BY <1>1, <1>3, <1>4, <1>5 DEF Quiet, Undelivered


(* The rows of message m are resolved, and no other.                       *)
Answered(rs, qs, m) ==
    /\ \E o \in Ids : Undelivered(rs, o) /\ rs[o].key.msg = m /\ PredecessorResolved(rs, o)
    /\ \A i \in Ids : /\ qs[i].key = rs[i].key /\ qs[i].pred = rs[i].pred
                      /\ Live(qs, i) <=> Live(rs, i)
    /\ \A i \in Ids :
          Live(rs, i) => (Resolved(qs, i) <=> Resolved(rs, i) \/ rs[i].key.msg = m)

LEMMA AnsweredOutbox ==
    ASSUME NEW rs \in Table, Streams(rs), Letters(rs), NEW qs, NEW m, Answered(rs, qs, m)
    PROVE  /\ m \in QueuedIn(rs) /\ \A p \in BehindIn(rs) : p[1] # m
           /\ QueuedIn(qs) = QueuedIn(rs) \ {m}
           /\ DeliveredIn(qs) = DeliveredIn(rs) \cup {m}
           /\ BehindIn(qs) = {p \in BehindIn(rs) : p[2] # m}
<1>1. PICK o \in Ids : Undelivered(rs, o) /\ rs[o].key.msg = m /\ PredecessorResolved(rs, o)
  BY DEF Answered
<1>2. \A i \in Ids : /\ qs[i].key = rs[i].key /\ qs[i].pred = rs[i].pred
                     /\ Live(qs, i) <=> Live(rs, i)
                     /\ Original(qs, i) <=> Original(rs, i)
                     /\ Original(rs, i) =>
                            (Resolved(qs, i) <=> Resolved(rs, i) \/ rs[i].key.msg = m)
  BY DEF Answered, Original
<1>3. \A i \in Ids : Original(rs, i) /\ rs[i].key.msg = m => i = o
  BY <1>1, OneOriginal DEF Letters, Undelivered
<1>4. \A i \in Ids : rs[i].pred # NoId => rs[i].pred \in Ids /\ Live(rs, rs[i].pred)
  BY RowFields DEF Streams, LinkedBack
<1>5. \A i \in Ids : ~PredecessorResolved(qs, i) <=>
          ~PredecessorResolved(rs, i) /\ rs[rs[i].pred].key.msg # m
  BY <1>2, <1>4 DEF PredecessorResolved, Answered
<1>6. m \in QueuedIn(rs)
  BY <1>1, InQueued
<1>7. \A p \in BehindIn(rs) : p[1] # m
  <2> SUFFICES ASSUME NEW p \in BehindIn(rs), p[1] = m PROVE FALSE
    OBVIOUS
  <2>1. PICK i \in Ids : Waiting(rs, i) /\ p[1] = rs[i].key.msg
    BY BehindPair
  <2> QED
    BY <1>1, <1>3, <2>1 DEF Waiting
<1>8. \A i \in Ids : Undelivered(qs, i) <=> Undelivered(rs, i) /\ rs[i].key.msg # m
  BY <1>2 DEF Undelivered
<1>9. ASSUME NEW x PROVE x \in QueuedIn(qs) <=> x \in QueuedIn(rs) \ {m}
  BY <1>2, <1>8, InQueued
<1>10. ASSUME NEW x PROVE x \in DeliveredIn(qs) <=> x \in DeliveredIn(rs) \cup {m}
  BY <1>1, <1>2, InDelivered DEF Undelivered
<1>11. \A i \in Ids : Waiting(qs, i) <=> Waiting(rs, i) /\ rs[rs[i].pred].key.msg # m
  BY <1>1, <1>2, <1>3, <1>5 DEF Waiting
<1>12. \A i \in Ids : Waiting(rs, i) =>
           <<qs[i].key.msg, qs[qs[i].pred].key.msg>> = <<rs[i].key.msg, rs[rs[i].pred].key.msg>>
  BY <1>2, <1>4 DEF Waiting, PredecessorResolved
<1>13. ASSUME NEW p
       PROVE  p \in BehindIn(qs) <=> p \in {q \in BehindIn(rs) : q[2] # m}
  <2>1. ASSUME p \in BehindIn(qs) PROVE p \in BehindIn(rs) /\ p[2] # m
    BY <1>11, <1>12, <2>1, InBehind
  <2>2. ASSUME p \in BehindIn(rs), p[2] # m PROVE p \in BehindIn(qs)
    <3>1. PICK i \in Ids : /\ Waiting(rs, i)
                           /\ p = <<rs[i].key.msg, rs[rs[i].pred].key.msg>>
                           /\ p[2] = rs[rs[i].pred].key.msg
      BY <2>2, BehindPair
    <3> QED
      BY <1>11, <1>12, <2>2, <3>1, InBehind
  <2> QED
    BY <2>1, <2>2
<1> QED
  BY <1>6, <1>7, <1>9, <1>10, <1>13

(* A request that succeeded, original or resync.                           *)
LEMMA SucceededAnswers ==
    ASSUME NEW rs \in Table, Streams(rs), Letters(rs), NEW i \in Ids,
           rs[i].status = "IN_FLIGHT", NEW qs, Moved(rs, qs),
           \A j \in Ids : j # i => qs[j] = rs[j], qs[i].status = "SUCCEEDED"
    PROVE  Answered(rs, qs, rs[i].key.msg)
<1> DEFINE m == rs[i].key.msg
<1>1. \A j \in Ids : /\ qs[j].key = rs[j].key /\ qs[j].pred = rs[j].pred
                     /\ qs[j].superseder = rs[j].superseder
                     /\ Live(qs, j) <=> Live(rs, j)
  BY DEF Moved, MovedRow, Live
<1>2. \A j \in Ids : rs[j].superseder \in Ids \cup {NoId}
  BY RowFields
<1>3. Live(rs, i) /\ rs[i].superseder = NoId /\ ~Resolved(rs, i) /\ PredecessorResolved(rs, i)
  BY NotReplaced DEF Live, Resolved, Streams, Causal
<1>4. PICK o \in Ids : /\ Undelivered(rs, o) /\ rs[o].key.msg = m
                       /\ PredecessorResolved(rs, o) /\ Resolved(qs, o)
                       /\ o = i \/ rs[o].superseder = i
  <2>1. PICK o \in Ids : /\ Undelivered(rs, o) /\ rs[o].key.msg = m
                         /\ PredecessorResolved(rs, o)
                         /\ o = i \/ rs[o].superseder = i
    BY <1>3, OriginalInTurn
  <2>2. Resolved(qs, o)
    BY <1>1, <2>1, NoIdIsNoRow DEF Resolved
  <2> QED
    BY <2>1, <2>2
<1>5. ASSUME NEW j \in Ids, Live(rs, j)
      PROVE  Resolved(qs, j) <=> Resolved(rs, j) \/ rs[j].key.msg = m
  <2>1. ASSUME Resolved(qs, j) PROVE Resolved(rs, j) \/ rs[j].key.msg = m
    <3>1. CASE j = i
      BY <3>1
    <3>2. CASE j # i /\ qs[j].status = "SUCCEEDED"
      BY <3>2 DEF Resolved
    <3>3. CASE /\ j # i /\ qs[j].superseder # NoId
               /\ qs[qs[j].superseder].status = "SUCCEEDED"
      <4>1. PICK s \in Ids : s = rs[j].superseder /\ s = qs[j].superseder
        BY <1>1, <1>2, <3>3
      <4>2. rs[j].superseder # NoId
        BY <3>3, <4>1
      <4>3. CASE s = i
        <5>1. rs[i].key = ResyncKey(rs, j)
          BY <4>1, <4>2, <4>3 DEF Streams, ReplacedOnce
        <5> QED
          BY <5>1 DEF ResyncKey
      <4>4. CASE s # i
        BY <3>3, <4>1, <4>4 DEF Resolved
      <4> QED
        BY <4>3, <4>4
    <3> QED
      BY <2>1, <3>1, <3>2, <3>3 DEF Resolved
  <2>2. ASSUME Resolved(rs, j) PROVE Resolved(qs, j)
    BY <2>2, MovedStreams DEF Forward
  <2>3. ASSUME rs[j].key.msg = m, ~rs[j].key.recovery PROVE Resolved(qs, j)
    <3>1. Original(rs, j) /\ Original(rs, o)
      BY <1>4, <1>5, <2>3 DEF Undelivered, Original
    <3>2. j = o
      BY <1>4, <2>3, <3>1, OneOriginal DEF Letters
    <3> QED
      BY <1>4, <3>2
  <2>4. ASSUME rs[j].key.msg = m, rs[j].key.recovery PROVE Resolved(qs, j)
    <3>1. rs[j].key \in Keys /\ rs[i].key \in Keys
      BY <1>3, <1>5, RowFields
    <3>2. CASE rs[i].key.recovery
      <4>1. rs[i].key = rs[j].key
        BY <2>4, <3>1, <3>2 DEF Keys
      <4>2. j = i
        BY <1>3, <1>5, <4>1 DEF Letters, OneRow
      <4> QED
        BY <4>2 DEF Resolved
    <3>3. CASE ~rs[i].key.recovery
      <4>1. rs[j].status = "SUCCEEDED"
        <5>1. SUFFICES ASSUME rs[j].status # "SUCCEEDED" PROVE FALSE
          OBVIOUS
        <5>2. PICK t \in Ids : rs[t].superseder = j /\ rs[t].key = UploadKey(m)
          BY <1>5, <2>4, <5>1 DEF Letters, HasOriginal
        <5>3. rs[i].key = UploadKey(m)
          BY <3>1, <3>3 DEF Keys, UploadKey
        <5>4. rs[t].superseder # NoId
          BY <5>2, NoIdIsNoRow
        <5>5. Live(rs, t)
          BY <5>4 DEF Streams, ReplacedOnce, Live
        <5>6. t = i
          BY <1>3, <5>2, <5>3, <5>5 DEF Letters, OneRow
        <5> QED
          BY <1>3, <5>4, <5>6
      <4>2. Resolved(rs, j)
        BY <4>1 DEF Resolved
      <4> QED
        BY <2>2, <4>2
    <3> QED
      BY <3>2, <3>3
  <2>5. rs[j].key.recovery \in BOOLEAN
    BY <1>5, RowFields DEF Keys
  <2> QED
    BY <2>1, <2>2, <2>3, <2>4, <2>5
<1> HIDE DEF m
<1>6. Answered(rs, qs, m)
  BY <1>1, <1>4, <1>5 DEF Answered
<1> QED
  BY <1>6 DEF m

(* A refused upload whose full resync is delivered already.                *)
LEMMA ReplacedAnswers ==
    ASSUME NEW rs \in Table, Streams(rs), Letters(rs), NEW qs, NEW i, NEW r,
           Replaced(rs, qs, i, r), rs[r].status = "SUCCEEDED"
    PROVE  Answered(rs, qs, rs[i].key.msg)
<1>1. /\ i \in Ids /\ r \in Ids
      /\ \A j \in Ids : /\ qs[j].key = rs[j].key /\ qs[j].pred = rs[j].pred
                        /\ Live(qs, j) <=> Live(rs, j)
                        /\ j # i => (Resolved(qs, j) <=> Resolved(rs, j))
      /\ Resolved(qs, i) /\ ~Resolved(rs, i) /\ PredecessorResolved(rs, i)
  BY ReplacedRest DEF Replaced
<1>2. Undelivered(rs, i) /\ Original(rs, i)
  BY <1>1 DEF Undelivered, Original, Replaced, Live
<1>3. ASSUME NEW j \in Ids, Live(rs, j), j # i, rs[j].key.msg = rs[i].key.msg
      PROVE  Resolved(rs, j)
  <2>1. rs[j].key \in Keys /\ rs[i].key \in Keys
    BY <1>1, <1>2, <1>3, RowFields DEF Original
  <2>2. rs[j].key.recovery
    <3> SUFFICES ASSUME ~rs[j].key.recovery PROVE FALSE
      OBVIOUS
    <3>1. Original(rs, j)
      BY <1>3 DEF Original
    <3> QED
      BY <1>1, <1>2, <1>3, <3>1, OneOriginal DEF Letters
  <2>3. rs[j].key = rs[r].key
    BY <1>3, <2>1, <2>2 DEF Replaced, ResyncKey, Keys
  <2>4. j = r
    BY <1>1, <1>3, <2>3 DEF Letters, OneRow, Replaced
  <2> QED
    BY <2>4 DEF Resolved
<1> QED
  BY <1>1, <1>2, <1>3 DEF Answered


(* What a new message waits for.                                           *)
Place(rs, row) ==
    IF row.pred = NoId \/ Resolved(rs, row.pred) THEN {}
    ELSE {<<row.key.msg, rs[row.pred].key.msg>>}

(* A message enters the outbox.                                            *)
LEMMA InsertedOutbox ==
    ASSUME NEW rs \in Table, Streams(rs), Letters(rs), NEW qs, NEW n, NEW row \in Row,
           Inserted(rs, qs, n, row), NEW m \in Messages, row.key = UploadKey(m)
    PROVE  /\ m \notin QueuedIn(rs) /\ m \notin DeliveredIn(rs)
           /\ QueuedIn(qs) = QueuedIn(rs) \cup {m}
           /\ DeliveredIn(qs) = DeliveredIn(rs)
           /\ BehindIn(qs) = BehindIn(rs) \cup Place(rs, row)
<1>1. /\ n \in Ids /\ qs[n] = row /\ ~Live(rs, n) /\ Live(qs, n) /\ ~Resolved(qs, n)
      /\ \A i \in Ids : i # n =>
             /\ qs[i] = rs[i] /\ rs[i].pred # n
             /\ Live(qs, i) <=> Live(rs, i)
             /\ Resolved(qs, i) <=> Resolved(rs, i)
             /\ PredecessorResolved(qs, i) <=> PredecessorResolved(rs, i)
  BY InsertedRest DEF Inserted
<1>2. \A i \in Ids : rs[i].pred \in Ids \cup {NoId}
  BY RowFields
<1>3. row.key.msg = m /\ ~row.key.recovery
  BY DEF UploadKey
<1>4. ~Original(rs, n) /\ Original(qs, n)
  BY <1>1, <1>3 DEF Original
<1>5. \A i \in Ids : i # n => (Original(qs, i) <=> Original(rs, i))
  BY <1>1 DEF Original
<1>6. \A i \in Ids : Original(rs, i) => rs[i].key.msg # m
  <2> SUFFICES ASSUME NEW i \in Ids, Original(rs, i), rs[i].key.msg = m PROVE FALSE
    OBVIOUS
  <2>1. rs[i].key \in Keys /\ ~rs[i].key.recovery /\ Live(rs, i)
    BY RowFields DEF Original
  <2>2. rs[i].key = UploadKey(m)
    BY <2>1 DEF Keys, UploadKey
  <2> QED
    BY <2>1, <2>2 DEF Inserted
<1>7. m \notin QueuedIn(rs) /\ m \notin DeliveredIn(rs)
  BY <1>6, InQueued, InDelivered DEF Undelivered
<1>8. \A i \in Ids : Undelivered(qs, i) <=> i = n \/ Undelivered(rs, i)
  BY <1>1, <1>4, <1>5 DEF Undelivered
<1>9. ASSUME NEW x PROVE x \in QueuedIn(qs) <=> x \in QueuedIn(rs) \cup {m}
  BY <1>1, <1>3, <1>4, <1>8, InQueued DEF Undelivered
<1>10. ASSUME NEW x PROVE x \in DeliveredIn(qs) <=> x \in DeliveredIn(rs)
  BY <1>1, <1>4, <1>5, InDelivered
<1>11. row.pred # NoId => row.pred \in Ids /\ row.pred # n
  BY <1>1 DEF Inserted
<1>12. Waiting(qs, n) <=> ~(row.pred = NoId \/ Resolved(rs, row.pred))
  BY <1>1, <1>4, <1>11 DEF Waiting, PredecessorResolved
<1>13. \A i \in Ids : i # n => (Waiting(qs, i) <=> Waiting(rs, i))
  BY <1>1, <1>5 DEF Waiting
<1>14. \A i \in Ids : Waiting(rs, i) =>
           <<qs[i].key.msg, qs[qs[i].pred].key.msg>> = <<rs[i].key.msg, rs[rs[i].pred].key.msg>>
  BY <1>1, <1>2, <1>4 DEF Waiting, PredecessorResolved
<1>15. Waiting(qs, n) =>
           <<qs[n].key.msg, qs[qs[n].pred].key.msg>> = <<row.key.msg, rs[row.pred].key.msg>>
  BY <1>1, <1>11, <1>12
<1>16. ~Waiting(rs, n)
  BY <1>4 DEF Waiting
<1>17. ASSUME NEW p PROVE p \in BehindIn(qs) <=> p \in BehindIn(rs) \cup Place(rs, row)
  <2>1. p \in Place(rs, row) <=>
            Waiting(qs, n) /\ p = <<qs[n].key.msg, qs[qs[n].pred].key.msg>>
    BY <1>12, <1>15 DEF Place
  <2>2. p \in BehindIn(rs) <=>
            \E i \in Ids : /\ i # n /\ Waiting(qs, i)
                           /\ p = <<qs[i].key.msg, qs[qs[i].pred].key.msg>>
    BY <1>13, <1>14, <1>16, InBehind
  <2> QED
    BY <1>1, <2>1, <2>2, InBehind
<1> QED
  BY <1>7, <1>9, <1>10, <1>17

(* It waits for nothing or for a queued message of its stream.             *)
LEMMA PlaceAllowed ==
    ASSUME NEW rs \in Table, Streams(rs), Letters(rs), NEW qs, NEW n, NEW row \in Row,
           Inserted(rs, qs, n, row), NEW m \in Messages, row.key = UploadKey(m)
    PROVE  \/ Place(rs, row) = {}
           \/ \E x \in QueuedIn(rs) : /\ CausalGroup(x) = CausalGroup(m)
                                      /\ CausalGroup(m) # None
                                      /\ Place(rs, row) = {<<m, x>>}
<1>1. row.key.msg = m
  BY DEF UploadKey
<1>2. CASE row.pred = NoId \/ Resolved(rs, row.pred)
  BY <1>2 DEF Place
<1>3. CASE row.pred # NoId /\ ~Resolved(rs, row.pred)
  <2>1. PICK p \in Ids : p = row.pred
    BY <1>3 DEF Inserted
  <2>2. /\ Live(rs, p) /\ row.group # None /\ rs[p].group = row.group
        /\ row.group = CausalGroup(m)
    BY <1>1, <1>3, <2>1 DEF Inserted
  <2>3. rs[p].key.msg \in QueuedIn(rs)
    BY <1>3, <2>1, <2>2, UnresolvedQueued
  <2>4. CausalGroup(rs[p].key.msg) = CausalGroup(m)
    BY <2>2 DEF Letters, InStream
  <2>5. Place(rs, row) = {<<m, rs[p].key.msg>>}
    BY <1>1, <1>3, <2>1 DEF Place
  <2> QED
    BY <2>2, <2>3, <2>4, <2>5
<1> QED
  BY <1>2, <1>3

LEMMA QueuedMessages ==
    ASSUME NEW rs \in Table
    PROVE  /\ QueuedIn(rs) \subseteq Messages /\ DeliveredIn(rs) \subseteq Messages
           /\ \A p \in BehindIn(rs) : p[1] \in QueuedIn(rs)
<1>1. \A i \in Ids : Original(rs, i) => rs[i].key.msg \in Messages
  BY RowFields DEF Original, Keys
<1>2. ASSUME NEW p \in BehindIn(rs) PROVE p[1] \in QueuedIn(rs)
  BY BehindPair, InQueued DEF Waiting, Undelivered
<1> QED
  BY <1>1, <1>2, InQueued, InDelivered DEF Undelivered


-----------------------------------------------------------------------------
(* The steps of the outbox                                                 *)

LEMMA NextOutbox ==
    /\ QueuedIn(rows)' = QueuedIn(rows')
    /\ DeliveredIn(rows)' = DeliveredIn(rows')
    /\ BehindIn(rows)' = BehindIn(rows')
    /\ Committed' = {k.msg : k \in accepted'}
BY DEF QueuedIn, DeliveredIn, BehindIn, Original, Waiting, Live, Resolved, PredecessorResolved,
   Committed

(* No message is queued or delivered; delivered ones may be forgotten.     *)
Silent(rs, qs) ==
    /\ QueuedIn(qs) = QueuedIn(rs) /\ BehindIn(qs) = BehindIn(rs)
    /\ DeliveredIn(qs) \subseteq DeliveredIn(rs)

LEMMA SilentStep ==
    ASSUME Silent(rows, rows'), accepted' = accepted
    PROVE  Outbox!OutboxNext
<1>1. QueuedIn(rows)' = QueuedIn(rows) /\ BehindIn(rows)' = BehindIn(rows)
  BY NextOutbox DEF Silent
<1>2. DeliveredIn(rows)' \subseteq DeliveredIn(rows)
  BY NextOutbox DEF Silent
<1>3. Committed' = Committed
  BY NextOutbox DEF Committed
<1>4. Outbox!Forget
  BY <1>1, <1>2, <1>3 DEF Outbox!Forget
<1> QED
  BY <1>4 DEF Outbox!OutboxNext

LEMMA DeliverStep ==
    ASSUME TypeInv, Streams(rows), Letters(rows), NEW m \in Committed,
           Answered(rows, rows', m), accepted' = accepted
    PROVE  Outbox!OutboxNext
<1>1. rows \in Table
  BY DEF TypeInv
<1>2. /\ m \in QueuedIn(rows) /\ \A p \in BehindIn(rows) : p[1] # m
      /\ QueuedIn(rows') = QueuedIn(rows) \ {m}
      /\ DeliveredIn(rows') = DeliveredIn(rows) \cup {m}
      /\ BehindIn(rows') = {p \in BehindIn(rows) : p[2] # m}
  BY <1>1, AnsweredOutbox
<1>3. Committed' = Committed
  BY NextOutbox DEF Committed
<1>4. ~Outbox!Waits(m)
  BY <1>2 DEF Outbox!Waits
<1>5. Outbox!Deliver(m)
  BY <1>2, <1>3, <1>4, NextOutbox DEF Outbox!Deliver
<1> QED
  BY <1>2, <1>5 DEF Outbox!OutboxNext

(* A row whose turn it is carries a queued message that waits for none.    *)
LEMMA TurnOfMessage ==
    ASSUME NEW rs \in Table, Streams(rs), Letters(rs), NEW i \in Ids,
           Live(rs, i), ~Resolved(rs, i), PredecessorResolved(rs, i)
    PROVE  /\ rs[i].key.msg \in QueuedIn(rs)
           /\ \A p \in BehindIn(rs) : p[1] # rs[i].key.msg
<1>1. PICK o \in Ids : /\ Undelivered(rs, o) /\ PredecessorResolved(rs, o)
                       /\ rs[o].key.msg = rs[i].key.msg
  BY OriginalInTurn
<1>2. rs[i].key.msg \in QueuedIn(rs)
  BY <1>1, InQueued
<1>3. ASSUME NEW p \in BehindIn(rs), p[1] = rs[i].key.msg PROVE FALSE
  <2>1. PICK j \in Ids : Waiting(rs, j) /\ p[1] = rs[j].key.msg
    BY BehindPair
  <2>2. Original(rs, j) /\ Original(rs, o) /\ rs[j].key.msg = rs[o].key.msg
    BY <1>1, <1>3, <2>1 DEF Waiting, Undelivered
  <2>3. j = o
    BY <2>2, OneOriginal DEF Letters
  <2> QED
    BY <1>1, <2>1, <2>3 DEF Waiting
<1> QED
  BY <1>2, <1>3

LEMMA RequestStep ==
    ASSUME OutboxInv, NEW w \in Workers, NEW a \in Answers, Request(w, a)
    PROVE  [Outbox!OutboxNext]_(Outbox!outboxVars)
<1>1. TypeInv /\ Streams(rows) /\ LeaseInv /\ Letters(rows) /\ InTurn /\ rows \in Table
  BY DEF OutboxInv, TypeInv
<1>2. PICK i \in Ids, k \in Keys : i = worker[w].id /\ k = worker[w].key
  BY <1>1 DEF TypeInv, Hands, Request
<1>3. worker[w].phase # "idle" /\ rows' = rows /\ accepted' \in {accepted, accepted \cup {k}}
  BY <1>2 DEF Request
<1>4. /\ QueuedIn(rows)' = QueuedIn(rows) /\ DeliveredIn(rows)' = DeliveredIn(rows)
      /\ BehindIn(rows)' = BehindIn(rows)
  BY <1>3, NextOutbox
<1>5. Committed' \in {Committed, Committed \cup {k.msg}}
  <2>1. CASE accepted' = accepted
    BY <2>1, NextOutbox DEF Committed
  <2>2. CASE accepted' = accepted \cup {k}
    BY <2>2, NextOutbox DEF Committed
  <2> QED
    BY <1>3, <2>1, <2>2
<1>6. CASE Committed' = Committed
  BY <1>4, <1>6 DEF Outbox!outboxVars
<1>7. CASE k.msg \notin Committed /\ Committed' = Committed \cup {k.msg}
  <2>1. Live(rows, i) /\ PredecessorResolved(rows, i)
    BY <1>1, <1>2, <1>3, <1>7 DEF InTurn, MayBeSent
  <2>2. rows[i].key = k
    BY <1>1, <1>2, <1>3, <2>1 DEF LeaseInv
  <2>3. ~Resolved(rows, i)
    BY <1>1, <1>7, <2>2, ResolvedCommitted
  <2>4. k.msg \in QueuedIn(rows) /\ \A p \in BehindIn(rows) : p[1] # k.msg
    BY <1>1, <2>1, <2>2, <2>3, TurnOfMessage
  <2>5. Outbox!Commit(k.msg)
    BY <1>4, <1>7, <2>4 DEF Outbox!Commit, Outbox!Waits
  <2> QED
    BY <2>4, <2>5 DEF Outbox!OutboxNext
<1> QED
  BY <1>5, <1>6, <1>7

LEMMA SettleStep ==
    ASSUME OutboxInv, NEW w \in Workers, Settle(w)
    PROVE  Outbox!OutboxNext
<1>1. TypeInv /\ Streams(rows) /\ LeaseInv /\ Letters(rows) /\ rows \in Table
  BY DEF OutboxInv, TypeInv
<1>2. accepted' = accepted
  BY DEF Settle
<1>3. PICK i : i = worker[w].id
  OBVIOUS
<1>4. CASE rows' = rows
  <2>1. Silent(rows, rows')
    BY <1>4 DEF Silent
  <2> QED
    BY <1>2, <2>1, SilentStep
<1>5. CASE i \in Ids /\ worker[w].phase = "answered" /\ rows[i].status = "IN_FLIGHT"
  <2>1. CASE /\ Moved(rows, rows')
             /\ \A j \in Ids : rows'[j].status = "SUCCEEDED" => rows[j].status = "SUCCEEDED"
    <3>1. Silent(rows, rows')
      BY <1>1, <2>1, MovedQuiet, QuietOutbox DEF Silent
    <3> QED
      BY <1>2, <3>1, SilentStep
  <2>2. CASE /\ worker[w].answer = "ok"
             /\ Moved(rows, rows')
             /\ \A j \in Ids : j # i => rows'[j] = rows[j]
             /\ rows'[i].status = "SUCCEEDED"
    <3>1. Answered(rows, rows', rows[i].key.msg)
      BY <1>1, <1>5, <2>2, SucceededAnswers
    <3>2. rows[i].key \in accepted
      BY <1>1, <1>3, <1>5, <2>2 DEF LeaseInv, Live
    <3>3. rows[i].key.msg \in Committed
      BY <3>2 DEF Committed
    <3> QED
      BY <1>1, <1>2, <3>1, <3>3, DeliverStep
  <2>3. CASE CanResync(rows, i) /\ rows' \in ScheduleFullResync(rows, i)
    <3>1. PICK rs \in Table, r \in Ids :
              /\ Streams(rs) /\ Replaced(rs, rows', i, r)
              /\ \/ rs = rows
                 \/ \E row : Inserted(rows, rs, r, row) /\ row.key = ResyncKey(rows, i)
      BY <1>1, <1>5, <2>3, ResyncReplaces
    <3>2. CASE rs = rows /\ rows[r].status = "SUCCEEDED"
      <4>1. Answered(rows, rows', rows[i].key.msg)
        BY <1>1, <3>1, <3>2, ReplacedAnswers
      <4>2. rows[r].key \in accepted /\ rows[r].key.msg = rows[i].key.msg
        BY <1>1, <3>1, <3>2 DEF LeaseInv, Replaced, ResyncKey
      <4>3. rows[i].key.msg \in Committed
        BY <4>2 DEF Committed
      <4> QED
        BY <1>1, <1>2, <4>1, <4>3, DeliverStep
    <3>3. CASE rs = rows /\ rows[r].status # "SUCCEEDED"
      <4>1. Silent(rows, rows')
        BY <1>1, <3>1, <3>3, ReplacedQuiet, QuietOutbox DEF Silent
      <4> QED
        BY <1>2, <4>1, SilentStep
    <3>4. ASSUME NEW row, Inserted(rows, rs, r, row), row.key = ResyncKey(rows, i)
          PROVE  Outbox!OutboxNext
      <4>1. row.key.recovery /\ rs[r].status # "SUCCEEDED"
        BY <3>4 DEF ResyncKey, Inserted
      <4>2. Silent(rows, rs)
        BY <1>1, <3>4, <4>1, ResyncRowQuiet, QuietOutbox DEF Silent
      <4>3. Silent(rs, rows')
        BY <3>1, <4>1, ReplacedQuiet, QuietOutbox DEF Silent
      <4>4. Silent(rows, rows')
        BY <4>2, <4>3 DEF Silent
      <4> QED
        BY <1>2, <4>4, SilentStep
    <3> QED
      BY <3>1, <3>2, <3>3, <3>4
  <2> QED
    BY <1>1, <1>3, <1>4, <2>1, <2>2, <2>3, SettleMoves
<1> QED
  BY <1>1, <1>3, <1>4, <1>5, SettleMoves

(* One message joins the outbox.                                           *)
LEMMA QueueStep ==
    ASSUME TypeInv, Streams(rows), Letters(rows), NEW n, NEW row \in Row,
           Inserted(rows, rows', n, row), NEW m \in Messages, row.key = UploadKey(m),
           accepted' = accepted
    PROVE  Outbox!OutboxNext
<1>1. rows \in Table
  BY DEF TypeInv
<1>2. /\ m \notin QueuedIn(rows) /\ m \notin DeliveredIn(rows)
      /\ QueuedIn(rows') = QueuedIn(rows) \cup {m}
      /\ DeliveredIn(rows') = DeliveredIn(rows)
      /\ BehindIn(rows') = BehindIn(rows) \cup Place(rows, row)
  BY <1>1, InsertedOutbox
<1>3. Place(rows, row) \in Outbox!Places(m)
  BY <1>1, PlaceAllowed, QueuedMessages DEF Outbox!Places
<1>4. Committed' = Committed
  BY NextOutbox DEF Committed
<1>5. Outbox!Queue(m)
  BY <1>2, <1>3, <1>4, NextOutbox DEF Outbox!Queue
<1>6. m \in Outbox!Absent
  BY <1>2 DEF Outbox!Absent
<1> QED
  BY <1>5, <1>6 DEF Outbox!OutboxNext

(* The row inserted behind a new row is linked to it: it is the tail.      *)
LEMMA NewRowIsTail ==
    ASSUME NEW rs \in Table, Streams(rs), NEW qs, NEW n, NEW row, Inserted(rs, qs, n, row),
           row.group # None, NEW p \in StreamTail(qs, row.group)
    PROVE  p = n
<1>1. /\ n \in Ids /\ rs[n].status = "FREE" /\ Live(qs, n) /\ qs[n].group = row.group
      /\ \A i \in Ids : i # n => qs[i] = rs[i]
  BY InsertedRest DEF Inserted
<1>2. p \in Ids /\ Live(qs, p) /\ n <= p
  BY <1>1 DEF StreamTail
<1>3. ASSUME p # n PROVE FALSE
  <2>1. n < p
    BY <1>1, <1>2, <1>3, NoIdIsNoRow
  <2>2. rs[p].status = "FREE"
    BY <1>1, <1>2, <2>1 DEF Streams, FreeAbove
  <2> QED
    BY <1>1, <1>2, <1>3, <2>2 DEF Live
<1> QED
  BY <1>3

(* A scan's result and, behind it, its status join the outbox.             *)
LEMMA QueueBothStep ==
    ASSUME TypeInv, Streams(rows), Letters(rows), NEW rs \in Table, Streams(rs), Letters(rs),
           NEW a \in Messages, NEW b \in Messages,
           CausalGroup(a) # None, CausalGroup(b) = CausalGroup(a),
           NEW i, NEW row \in Row, Inserted(rows, rs, i, row), row.key = UploadKey(a),
           NEW j, NEW new \in Row, Inserted(rs, rows', j, new), new.key = UploadKey(b),
           new.pred \in StreamTail(rs, CausalGroup(b)), accepted' = accepted
    PROVE  Outbox!OutboxNext
<1>1. rows \in Table /\ row.key.msg = a /\ new.key.msg = b
  BY DEF TypeInv, UploadKey
<1>2. /\ a \notin QueuedIn(rows) /\ a \notin DeliveredIn(rows)
      /\ QueuedIn(rs) = QueuedIn(rows) \cup {a}
      /\ DeliveredIn(rs) = DeliveredIn(rows)
      /\ BehindIn(rs) = BehindIn(rows) \cup Place(rows, row)
  BY <1>1, InsertedOutbox
<1>3. /\ b \notin QueuedIn(rs) /\ b \notin DeliveredIn(rs)
      /\ QueuedIn(rows') = QueuedIn(rs) \cup {b}
      /\ DeliveredIn(rows') = DeliveredIn(rs)
      /\ BehindIn(rows') = BehindIn(rs) \cup Place(rs, new)
  BY InsertedOutbox
<1>4. row.group = CausalGroup(a)
  BY <1>1 DEF Inserted
<1>5. new.pred = i
  BY <1>1, <1>4, NewRowIsTail
<1>6. i \in Ids /\ rs[i] = row /\ ~Resolved(rs, i)
  BY <1>1, InsertedRest DEF Inserted
<1>7. Place(rs, new) = {<<b, a>>}
  BY <1>1, <1>5, <1>6, NoIdIsNoRow DEF Place
<1>8. Place(rows, row) \in Outbox!Places(a)
  BY <1>1, PlaceAllowed, QueuedMessages DEF Outbox!Places
<1>9. Committed' = Committed
  BY NextOutbox DEF Committed
<1>10. a # b /\ a \in Outbox!Absent /\ b \in Outbox!Absent
  BY <1>2, <1>3 DEF Outbox!Absent
<1>11. /\ QueuedIn(rows)' = QueuedIn(rows) \cup {a, b}
       /\ DeliveredIn(rows)' = DeliveredIn(rows)
       /\ BehindIn(rows)' = BehindIn(rows) \cup Place(rows, row) \cup {<<b, a>>}
  BY <1>2, <1>3, <1>7, NextOutbox
<1>12. Outbox!QueueBoth(a, b)
  BY <1>8, <1>9, <1>10, <1>11 DEF Outbox!QueueBoth
<1> QED
  BY <1>10, <1>12 DEF Outbox!OutboxNext

LEMMA ScanStep ==
    ASSUME OutboxInv, NEW s \in Scans,
           CompleteScan(s) \/ ReconcileScan(s) \/ FailScan(s) \/ RejectJob(s) \/ PruneScan(s)
    PROVE  Outbox!OutboxNext
<1>1. TypeInv /\ Streams(rows) /\ Letters(rows) /\ rows \in Table
  BY DEF OutboxInv, TypeInv
<1>2. accepted' = accepted
  BY DEF CompleteScan, ReconcileScan, FailScan, RejectJob, PruneScan
<1>3. \A kind \in {"result", "status", "failed", "rejection"} :
          [scan |-> s, kind |-> kind] \in Messages
  BY DEF Messages, Kinds
<1>4. CASE rows' = rows
  <2>1. Silent(rows, rows')
    BY <1>4 DEF Silent
  <2> QED
    BY <1>2, <2>1, SilentStep
<1>5. ASSUME NEW m \in Messages, rows' \in EnqueueUpload(rows, m) PROVE Outbox!OutboxNext
  <2>1. ASSUME NEW n, NEW row \in Row, row.key = UploadKey(m), Inserted(rows, rows', n, row)
        PROVE  Outbox!OutboxNext
    BY <1>1, <1>2, <2>1, QueueStep
  <2> QED
    BY <1>1, <1>4, <1>5, <2>1, EnqueueInserts
<1>6. CASE CompleteScan(s) \/ ReconcileScan(s)
  <2>1. PICK a, b : a = [scan |-> s, kind |-> "result"] /\ b = [scan |-> s, kind |-> "status"]
    OBVIOUS
  <2>2. /\ a \in Messages /\ b \in Messages /\ CausalGroup(a) # None
        /\ CausalGroup(b) = CausalGroup(a)
    BY <1>3, <2>1, ConstantsAssumption DEF CausalGroup, CausalKinds
  <2>3. PICK rs \in EnqueueUpload(rows, a) : rows' \in EnqueueUpload(rs, b)
    BY <1>6, <2>1 DEF CompleteScan, ReconcileScan
  <2>4. rs \in Table /\ Streams(rs) /\ Letters(rs)
    BY <1>1, <2>2, <2>3, EnqueueSound, EnqueueStreams, EnqueueLetters
  <2>5. CASE rs = rows
    BY <1>5, <2>2, <2>3, <2>5
  <2>6. ASSUME NEW i, NEW row \in Row, row.key = UploadKey(a), Inserted(rows, rs, i, row)
        PROVE  Outbox!OutboxNext
    <3>1. CASE rows' = rs
      BY <1>1, <1>2, <2>2, <2>6, <3>1, QueueStep
    <3>2. ASSUME NEW p \in StreamTail(rs, CausalGroup(b)), NEW j, NEW new \in Row,
                 new.pred = p, new.key = UploadKey(b), Inserted(rs, rows', j, new)
          PROVE  Outbox!OutboxNext
      BY <1>1, <1>2, <2>2, <2>4, <2>6, <3>2, QueueBothStep
    <3> QED
      BY <1>1, <2>2, <2>3, <2>4, <3>1, <3>2, EnqueueInserts
  <2> QED
    BY <1>1, <2>2, <2>3, <2>5, <2>6, EnqueueInserts
<1>7. CASE FailScan(s) \/ RejectJob(s)
  BY <1>3, <1>5, <1>7 DEF FailScan, RejectJob
<1>8. CASE PruneScan(s)
  BY <1>4, <1>8 DEF PruneScan
<1> QED
  BY <1>6, <1>7, <1>8

LEMMA OutboxStep ==
    ASSUME OutboxInv, [Next]_vars
    PROVE  [Outbox!OutboxNext]_(Outbox!outboxVars)
<1>1. TypeInv /\ Streams(rows) /\ Letters(rows) /\ rows \in Table
  BY DEF OutboxInv, TypeInv
<1>2. CASE rows' = rows /\ accepted' = accepted
  <2>1. Silent(rows, rows')
    BY <1>2 DEF Silent
  <2> QED
    BY <1>2, <2>1, SilentStep
<1>3. ASSUME accepted' = accepted, Quiet(rows, rows') PROVE Outbox!OutboxNext
  <2>1. Silent(rows, rows')
    BY <1>3, QuietOutbox DEF Silent
  <2> QED
    BY <1>3, <2>1, SilentStep
<1>4. ASSUME NEW s \in Scans,
             CompleteScan(s) \/ ReconcileScan(s) \/ FailScan(s) \/ RejectJob(s) \/ PruneScan(s)
      PROVE  Outbox!OutboxNext
  BY <1>4, ScanStep
<1>5. ASSUME NEW w \in Workers, Claim(w) PROVE Outbox!OutboxNext
  <2>1. PICK rs \in Table :
            /\ Streams(rs) /\ Moved(rows, rs) /\ Moved(rs, rows')
            /\ \A i \in Ids : rs[i].status = "SUCCEEDED" => rows[i].status = "SUCCEEDED"
            /\ \A i \in Ids : rows'[i].status = "SUCCEEDED" => rs[i].status = "SUCCEEDED"
    BY <1>1, <1>5, ClaimMoves
  <2>2. Silent(rows, rs) /\ Silent(rs, rows')
    BY <1>1, <2>1, MovedQuiet, QuietOutbox DEF Silent
  <2>3. Silent(rows, rows') /\ accepted' = accepted
    BY <1>5, <2>2 DEF Silent, Claim
  <2> QED
    BY <2>3, SilentStep
<1>6. ASSUME NEW i \in Ids, NEW n \in RetryLimits, Requeue(i, n) PROVE Outbox!OutboxNext
  <2>1. rows[i].status = "DEAD" /\ rows[i].superseder = NoId /\ n \in Nat /\ rows[i] \in Row
    BY <1>1, <1>6, RowFields, ConstantsAssumption DEF Requeue
  <2>2. MovedRow(rows, i, Requeued(rows[i], n))
    BY <1>1, <2>1, UpdatesMoveRow
  <2>3. /\ Moved(rows, rows') /\ accepted' = accepted
        /\ rows'[i] = Requeued(rows[i], n) /\ \A j \in Ids : j # i => rows'[j] = rows[j]
    BY <1>1, <1>6, <2>2, MovedOneRow DEF Requeue, Table
  <2>4. rows'[i].status # "SUCCEEDED"
    BY <2>1, <2>3 DEF Requeued, Retry, Unleased, Row
  <2>5. Quiet(rows, rows')
    BY <1>1, <2>3, <2>4, MovedQuiet
  <2> QED
    BY <1>3, <2>3, <2>5
<1>7. ASSUME NEW old \in SUBSET Ids, NEW n \in PurgeLimits, Purge(old, n)
      PROVE  Outbox!OutboxNext
  <2>1. PICK D : Removed(rows, rows', D)
    BY <1>1, <1>7, PurgeRemoves
  <2>2. Quiet(rows, rows') /\ accepted' = accepted
    BY <1>1, <1>7, <2>1, RemovedQuiet DEF Purge
  <2> QED
    BY <1>3, <2>2
<1>8. ASSUME NEW w \in Workers, Crash(w) PROVE rows' = rows /\ accepted' = accepted
  BY <1>8 DEF Crash
<1> QED
  BY <1>2, <1>4, <1>5, <1>6, <1>7, <1>8, RequestStep, SettleStep DEF Next, Deliver, Tick, vars

(* The table, the transactions, the workers and the cloud's answers        *)
(* implement DurableOutbox: whatever crashes, expired leases, late         *)
(* requests, resyncs, requeues and purges do, a queued message stays       *)
(* queued until the cloud has it, no request gives the cloud a message     *)
(* before the one it was queued behind, and only delivered messages are    *)
(* forgotten.                                                              *)
THEOREM OutboxImplemented == Spec => ImplementsOutbox
<1>1. Init => Outbox!OutboxInit
  <2> SUFFICES ASSUME Init PROVE Outbox!OutboxInit
    OBVIOUS
  <2>1. \A i \in Ids : ~Original(rows, i)
    BY DEF Init, NoRow, Original, Live
  <2>2. QueuedIn(rows) = {} /\ DeliveredIn(rows) = {} /\ BehindIn(rows) = {}
    BY <2>1 DEF QueuedIn, DeliveredIn, BehindIn, Waiting
  <2>3. Committed = {}
    BY DEF Init, Committed
  <2> QED
    BY <2>2, <2>3 DEF Outbox!OutboxInit
<1>2. OutboxInv /\ [Next]_vars => [Outbox!OutboxNext]_(Outbox!outboxVars)
  BY OutboxStep
<1> QED
  BY <1>1, <1>2, OutboxInvariance, PTL DEF Spec, ImplementsOutbox, Outbox!OutboxSpec

-----------------------------------------------------------------------------
(* Evidence before its status                                              *)

ResultOf(s) == [scan |-> s, kind |-> "result"]
StatusOf(s) == [scan |-> s, kind |-> "status"]

(* The cloud refuses the status of a scan whose evidence it does not have  *)
(* (validate_scan_status): it is never sent one too early.                 *)
StatusAfterEvidence ==
    \A s \in Scans : StatusOf(s) \in Committed => ResultOf(s) \in Committed

(* While the cloud has no evidence of the scan, its status is in the       *)
(* outbox if its result is, and linked behind it.  Only results are ever   *)
(* resynchronised, so the status has no second row.                        *)
OnlyResultsAgain(rs) ==
    \A i \in Ids : Live(rs, i) /\ rs[i].key.recovery => rs[i].key.msg.kind = "result"
BehindResult(rs, s) ==
    \A j \in Ids :
        Live(rs, j) /\ rs[j].key = UploadKey(StatusOf(s)) =>
            rs[j].pred # NoId /\ rs[rs[j].pred].key = UploadKey(ResultOf(s))
WithStatus(rs, s) ==
    \A i \in Ids :
        Live(rs, i) /\ rs[i].key = UploadKey(ResultOf(s)) =>
            \E j \in Ids : Live(rs, j) /\ rs[j].key = UploadKey(StatusOf(s))

Paired(rs, s) == BehindResult(rs, s) /\ WithStatus(rs, s)

EvidenceFirst ==
    /\ OnlyResultsAgain(rows)
    /\ \A s \in Scans :
          ResultOf(s) \notin Committed => StatusOf(s) \notin Committed /\ Paired(rows, s)

LEMMA OtherMessages ==
    ASSUME NEW s \in Scans
    PROVE  /\ ResultOf(s) \in Messages /\ StatusOf(s) \in Messages
           /\ \A t \in Scans : /\ ResultOf(s) # StatusOf(t)
                               /\ t # s => ResultOf(s) # ResultOf(t) /\ StatusOf(s) # StatusOf(t)
           /\ ResultOf(s).kind = "result" /\ StatusOf(s).kind = "status"
           /\ CausalGroup(ResultOf(s)) # None /\ CausalGroup(StatusOf(s)) = CausalGroup(ResultOf(s))
<1>1. /\ ResultOf(s) \in Messages /\ StatusOf(s) \in Messages
      /\ ResultOf(s).kind = "result" /\ StatusOf(s).kind = "status"
      /\ ResultOf(s).scan = s /\ StatusOf(s).scan = s
  BY DEF ResultOf, StatusOf, Messages, Kinds
<1>2. \A t \in Scans : /\ ResultOf(t).kind = "result" /\ StatusOf(t).kind = "status"
                       /\ ResultOf(t).scan = t /\ StatusOf(t).scan = t
  BY DEF ResultOf, StatusOf
<1>3. CausalGroup(ResultOf(s)) = EndpointOf[s] /\ CausalGroup(StatusOf(s)) = EndpointOf[s]
  BY <1>1 DEF CausalGroup, CausalKinds
<1> QED
  BY <1>1, <1>2, <1>3, ConstantsAssumption

(* Rows that keep their keys and links keep their pairs.                   *)
SameRows(rs, qs) ==
    \A i \in Ids : /\ qs[i].key = rs[i].key /\ qs[i].pred = rs[i].pred
                   /\ Live(qs, i) <=> Live(rs, i)

LEMMA SameRowsPaired ==
    ASSUME NEW rs \in Table, NEW qs, SameRows(rs, qs)
    PROVE  /\ OnlyResultsAgain(rs) => OnlyResultsAgain(qs)
           /\ \A s \in Scans : Paired(rs, s) => Paired(qs, s)
<1>1. \A i \in Ids : rs[i].pred \in Ids \cup {NoId}
  BY RowFields
<1>2. ASSUME NEW s \in Scans, Paired(rs, s) PROVE BehindResult(qs, s)
  BY <1>1, <1>2 DEF SameRows, Paired, BehindResult
<1>3. ASSUME NEW s \in Scans, Paired(rs, s) PROVE WithStatus(qs, s)
  BY <1>3 DEF SameRows, Paired, WithStatus
<1>4. OnlyResultsAgain(rs) => OnlyResultsAgain(qs)
  BY DEF SameRows, OnlyResultsAgain
<1> QED
  BY <1>2, <1>3, <1>4 DEF Paired

(* A row of another key does not come between a result and its status.     *)
LEMMA InsertedPaired ==
    ASSUME NEW rs \in Table, Streams(rs), NEW qs, NEW n, NEW row, Inserted(rs, qs, n, row)
    PROVE  /\ OnlyResultsAgain(rs) /\ (row.key.recovery => row.key.msg.kind = "result") =>
                  OnlyResultsAgain(qs)
           /\ \A s \in Scans :
                 /\ row.key # UploadKey(ResultOf(s)) /\ row.key # UploadKey(StatusOf(s))
                 /\ Paired(rs, s)
                 => Paired(qs, s)
<1>1. /\ n \in Ids /\ qs[n] = row /\ ~Live(rs, n) /\ Live(qs, n)
      /\ \A i \in Ids : i # n => /\ qs[i] = rs[i] /\ rs[i].pred # n
                                 /\ Live(qs, i) <=> Live(rs, i)
  BY InsertedRest DEF Inserted
<1>2. \A i \in Ids : rs[i].pred \in Ids \cup {NoId}
  BY RowFields
<1>3. ASSUME NEW s \in Scans, row.key # UploadKey(ResultOf(s)),
             row.key # UploadKey(StatusOf(s)), Paired(rs, s)
      PROVE  Paired(qs, s)
  <2>1. BehindResult(qs, s)
    BY <1>1, <1>2, <1>3 DEF Paired, BehindResult
  <2>2. WithStatus(qs, s)
    BY <1>1, <1>3 DEF Paired, WithStatus
  <2> QED
    BY <2>1, <2>2 DEF Paired
<1>4. ASSUME OnlyResultsAgain(rs), row.key.recovery => row.key.msg.kind = "result"
      PROVE  OnlyResultsAgain(qs)
  BY <1>1, <1>4 DEF OnlyResultsAgain
<1> QED
  BY <1>3, <1>4

LEMMA EnqueuedPaired ==
    ASSUME TypeInv, NEW rs \in Table, Streams(rs), Letters(rs), NEW m \in Messages,
           NEW qs \in EnqueueUpload(rs, m)
    PROVE  /\ OnlyResultsAgain(rs) => OnlyResultsAgain(qs)
           /\ \A s \in Scans :
                 m # ResultOf(s) /\ m # StatusOf(s) /\ Paired(rs, s) => Paired(qs, s)
<1>1. CASE qs = rs
  BY <1>1
<1>2. ASSUME NEW n, NEW row, row.key = UploadKey(m), Inserted(rs, qs, n, row)
      PROVE  /\ OnlyResultsAgain(rs) => OnlyResultsAgain(qs)
             /\ \A s \in Scans :
                   m # ResultOf(s) /\ m # StatusOf(s) /\ Paired(rs, s) => Paired(qs, s)
  <2>1. ~row.key.recovery /\ row.key.msg = m
    BY <1>2 DEF UploadKey
  <2>2. \A x : x # m => row.key # UploadKey(x)
    BY <2>1 DEF UploadKey
  <2> QED
    BY <1>2, <2>1, <2>2, InsertedPaired
<1> QED
  BY <1>1, <1>2, EnqueueInserts

(* A scan's two uploads are queued together or not at all.                 *)
LEMMA BothPaired ==
    ASSUME TypeInv, NEW rs \in Table, Streams(rs), Letters(rs), NEW s \in Scans, Paired(rs, s),
           NEW ts \in EnqueueUpload(rs, ResultOf(s)), NEW qs \in EnqueueUpload(ts, StatusOf(s))
    PROVE  Paired(qs, s)
<1>1. PICK a \in Messages, b \in Messages :
          /\ a = ResultOf(s) /\ b = StatusOf(s) /\ UploadKey(a) # UploadKey(b)
          /\ CausalGroup(a) # None /\ CausalGroup(b) = CausalGroup(a)
  BY OtherMessages DEF UploadKey
<1>2. ts \in Table /\ Streams(ts) /\ Letters(ts)
  BY <1>1, EnqueueSound, EnqueueStreams, EnqueueLetters
<1>3. CASE WithKey(rs, UploadKey(a)) # {} /\ ts = rs
  <2>1. WithKey(ts, UploadKey(b)) # {}
    BY <1>1, <1>3 DEF Paired, WithStatus, WithKey
  <2>2. qs = ts
    BY <1>1, <2>1 DEF EnqueueUpload
  <2> QED
    BY <1>3, <2>2
<1>4. ASSUME WithKey(rs, UploadKey(a)) = {}, NEW n, NEW row, row.key = UploadKey(a),
             Inserted(rs, ts, n, row)
      PROVE  Paired(qs, s)
  <2>1. /\ n \in Ids /\ ts[n] = row /\ Live(ts, n)
        /\ \A i \in Ids : i # n => ts[i] = rs[i] /\ (Live(ts, i) <=> Live(rs, i))
    BY <1>4, InsertedRest DEF Inserted
  <2>2. \A j \in Ids : Live(rs, j) => rs[j].key # UploadKey(b)
    <3> SUFFICES ASSUME NEW j \in Ids, Live(rs, j), rs[j].key = UploadKey(b) PROVE FALSE
      OBVIOUS
    <3>1. rs[j].pred # NoId /\ rs[rs[j].pred].key = UploadKey(a)
      BY <1>1 DEF Paired, BehindResult
    <3>2. rs[j].pred \in Ids /\ Live(rs, rs[j].pred)
      BY <3>1, RowFields DEF Streams, LinkedBack
    <3> QED
      BY <1>4, <3>1, <3>2 DEF WithKey
  <2>3. \A j \in Ids : Live(ts, j) => ts[j].key # UploadKey(b)
    BY <1>1, <1>4, <2>1, <2>2
  <2>4. WithKey(ts, UploadKey(b)) = {}
    BY <2>3 DEF WithKey
  <2>5. PICK k \in NextId(ts), p \in StreamTail(ts, CausalGroup(b)), new \in Row :
            new.pred = p /\ new.key = UploadKey(b) /\ Inserted(ts, qs, k, new)
    BY <1>1, <1>2, <2>4, EnqueueInserts
  <2>6. row.group = CausalGroup(b)
    BY <1>1, <1>4 DEF Inserted, UploadKey
  <2>7. p = n
    BY <1>1, <1>4, <2>5, <2>6, NewRowIsTail
  <2>8. /\ k \in Ids /\ k # n /\ qs[k] = new /\ Live(qs, k) /\ qs[n] = row
        /\ \A i \in Ids : i # k => qs[i] = ts[i] /\ (Live(qs, i) <=> Live(ts, i))
    BY <1>2, <2>1, <2>5, InsertedRest DEF Inserted
  <2>9. BehindResult(qs, s)
    BY <1>1, <1>4, <2>1, <2>3, <2>5, <2>7, <2>8, NoIdIsNoRow DEF BehindResult
  <2>10. WithStatus(qs, s)
    BY <1>1, <2>5, <2>8 DEF WithStatus
  <2> QED
    BY <2>9, <2>10 DEF Paired
<1> QED
  BY <1>1, <1>3, <1>4, EnqueueInserts

LEMMA ScanPaired ==
    ASSUME TypeInv, Streams(rows), Letters(rows), OnlyResultsAgain(rows), NEW s \in Scans,
           CompleteScan(s) \/ ReconcileScan(s) \/ FailScan(s) \/ RejectJob(s) \/ PruneScan(s)
    PROVE  OnlyResultsAgain(rows') /\ \A u \in Scans : Paired(rows, u) => Paired(rows', u)
<1>1. rows \in Table
  BY DEF TypeInv
<1>2. CASE rows' = rows
  BY <1>2
<1>3. CASE CompleteScan(s) \/ ReconcileScan(s)
  <2>1. PICK ts \in EnqueueUpload(rows, ResultOf(s)) : rows' \in EnqueueUpload(ts, StatusOf(s))
    BY <1>3 DEF CompleteScan, ReconcileScan, ResultOf, StatusOf
  <2>2. ts \in Table /\ Streams(ts) /\ Letters(ts)
    BY <1>1, <2>1, OtherMessages, EnqueueSound, EnqueueStreams, EnqueueLetters
  <2>3. OnlyResultsAgain(rows')
    BY <1>1, <2>1, <2>2, OtherMessages, EnqueuedPaired
  <2>4. ASSUME NEW u \in Scans, u # s, Paired(rows, u) PROVE Paired(rows', u)
    <3>1. /\ ResultOf(s) # ResultOf(u) /\ ResultOf(s) # StatusOf(u)
          /\ StatusOf(s) # ResultOf(u) /\ StatusOf(s) # StatusOf(u)
      BY <2>4, OtherMessages
    <3>2. Paired(ts, u)
      BY <1>1, <2>1, <2>4, <3>1, OtherMessages, EnqueuedPaired
    <3> QED
      BY <2>1, <2>2, <3>1, <3>2, OtherMessages, EnqueuedPaired
  <2>5. Paired(rows, s) => Paired(rows', s)
    BY <1>1, <2>1, BothPaired
  <2> QED
    BY <2>3, <2>4, <2>5
<1>4. ASSUME NEW kind \in {"failed", "rejection"},
             rows' \in EnqueueUpload(rows, [scan |-> s, kind |-> kind])
      PROVE  OnlyResultsAgain(rows') /\ \A u \in Scans : Paired(rows, u) => Paired(rows', u)
  <2>1. PICK m \in Messages : m = [scan |-> s, kind |-> kind]
    BY DEF Messages, Kinds
  <2>2. \A u \in Scans : m # ResultOf(u) /\ m # StatusOf(u)
    BY <2>1 DEF ResultOf, StatusOf
  <2> QED
    BY <1>1, <1>4, <2>1, <2>2, EnqueuedPaired
<1> QED
  BY <1>2, <1>3, <1>4 DEF FailScan, RejectJob, PruneScan

(* Only delivered rows go, so no half of an undelivered pair does.         *)
LEMMA RemovedPaired ==
    ASSUME TypeInv, Streams(rows), LeaseInv, NEW qs, NEW D, Removed(rows, qs, D)
    PROVE  /\ OnlyResultsAgain(rows) => OnlyResultsAgain(qs)
           /\ \A s \in Scans :
                 /\ ResultOf(s) \notin Committed /\ StatusOf(s) \notin Committed
                 /\ Paired(rows, s)
                 => Paired(qs, s)
<1>0. rows \in Table
  BY DEF TypeInv
<1>1. /\ \A i \in D : ~Live(qs, i)
      /\ \A i \in Ids \ D :
             /\ qs[i].key = rows[i].key
             /\ Live(qs, i) <=> Live(rows, i)
             /\ qs[i].pred = rows[i].pred \/ (qs[i].pred = NoId /\ Resolved(rows, rows[i].pred))
             /\ qs[i].pred # NoId => qs[i].pred \in Ids \ D
  BY <1>0, RemovedRest
<1>2. \A i \in Ids : rows[i].pred \in Ids \cup {NoId}
  BY <1>0, RowFields
<1>3. \A i \in Ids : Resolved(rows, i) => rows[i].key.msg \in Committed
  BY ResolvedCommitted
<1>4. D \in SUBSET Ids /\ \A i \in D : Resolved(rows, i)
  BY DEF Removed
<1>5. ASSUME NEW s \in Scans, ResultOf(s) \notin Committed, StatusOf(s) \notin Committed,
             Paired(rows, s)
      PROVE  Paired(qs, s)
  <2>1. \A i \in Ids : /\ rows[i].key = UploadKey(ResultOf(s)) => ~Resolved(rows, i)
                       /\ rows[i].key = UploadKey(StatusOf(s)) => ~Resolved(rows, i)
    BY <1>3, <1>5 DEF UploadKey
  <2>2. ASSUME NEW j \in Ids, Live(qs, j), qs[j].key = UploadKey(StatusOf(s))
        PROVE  qs[j].pred # NoId /\ qs[qs[j].pred].key = UploadKey(ResultOf(s))
    <3>1. j \in Ids \ D /\ Live(rows, j) /\ rows[j].key = UploadKey(StatusOf(s))
      BY <1>1, <2>2
    <3>2. rows[j].pred # NoId /\ rows[rows[j].pred].key = UploadKey(ResultOf(s))
      BY <1>5, <3>1 DEF Paired, BehindResult
    <3>3. PICK p \in Ids : p = rows[j].pred
      BY <1>2, <3>2
    <3>4. ~Resolved(rows, p)
      BY <2>1, <3>2, <3>3
    <3>5. qs[j].pred = p /\ p # NoId
      BY <1>1, <3>1, <3>2, <3>3, <3>4
    <3>6. p \in Ids \ D
      BY <1>4, <3>4
    <3> QED
      BY <1>1, <3>2, <3>3, <3>5, <3>6
  <2>3. ASSUME NEW i \in Ids, Live(qs, i), qs[i].key = UploadKey(ResultOf(s))
        PROVE  \E j \in Ids : Live(qs, j) /\ qs[j].key = UploadKey(StatusOf(s))
    <3>1. Live(rows, i) /\ rows[i].key = UploadKey(ResultOf(s))
      BY <1>1, <2>3
    <3>2. PICK j \in Ids : Live(rows, j) /\ rows[j].key = UploadKey(StatusOf(s))
      BY <1>5, <3>1 DEF Paired, WithStatus
    <3>3. j \in Ids \ D
      BY <1>4, <2>1, <3>2
    <3> QED
      BY <1>1, <3>2, <3>3
  <2> QED
    BY <2>2, <2>3 DEF Paired, BehindResult, WithStatus
<1>6. OnlyResultsAgain(rows) => OnlyResultsAgain(qs)
  BY <1>1 DEF OnlyResultsAgain
<1> QED
  BY <1>5, <1>6

LEMMA MovedSame ==
    ASSUME NEW rs, NEW qs, Moved(rs, qs)
    PROVE  SameRows(rs, qs)
BY DEF Moved, MovedRow, SameRows, Live

LEMMA ResyncPaired ==
    ASSUME TypeInv, Streams(rows), Letters(rows), OnlyResultsAgain(rows), NEW i \in Ids,
           rows[i].status = "IN_FLIGHT", CanResync(rows, i),
           NEW qs \in ScheduleFullResync(rows, i)
    PROVE  OnlyResultsAgain(qs) /\ \A s \in Scans : Paired(rows, s) => Paired(qs, s)
<1>1. rows \in Table
  BY DEF TypeInv
<1>2. PICK rs \in Table, r \in Ids :
              /\ Streams(rs) /\ Replaced(rs, qs, i, r)
              /\ \/ rs = rows
                 \/ \E row : Inserted(rows, rs, r, row) /\ row.key = ResyncKey(rows, i)
  BY ResyncReplaces
<1>3. OnlyResultsAgain(rs) /\ \A s \in Scans : Paired(rows, s) => Paired(rs, s)
  <2>1. CASE rs = rows
    BY <2>1
  <2>2. ASSUME NEW row, Inserted(rows, rs, r, row), row.key = ResyncKey(rows, i)
        PROVE  OnlyResultsAgain(rs) /\ \A s \in Scans : Paired(rows, s) => Paired(rs, s)
    <3>1. row.key.recovery /\ row.key.msg.kind = "result"
      BY <2>2 DEF ResyncKey, CanResync
    <3>2. \A x : row.key # UploadKey(x)
      BY <3>1 DEF UploadKey
    <3> QED
      BY <1>1, <2>2, <3>1, <3>2, InsertedPaired
  <2> QED
    BY <1>2, <2>1, <2>2
<1>4. SameRows(rs, qs)
  BY <1>2, ReplacedRest DEF SameRows
<1> QED
  BY <1>2, <1>3, <1>4, SameRowsPaired

LEMMA NextPaired ==
    ASSUME OutboxInv, EvidenceFirst, [Next]_vars
    PROVE  /\ OnlyResultsAgain(rows')
           /\ \A s \in Scans : ResultOf(s) \notin Committed => Paired(rows', s)
<1>1. /\ TypeInv /\ Streams(rows) /\ LeaseInv /\ Letters(rows) /\ rows \in Table
      /\ OnlyResultsAgain(rows)
      /\ \A s \in Scans : ResultOf(s) \notin Committed =>
                              StatusOf(s) \notin Committed /\ Paired(rows, s)
  BY DEF OutboxInv, TypeInv, EvidenceFirst
<1>2. CASE SameRows(rows, rows')
  BY <1>1, <1>2, SameRowsPaired
<1>3. CASE rows' = rows
  BY <1>1, <1>3
<1>4. ASSUME NEW s \in Scans,
             CompleteScan(s) \/ ReconcileScan(s) \/ FailScan(s) \/ RejectJob(s) \/ PruneScan(s)
      PROVE  /\ OnlyResultsAgain(rows')
             /\ \A u \in Scans : ResultOf(u) \notin Committed => Paired(rows', u)
  BY <1>1, <1>4, ScanPaired
<1>5. ASSUME NEW w \in Workers, Claim(w) PROVE SameRows(rows, rows')
  <2>1. PICK rs \in Table : Moved(rows, rs) /\ Moved(rs, rows')
    BY <1>1, <1>5, ClaimMoves
  <2>2. SameRows(rows, rs) /\ SameRows(rs, rows')
    BY <2>1, MovedSame
  <2> QED
    BY <2>2 DEF SameRows
<1>6. ASSUME NEW w \in Workers, Settle(w)
      PROVE  /\ OnlyResultsAgain(rows')
             /\ \A s \in Scans : ResultOf(s) \notin Committed => Paired(rows', s)
  BY <1>1, <1>2, <1>3, <1>6, SettleMoves, MovedSame, ResyncPaired
<1>7. ASSUME NEW i \in Ids, NEW n \in RetryLimits, Requeue(i, n) PROVE SameRows(rows, rows')
  <2>1. rows[i].status = "DEAD" /\ rows[i].superseder = NoId /\ n \in Nat
    BY <1>7, ConstantsAssumption DEF Requeue
  <2>2. MovedRow(rows, i, Requeued(rows[i], n))
    BY <1>1, <2>1, UpdatesMoveRow
  <2>3. Moved(rows, rows')
    BY <1>1, <1>7, <2>2, MovedOneRow DEF Requeue
  <2> QED
    BY <2>3, MovedSame
<1>8. ASSUME NEW old \in SUBSET Ids, NEW n \in PurgeLimits, Purge(old, n)
      PROVE  /\ OnlyResultsAgain(rows')
             /\ \A s \in Scans : ResultOf(s) \notin Committed => Paired(rows', s)
  <2>1. PICK D : Removed(rows, rows', D)
    BY <1>1, <1>8, PurgeRemoves
  <2> QED
    BY <1>1, <2>1, RemovedPaired
<1>9. ASSUME NEW w \in Workers, (\E a \in Answers : Request(w, a)) \/ Crash(w)
      PROVE  rows' = rows
  BY <1>9 DEF Request, Crash
<1> QED
  BY <1>2, <1>3, <1>4, <1>5, <1>6, <1>7, <1>8, <1>9 DEF Next, Deliver, Tick, vars

LEMMA NextEvidence ==
    EvidenceFirst' <=> /\ OnlyResultsAgain(rows')
                       /\ \A s \in Scans : ResultOf(s) \notin Committed' =>
                              StatusOf(s) \notin Committed' /\ Paired(rows', s)
BY DEF EvidenceFirst, OnlyResultsAgain, Paired, BehindResult, WithStatus, ResultOf, StatusOf,
   UploadKey, Live

(* A request for a status whose evidence the cloud does not have would be  *)
(* out of turn.                                                            *)
LEMMA RequestAfterEvidence ==
    ASSUME OutboxInv, EvidenceFirst, NEW w \in Workers, worker[w].phase # "idle",
           NEW s \in Scans, worker[w].key.msg = StatusOf(s), ResultOf(s) \notin Committed
    PROVE  FALSE
<1>1. TypeInv /\ Streams(rows) /\ LeaseInv /\ Letters(rows) /\ InTurn /\ rows \in Table
  BY DEF OutboxInv, TypeInv
<1>2. PICK i \in Ids, k \in Keys : i = worker[w].id /\ k = worker[w].key
  BY <1>1 DEF TypeInv, Hands
<1>3. StatusOf(s) \notin Committed /\ Paired(rows, s) /\ OnlyResultsAgain(rows)
  BY DEF EvidenceFirst
<1>4. Live(rows, i) /\ PredecessorResolved(rows, i)
  BY <1>1, <1>2, <1>3 DEF InTurn, MayBeSent
<1>5. rows[i].key = k /\ k.msg = StatusOf(s)
  BY <1>1, <1>2, <1>4 DEF LeaseInv
<1>6. k.msg.kind # "result"
  BY <1>5 DEF StatusOf
<1>7. ~k.recovery
  BY <1>3, <1>4, <1>5, <1>6 DEF OnlyResultsAgain
<1>8. k = UploadKey(StatusOf(s))
  BY <1>5, <1>7 DEF UploadKey, Keys
<1>9. rows[i].pred # NoId /\ rows[rows[i].pred].key = UploadKey(ResultOf(s))
  BY <1>3, <1>4, <1>5, <1>8 DEF Paired, BehindResult
<1>10. PICK p \in Ids : p = rows[i].pred
  BY <1>1, <1>9, RowFields
<1>11. Resolved(rows, p)
  BY <1>4, <1>9, <1>10 DEF PredecessorResolved
<1>12. rows[p].key.msg \in Committed
  BY <1>1, <1>11, ResolvedCommitted
<1> QED
  BY <1>9, <1>10, <1>12 DEF UploadKey

(* The status of a scan that ended well never precedes its evidence, for   *)
(* all that leases, dead letters, resyncs, requeues and purges do to       *)
(* either row: enqueue_upload links the one behind the other in one        *)
(* transaction, and only what is delivered is unlinked.                    *)
THEOREM EvidenceBeforeStatus == Spec => []StatusAfterEvidence
<1>1. Init => EvidenceFirst
  <2> SUFFICES ASSUME Init PROVE EvidenceFirst
    OBVIOUS
  <2>1. \A i \in Ids : ~Live(rows, i)
    BY DEF Init, NoRow, Live
  <2>2. Committed = {}
    BY DEF Init, Committed
  <2> QED
    BY <2>1, <2>2 DEF EvidenceFirst, OnlyResultsAgain, Paired, BehindResult, WithStatus
<1>2. OutboxInv /\ EvidenceFirst /\ [Next]_vars => EvidenceFirst'
  <2> SUFFICES ASSUME OutboxInv, EvidenceFirst, [Next]_vars PROVE EvidenceFirst'
    OBVIOUS
  <2>1. /\ OnlyResultsAgain(rows')
        /\ \A s \in Scans : ResultOf(s) \notin Committed => Paired(rows', s)
    BY NextPaired
  <2>2. \/ accepted' = accepted
        \/ \E w \in Workers : /\ worker[w].phase # "idle"
                              /\ accepted' = accepted \cup {worker[w].key}
    BY DEF Next, CompleteScan, ReconcileScan, FailScan, RejectJob, PruneScan, Deliver, Claim,
           Request, Settle, Crash, Tick, Requeue, Purge, vars
  <2>3. CASE accepted' = accepted
    <3>1. Committed' = Committed
      BY <2>3 DEF Committed
    <3> QED
      BY <2>1, <3>1, NextEvidence DEF EvidenceFirst
  <2>4. ASSUME NEW w \in Workers, worker[w].phase # "idle",
               accepted' = accepted \cup {worker[w].key}
        PROVE  EvidenceFirst'
    <3>1. Committed' = Committed \cup {worker[w].key.msg}
      BY <2>4 DEF Committed
    <3>2. ASSUME NEW s \in Scans, ResultOf(s) \notin Committed'
          PROVE  StatusOf(s) \notin Committed' /\ Paired(rows', s)
      <4>1. ResultOf(s) \notin Committed
        BY <3>1, <3>2
      <4>2. StatusOf(s) \notin Committed
        BY <4>1 DEF EvidenceFirst
      <4>3. worker[w].key.msg # StatusOf(s)
        BY <2>4, <4>1, RequestAfterEvidence
      <4> QED
        BY <2>1, <3>1, <4>1, <4>2, <4>3
    <3> QED
      BY <2>1, <3>2, NextEvidence
  <2> QED
    BY <2>2, <2>3, <2>4
<1>3. EvidenceFirst => StatusAfterEvidence
  BY DEF EvidenceFirst, StatusAfterEvidence
<1> QED
  BY <1>1, <1>2, <1>3, OutboxInvariance, PTL DEF Spec
=============================================================================

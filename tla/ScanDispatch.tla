---------------------------- MODULE ScanDispatch ----------------------------
(***************************************************************************)
(* The scan records of the cloud control plane: the rows of scanner_scans  *)
(* of one endpoint and the transactions that authorize a job, hand it out, *)
(* expire it, and accept its evidence, its terminal status or its          *)
(* rejection (cloud_service/postgres.py and the rules of repository.py).   *)
(*                                                                         *)
(* Every query is keyed by the endpoint, so the rows of one endpoint are   *)
(* the whole of its story.  ScanLifecycle adds the endpoint.               *)
(***************************************************************************)
EXTENDS Integers, FiniteSets

CONSTANTS
    Scans,          \* scan identifiers the platform may issue
    Verdicts,       \* overall statuses of a result
    Releases,       \* scanner versions, 0 .. n
    Validities,     \* validity_seconds an administrator may ask for, in ticks
    Timeout,        \* timeout_seconds of a job
    DispatchGrace,  \* JOB_DISPATCH_GRACE_SECONDS
    UploadGrace,    \* SCAN_UPLOAD_GRACE_SECONDS
    MaxTime,        \* bound: the last instant of the clock
    None            \* SQL NULL

ASSUME DispatchAssumption ==
    /\ IsFiniteSet(Scans)
    /\ "FAILED" \in Verdicts
    /\ Releases \subseteq Nat /\ 0 \in Releases
    /\ Validities \subseteq Nat \ {0}
    /\ Timeout \in Nat \ {0}
    /\ DispatchGrace \in Nat
    /\ UploadGrace \in Nat
    /\ MaxTime \in Nat

VARIABLES
    scans,          \* [Scans -> ScanRecord], the rows
    now             \* wall clock

-----------------------------------------------------------------------------
(* Data                                                                    *)

(* A result or a terminal status, reduced to the fields that the cloud     *)
(* compares: the overall status and the version of the scanner.            *)
Documents == [verdict : Verdicts, release : Releases]

ASSUME NoneAssumption == None \notin Scans /\ None \notin Verdicts /\ None \notin Documents

(* created orders the rows by created_at.  resync tells under which of its *)
(* two idempotency keys the evidence was accepted.                         *)
ScanRecord ==
    [ state    : {"ABSENT", "QUEUED", "DISPATCHED", "EXPIRED", "ANALYZING", "REJECTED"},
      created  : Nat,
      updated  : Nat,
      deadline : Nat,
      upload   : Documents \cup {None},
      resync   : BOOLEAN,
      status   : Documents \cup {None} ]

Unissued ==
    [ state |-> "ABSENT", created |-> 0, updated |-> 0, deadline |-> 0,
      upload |-> None, resync |-> FALSE, status |-> None ]

DispatchInit ==
    /\ scans = [s \in Scans |-> Unissued]
    /\ now = 0

-----------------------------------------------------------------------------
(* The platform                                                            *)

Issued == {s \in Scans : scans[s].state # "ABSENT"}

(* The authorization and the job end at the same instant, MaxTime at the   *)
(* latest.                                                                 *)
Issue(s) ==
    /\ scans[s].state = "ABSENT"
    /\ \E v \in Validities :
        /\ now + v <= MaxTime
        /\ scans' = [scans EXCEPT ![s] =
                       [Unissued EXCEPT !.state = "QUEUED", !.created = Cardinality(Issued),
                                        !.updated = now, !.deadline = now + v]]
    /\ UNCHANGED now

-----------------------------------------------------------------------------
(* The endpoint's poll: claim_next_job.                                    *)

LeaseEnds(r) == r.updated + Timeout + DispatchGrace

EligibilityByLease(r) ==    \* mutant: a dispatched job only has a lease
    CASE now >= r.deadline /\ r.state = "QUEUED" -> "EXPIRED"
      [] r.state = "QUEUED" /\ now < r.deadline -> "ELIGIBLE"
      [] r.state = "DISPATCHED" /\ now >= LeaseEnds(r) -> "ELIGIBLE"
      [] OTHER -> "ACTIVE"

Eligibility(r) ==
    CASE now >= r.deadline -> "EXPIRED"
      [] now < r.deadline /\ (r.state = "QUEUED" \/ now >= LeaseEnds(r)) -> "ELIGIBLE"
      [] OTHER -> "ACTIVE"

Waiting == {s \in Scans : scans[s].state \in {"QUEUED", "DISPATCHED"}}

Eligible(rows) == {s \in rows : Eligibility(scans[s]) = "ELIGIBLE"}

Older(s, o) == scans[s].created < scans[o].created

(* The scan in hand once the rows have been read in order.                 *)
Oldest(rows, s) == s \in Eligible(rows) /\ \A o \in Eligible(rows) : ~Older(o, s)

(* A row is expired as the loop passes it; the loop stops at the first     *)
(* eligible row.                                                           *)
Passed(rows, s) ==
    /\ s \in rows
    /\ Eligibility(scans[s]) = "EXPIRED"
    /\ \A o \in Eligible(rows) : ~Older(o, s)

DispatchedRow(r) == [r EXCEPT !.state = "DISPATCHED", !.updated = now]
ExpiredRowAsFailed(r) ==    \* mutant: the endpoint's word for it
    [r EXCEPT !.state = "FAILED", !.updated = now]
ExpiredRow(r) == [r EXCEPT !.state = "EXPIRED", !.updated = now]

AfterPoll(rows) ==
    [s \in Scans |->
        CASE Oldest(rows, s) -> DispatchedRow(scans[s])
          [] Passed(rows, s) -> ExpiredRow(scans[s])
          [] OTHER -> scans[s]]

-----------------------------------------------------------------------------
(* The endpoint's uploads.  An answer "ok" to what was accepted before is  *)
(* the replay of its idempotency key, which changes nothing.               *)

IngestAnswer(r, resync) ==
    IF \/ r.upload # None /\ r.resync = resync
       \/ /\ r.upload = None
          /\ r.state = "DISPATCHED"
          /\ now <= r.deadline + UploadGrace
    THEN "ok" ELSE "conflict"

Ingested(r, document, resync) ==
    IF r.upload # None THEN r
    ELSE [r EXCEPT !.state = "ANALYZING", !.updated = now, !.upload = document, !.resync = resync]

StatusAnswerOnce(r, document) ==    \* mutant: immutable, but not compared with the evidence
    IF r.status = document \/ r.status = None THEN "ok" ELSE "conflict"

StatusAnswer(r, document) ==
    IF \/ r.status = document
       \/ r.status = None /\ r.upload = document
    THEN "ok" ELSE "conflict"

StatusRecorded(r, document) ==
    IF r.status # None THEN r ELSE [r EXCEPT !.status = document, !.updated = now]

(* A rejection overwrites any state, once.                                 *)
Rejected(r) ==
    IF r.state = "REJECTED" THEN r ELSE [r EXCEPT !.state = "REJECTED", !.updated = now]
=============================================================================

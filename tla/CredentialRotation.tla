------------------------- MODULE CredentialRotation -------------------------
(***************************************************************************)
(* The lifecycle of an endpoint's bearer credential: the agent's protected  *)
(* store, the processes that rotate it (the service loop and the operator's *)
(* rotate-credential command) and the cloud's credential table.             *)
(*                                                                         *)
(* A credential is named by its generation; generation 0 is the single-use   *)
(* enrollment grant, exchanged for generation 1.  The cloud remembers the answer *)
(* of a rotation under the idempotency key of the call; the key is fresh    *)
(* for every call and kept by the transport's retries of that call, so the  *)
(* remembered answer is a field of the call.  Time advances between calls:  *)
(* a tick is hours, a call with its retries seconds.                        *)
(***************************************************************************)
EXTENDS Naturals

CONSTANTS
    Rotators,        \* processes that rotate the stored credential
    Service,         \* the one that is the agent's own loop
    Life,            \* credential_ttl_seconds
    GrantLife,       \* life of the enrollment grant
    Margin,          \* rotation_margin_seconds
    Overlap,         \* credential_rotation_overlap_seconds
    MaxAttempts,     \* CloudApiConfig.max_attempts
    MaxGeneration,   \* bound: generations issued
    MaxManual,       \* bound: generations up to which the command is used
    MaxLost,         \* bound: requests or answers lost
    MaxBroken        \* bound: crashes and failed writes of the store

ASSUME CredentialAssumption ==
    /\ Service \in Rotators
    /\ Life \in Nat \ {0} /\ GrantLife \in Nat \ {0} /\ Margin \in Nat /\ Overlap \in Nat
    /\ MaxAttempts \in Nat \ {0} /\ MaxGeneration \in Nat \ {0}
    /\ MaxManual \in Nat /\ MaxLost \in Nat /\ MaxBroken \in Nat

VARIABLES
    now,          \* the clock both sides read
    stored,       \* the credential in the agent's protected store
    generation,   \* scanner_endpoints.credential_generation
    until,        \* per generation, when the cloud stops accepting it
    call,         \* per rotator, the rotation in progress
    lost, broken  \* faults so far

cvars == <<now, stored, generation, until, call, lost, broken>>

Generations == 0..MaxGeneration

\* What the agent's store holds: EndpointCredential, by generation and expiry.
Credential == [generation: Generations, expires: Nat]

\* "sending" a request, holding the "answer", or no call.
Idle == [state |-> "idle", from |-> 0, made |-> 0, expires |-> 0, attempt |-> 0]
Call == [state: {"idle", "sending", "answer"}, from: Generations,
         made: Generations, expires: Nat, attempt: 0..MaxAttempts]

CredentialTypeOK ==
    /\ now \in Nat
    /\ stored \in Credential
    /\ generation \in Generations
    /\ until \in [Generations -> Nat]
    /\ call \in [Rotators -> Call]
    /\ lost \in 0..MaxLost /\ broken \in 0..MaxBroken

\* EndpointCredential.is_expired, with the margin of needs_rotation.
Expired(margin) == now + margin >= stored.expires

\* authenticate_device: the generation is known and still accepted.  A grant
\* authenticates until it expires, used or not.
Accepts(g) == g <= generation /\ now < until[g]

\* What a request authenticated by StoredCredentialAuthProvider meets.
Authenticated == ~Expired(0) /\ Accepts(stored.generation)

InitCredential ==
    /\ now = 0
    /\ stored = [generation |-> 0, expires |-> 0]
    /\ generation = 0
    /\ until = [g \in Generations |-> IF g = 0 THEN GrantLife ELSE 0]
    /\ call = [p \in Rotators |-> Idle]
    /\ lost = 0 /\ broken = 0

\* rotate() loads the stored credential and refuses an expired one.  The
\* service asks needs_rotation first; the command does not.
RotationDue(p) ==
    /\ ~Expired(0)
    /\ IF p = Service THEN Expired(Margin) /\ generation < MaxGeneration
                      ELSE generation < MaxManual

\* The enroll command exchanges the grant; the agent's own loop never does.
EnrollmentDue(p) == p # Service /\ stored.generation = 0

Begin(p) ==
    /\ call[p] = Idle /\ (RotationDue(p) \/ EnrollmentDue(p))
    /\ call' = [call EXCEPT ![p] = [Idle EXCEPT !.state = "sending",
                                                !.from = stored.generation,
                                                !.attempt = 1]]
    /\ UNCHANGED <<now, stored, generation, until, lost, broken>>

\* Mutant: the endpoint's current generation is not compared.
MayRotateStale(g) == g >= 0

\* The generation the caller authenticated with is the endpoint's current one;
\* for the grant, it has not been consumed.
MayRotate(g) == g = generation

\* What the cloud does with a request of generation g whose key remembers made:
\* a replay answers what was made, a stale one is refused, a good one supersedes
\* g after the overlap and issues the next generation.  0 is a refusal.
Issued(g, made) ==
    CASE ~Accepts(g) -> 0
      [] Accepts(g) /\ made # 0 -> made
      [] Accepts(g) /\ made = 0 -> IF MayRotate(g) /\ generation < MaxGeneration
                                   THEN generation + 1 ELSE 0

\* until after a request was answered with generation n.
Superseded(g, n) ==
    IF n > generation
    THEN [until EXCEPT ![g] = IF g = 0 \/ @ < now + Overlap THEN @ ELSE now + Overlap,
                       ![n] = now + Life]
    ELSE until

\* The request reaches the cloud and its answer the caller.  A refusal (401,
\* 409) is not retried; an answer must advance the generation.
Answered(p) ==
    LET c == call[p]  n == Issued(c.from, c.made)
    IN  /\ c.state = "sending"
        /\ generation' = IF n > generation THEN n ELSE generation
        /\ until' = Superseded(c.from, n)
        /\ call' = [call EXCEPT ![p] =
                      IF n > c.from
                      THEN [c EXCEPT !.state = "answer", !.made = n,
                                     !.expires = until'[n]]
                      ELSE Idle]
        /\ UNCHANGED <<now, stored, lost, broken>>

\* Mutant: every attempt has a key of its own.
RetriedFreshKey(c, made) ==
    IF c.attempt < MaxAttempts THEN [c EXCEPT !.attempt = @ + 1] ELSE Idle

\* Mutant: the attempts are not counted against max_attempts.
RetriedForever(c, made) == [c EXCEPT !.attempt = @ + 1, !.made = made]

\* A lost request or answer is a NetworkError: the same request, with the same
\* key, is sent again until the attempts are used up.
Retried(c, made) ==
    IF c.attempt < MaxAttempts
    THEN [c EXCEPT !.attempt = @ + 1, !.made = made] ELSE Idle

\* The request is lost, or it is served and the answer is lost.
Lost(p) ==
    LET c == call[p]  n == Issued(c.from, c.made)
    IN  /\ c.state = "sending" /\ lost < MaxLost
        /\ lost' = lost + 1
        /\ \/ /\ call' = [call EXCEPT ![p] = Retried(c, c.made)]
              /\ UNCHANGED <<generation, until>>
           \/ /\ generation' = IF n > generation THEN n ELSE generation
              /\ until' = Superseded(c.from, n)
              /\ call' = [call EXCEPT ![p] = Retried(c, n)]
        /\ UNCHANGED <<now, stored, broken>>

\* CredentialStore.save replaces the record atomically, or fails and leaves it.
Save(p) ==
    /\ call[p].state = "answer"
    /\ call' = [call EXCEPT ![p] = Idle]
    /\ \/ /\ stored' = [generation |-> call[p].made, expires |-> call[p].expires]
          /\ broken' = broken
       \/ broken < MaxBroken /\ broken' = broken + 1 /\ UNCHANGED stored
    /\ UNCHANGED <<now, generation, until, lost>>

\* The process ends: what it held in memory is gone.
Forget(p) ==
    /\ broken < MaxBroken
    /\ broken' = broken + 1
    /\ call' = [call EXCEPT ![p] = Idle]
    /\ UNCHANGED <<now, stored, generation, until, lost>>

Rotate(p) == Begin(p) \/ Answered(p) \/ Lost(p) \/ Save(p)

-----------------------------------------------------------------------------
\* Two processes rotate the same store: whichever saves last, the stored
\* generation never goes back to one the cloud has superseded.
StoredNeverGoesBack == [][stored'.generation >= stored.generation]_cvars

\* The agent loses its access only to a fault that outlives the transport's
\* retries: with fewer losses than attempts, no crash and no failed write, the
\* stored token is accepted.  Rotation ahead of expiry, the replay under the
\* call's key and the overlap must all work for this.
LockedOutOnlyByFaults ==
    stored.generation = 0 \/ Authenticated \/ lost >= MaxAttempts \/ broken > 0
=============================================================================

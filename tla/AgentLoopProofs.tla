--------------------------- MODULE AgentLoopProofs ---------------------------
(***************************************************************************)
(* Proofs about AgentLoop: the credential and the policies, for every        *)
(* number of rotating processes, attempts, faults, documents, assignments    *)
(* and local files.                                                         *)
(***************************************************************************)
EXTENDS AgentLoop, TLAPS

-----------------------------------------------------------------------------
(* The credential                                                          *)

(* A rotation starts from the stored generation or an earlier one.  What the *)
(* cloud made for a call is its newest generation, not stored yet, and made  *)
(* for that call alone: as long as it is under way, nobody who holds the      *)
(* stored generation is served.                                             *)
CredentialInv ==
    /\ CredentialTypeOK
    /\ stored.generation <= generation
    /\ \A p \in Rotators :
         /\ call[p].from <= stored.generation
         /\ call[p].made # 0 => call[p].made = generation /\ stored.generation < generation
         /\ call[p].state = "answer" => call[p].made # 0
    /\ \A p, q \in Rotators : p # q => call[p].made = 0 \/ call[q].made = 0

LEMMA IdleCall == Idle \in Call
BY CredentialAssumption DEF Idle, Call, Generations

LEMMA CredentialInitially == InitCredential => CredentialInv
<1> SUFFICES ASSUME InitCredential PROVE CredentialInv
  OBVIOUS
<1> USE CredentialAssumption DEF InitCredential
<1>1. call \in [Rotators -> Call] /\ \A p \in Rotators : call[p] = Idle
  BY IdleCall
<1>2. until \in [Generations -> Nat] /\ stored \in Credential /\ generation \in Generations
  BY DEF Generations, Credential
<1>3. CredentialTypeOK
  BY <1>1, <1>2 DEF CredentialTypeOK
<1> QED
  BY <1>1, <1>3 DEF CredentialInv, Idle

(* What a request can be answered with: what was made for it before, or the  *)
(* next generation, which nobody else is about to store.                    *)
LEMMA IssuedGeneration ==
    ASSUME CredentialInv, NEW p \in Rotators
    PROVE  LET n == Issued(call[p].from, call[p].made)
           IN  /\ n \in Generations
               /\ \/ n = 0
                  \/ n = generation /\ n = call[p].made
                  \/ /\ n = generation + 1 /\ stored.generation = generation
                     /\ \A q \in Rotators : call[q].made = 0
<1> DEFINE from == call[p].from  made == call[p].made
<1>1. call[p] \in Call /\ generation \in Generations /\ stored.generation \in Nat
  BY DEF CredentialInv, CredentialTypeOK, Credential, Generations
<1>2. from \in Generations /\ made \in Generations /\ from \in Nat /\ made \in Nat
  BY <1>1 DEF Call, Generations
<1>3. CASE ~Accepts(from)
  BY <1>3, CredentialAssumption DEF Issued, Generations
<1>4. CASE Accepts(from) /\ made # 0
  BY <1>2, <1>4 DEF Issued, CredentialInv
<1>5. CASE Accepts(from) /\ made = 0 /\ from = generation /\ generation < MaxGeneration
  <2>1. Issued(from, made) = generation + 1
    BY <1>5 DEF Issued, MayRotate
  <2>2. stored.generation = generation
    BY <1>1, <1>5 DEF CredentialInv, Generations
  <2>3. \A q \in Rotators : call[q].made = 0
    BY <2>2, <1>1 DEF CredentialInv, Generations
  <2> QED
    BY <2>1, <2>2, <2>3, <1>1, <1>5, CredentialAssumption DEF Generations
<1>6. CASE Accepts(from) /\ made = 0 /\ ~(from = generation /\ generation < MaxGeneration)
  BY <1>6, CredentialAssumption DEF Issued, MayRotate, Generations
<1> QED
  BY <1>3, <1>4, <1>5, <1>6

(* Serving a request leaves the cloud's table well-formed.                  *)
LEMMA SupersededType ==
    ASSUME CredentialInv, NEW g \in Generations, NEW n \in Generations
    PROVE  Superseded(g, n) \in [Generations -> Nat]
<1>1. now \in Nat /\ until \in [Generations -> Nat] /\ until[g] \in Nat
  BY DEF CredentialInv, CredentialTypeOK
<1>2. now + Overlap \in Nat /\ now + Life \in Nat
  BY <1>1, CredentialAssumption
<1> QED
  BY <1>1, <1>2 DEF Superseded

(* A call that comes to know generation n, and nobody else, where n is the    *)
(* newest generation and not stored, or that forgets what was made.          *)
LEMMA CallChanges ==
    ASSUME CredentialInv, NEW p \in Rotators, NEW c \in Call,
           call' = [call EXCEPT ![p] = c],
           UNCHANGED <<stored, now>>, lost' \in 0..MaxLost, broken' \in 0..MaxBroken,
           until' \in [Generations -> Nat], generation' \in Generations,
           generation <= generation',
           c.from <= stored.generation,
           c.state = "answer" => c.made # 0,
           \/ c.made = 0
           \/ c.made = generation' /\ stored.generation < generation',
           \/ generation' = generation
           \/ \A q \in Rotators : call[q].made = 0,
           c.made = 0 \/ \A q \in Rotators \ {p} : call[q].made = 0
    PROVE  CredentialInv'
<1>1. call \in [Rotators -> Call] /\ call' \in [Rotators -> Call]
  BY DEF CredentialInv, CredentialTypeOK
<1>2. call'[p] = c /\ \A q \in Rotators \ {p} : call'[q] = call[q]
  BY <1>1
<1>3. CredentialTypeOK'
  BY <1>1 DEF CredentialInv, CredentialTypeOK
<1>4. stored.generation \in Nat /\ generation \in Nat /\ generation' \in Nat
  BY DEF CredentialInv, CredentialTypeOK, Credential, Generations
<1>5. \A q \in Rotators : /\ call'[q].from <= stored'.generation
                          /\ call'[q].made # 0 => /\ call'[q].made = generation'
                                                  /\ stored'.generation < generation'
                          /\ call'[q].state = "answer" => call'[q].made # 0
  <2> TAKE q \in Rotators
  <2>1. CASE q = p
    BY <2>1, <1>2
  <2>2. CASE q # p
    BY <2>2, <1>2 DEF CredentialInv
  <2> QED
    BY <2>1, <2>2
<1>6. \A q, r \in Rotators : q # r => call'[q].made = 0 \/ call'[r].made = 0
  BY <1>2 DEF CredentialInv
<1>7. stored'.generation <= generation'
  BY <1>4 DEF CredentialInv
<1> QED
  BY <1>3, <1>5, <1>6, <1>7 DEF CredentialInv

LEMMA BeginKeeps ==
    ASSUME CredentialInv, NEW p \in Rotators, Begin(p)
    PROVE  CredentialInv'
<1> DEFINE c == [Idle EXCEPT !.state = "sending", !.from = stored.generation, !.attempt = 1]
<1>1. stored.generation \in Generations /\ CredentialTypeOK
  BY DEF CredentialInv, CredentialTypeOK, Credential
<1>2. c \in Call /\ c.from = stored.generation /\ c.made = 0 /\ c.state # "answer"
  <2>1. Idle \in Call /\ Idle.made = 0
    BY IdleCall DEF Idle
  <2>2. 1 \in 0..MaxAttempts
    BY CredentialAssumption
  <2> QED
    BY <1>1, <2>1, <2>2 DEF Call
<1>3. call' = [call EXCEPT ![p] = c] /\ UNCHANGED <<now, stored, generation, until, lost, broken>>
  BY DEF Begin
<1>4. stored.generation <= stored.generation /\ generation <= generation'
  BY <1>1, <1>3 DEF Generations, CredentialTypeOK
<1> HIDE DEF c
<1> QED
  BY <1>1, <1>2, <1>3, <1>4, CallChanges DEF CredentialTypeOK

(* A served request: the call comes to know n, or the agent is refused.     *)
LEMMA ServedKeeps ==
    ASSUME CredentialInv, NEW p \in Rotators, NEW c \in Call,
           NEW n, n = Issued(call[p].from, call[p].made),
           generation' = (IF n > generation THEN n ELSE generation),
           until' = Superseded(call[p].from, n),
           c = Idle \/ (c.made = n /\ c.from = call[p].from /\ (c.state = "answer" => n # 0)),
           call' = [call EXCEPT ![p] = c],
           UNCHANGED <<stored, now>>, lost' \in 0..MaxLost, broken' \in 0..MaxBroken
    PROVE  CredentialInv'
<1>1. /\ n \in Generations
      /\ \/ n = 0
         \/ n = generation /\ n = call[p].made
         \/ /\ n = generation + 1 /\ stored.generation = generation
            /\ \A q \in Rotators : call[q].made = 0
  BY IssuedGeneration
<1>2. /\ generation' = (IF n > generation THEN n ELSE generation)
      /\ until' = Superseded(call[p].from, n)
      /\ c = Idle \/ (c.made = n /\ c.from = call[p].from /\ (c.state = "answer" => n # 0))
  OBVIOUS
<1>3. call[p].from \in Generations /\ generation \in Generations /\ stored.generation \in Generations
  BY DEF CredentialInv, CredentialTypeOK, Call, Credential
<1>4. until' \in [Generations -> Nat] /\ generation' \in Generations
  BY <1>1, <1>2, <1>3, SupersededType
<1>5. n \in Nat /\ generation \in Nat /\ stored.generation \in Nat /\ generation' \in Nat
      /\ generation <= generation'
  BY <1>1, <1>2, <1>3, <1>4 DEF Generations
<1>6. /\ c.from <= stored.generation
      /\ c.state = "answer" => c.made # 0
      /\ c.made = 0 \/ c.made = n
  BY <1>2, <1>5 DEF CredentialInv, Idle
<1>7. CASE n = 0
  <2>1. generation' = generation /\ c.made = 0
    BY <1>2, <1>5, <1>6, <1>7
  <2> QED
    BY <1>4, <1>5, <1>6, <2>1, CallChanges
<1>8. CASE n # 0 /\ n = generation /\ n = call[p].made
  <2>1. generation' = generation /\ stored.generation < generation
    BY <1>2, <1>5, <1>8 DEF CredentialInv
  <2>2. \A q \in Rotators \ {p} : call[q].made = 0
    BY <1>8 DEF CredentialInv
  <2> QED
    BY <1>4, <1>5, <1>6, <1>8, <2>1, <2>2, CallChanges
<1>9. CASE n = generation + 1 /\ stored.generation = generation
           /\ \A q \in Rotators : call[q].made = 0
  <2>1. generation' = n /\ stored.generation < generation'
    BY <1>2, <1>5, <1>9
  <2> QED
    BY <1>4, <1>5, <1>6, <1>9, <2>1, CallChanges
<1> QED
  BY <1>1, <1>7, <1>8, <1>9

LEMMA AnsweredKeeps ==
    ASSUME CredentialInv, NEW p \in Rotators, Answered(p)
    PROVE  CredentialInv'
<1> DEFINE n == Issued(call[p].from, call[p].made)
           c == IF n > call[p].from
                THEN [call[p] EXCEPT !.state = "answer", !.made = n, !.expires = until'[n]]
                ELSE Idle
<1>1. /\ generation' = (IF n > generation THEN n ELSE generation)
      /\ until' = Superseded(call[p].from, n)
      /\ call' = [call EXCEPT ![p] = c]
      /\ UNCHANGED <<now, stored, lost, broken>>
  BY DEF Answered
<1>2. n \in Generations /\ call[p] \in Call /\ CredentialTypeOK
  BY IssuedGeneration DEF CredentialInv, CredentialTypeOK
<1>3. until' \in [Generations -> Nat]
  BY <1>1, <1>2, SupersededType DEF Call
<1> HIDE DEF n
<1>4. c \in Call /\ (c = Idle \/ (c.made = n /\ c.from = call[p].from /\ n # 0))
  <2>1. CASE n > call[p].from
    <3> DEFINE d == [call[p] EXCEPT !.state = "answer", !.made = n, !.expires = until'[n]]
    <3>1. until'[n] \in Nat /\ n # 0
      BY <1>2, <1>3, <2>1 DEF Call, Generations
    <3>2. d \in Call /\ d.made = n /\ d.from = call[p].from
      BY <1>2, <3>1 DEF Call
    <3>3. c = d
      BY <2>1
    <3> HIDE DEF c, d
    <3> QED
      BY <3>1, <3>2, <3>3
  <2>2. CASE ~(n > call[p].from)
    BY <2>2, IdleCall
  <2> QED
    BY <2>1, <2>2
<1> HIDE DEF c
<1>5. /\ n = Issued(call[p].from, call[p].made)
      /\ lost' \in 0..MaxLost /\ broken' \in 0..MaxBroken
  BY <1>1, <1>2 DEF n, CredentialTypeOK
<1> QED
  BY <1>1, <1>4, <1>5, ServedKeeps

LEMMA RetriedCall ==
    ASSUME NEW c \in Call, NEW made \in Generations, c.state # "answer"
    PROVE  /\ Retried(c, made) \in Call
           /\ Retried(c, made).state # "answer"
           /\ \/ Retried(c, made) = Idle
              \/ Retried(c, made).made = made /\ Retried(c, made).from = c.from
<1>1. CASE c.attempt < MaxAttempts
  <2>1. c.attempt + 1 \in 0..MaxAttempts
    BY <1>1, CredentialAssumption DEF Call
  <2> DEFINE d == [c EXCEPT !.attempt = @ + 1, !.made = made]
  <2>2. d \in Call /\ d.state = c.state /\ d.made = made /\ d.from = c.from
    BY <2>1 DEF Call
  <2>3. Retried(c, made) = d
    BY <1>1 DEF Retried
  <2> HIDE DEF d
  <2> QED
    BY <2>2, <2>3
<1>2. CASE ~(c.attempt < MaxAttempts)
  <2>1. Retried(c, made) = Idle
    BY <1>2 DEF Retried
  <2>2. Idle \in Call /\ Idle.state # "answer"
    BY IdleCall DEF Idle
  <2> QED
    BY <2>1, <2>2
<1> QED
  BY <1>1, <1>2

LEMMA LostKeeps ==
    ASSUME CredentialInv, NEW p \in Rotators, Lost(p)
    PROVE  CredentialInv'
<1> DEFINE n == Issued(call[p].from, call[p].made)
<1>1. /\ n \in Generations /\ call[p] \in Call /\ call[p].made \in Generations
      /\ call[p].state # "answer" /\ CredentialTypeOK
  BY IssuedGeneration DEF CredentialInv, CredentialTypeOK, Lost, Call
<1>2. lost' \in 0..MaxLost /\ broken' \in 0..MaxBroken /\ UNCHANGED <<now, stored>>
  BY <1>1, CredentialAssumption DEF Lost, CredentialTypeOK
<1>3. CASE call' = [call EXCEPT ![p] = Retried(call[p], call[p].made)]
           /\ UNCHANGED <<generation, until>>
  <2> DEFINE c == Retried(call[p], call[p].made)
  <2>1. c \in Call /\ c.state # "answer"
        /\ (c = Idle \/ (c.made = call[p].made /\ c.from = call[p].from))
    BY <1>1, RetriedCall
  <2> HIDE DEF c
  <2>2. stored.generation \in Nat /\ generation \in Nat /\ generation <= generation
    BY <1>1 DEF CredentialTypeOK, Credential, Generations
  <2>3. c.from <= stored.generation
    BY <2>1, <2>2 DEF CredentialInv, Idle
  <2>4. c.made = 0 \/ (c.made = generation /\ stored.generation < generation)
    BY <2>1 DEF CredentialInv, Idle
  <2>5. c.made = 0 \/ \A q \in Rotators \ {p} : call[q].made = 0
    BY <2>1 DEF CredentialInv, Idle
  <2>6. call' = [call EXCEPT ![p] = c] /\ generation' = generation /\ until' = until
    BY <1>3 DEF c
  <2> QED
    BY <1>1, <1>2, <2>1, <2>2, <2>3, <2>4, <2>5, <2>6, CallChanges DEF CredentialTypeOK
<1>4. CASE /\ generation' = (IF n > generation THEN n ELSE generation)
           /\ until' = Superseded(call[p].from, n)
           /\ call' = [call EXCEPT ![p] = Retried(call[p], n)]
  <2> DEFINE c == Retried(call[p], n)
  <2>1. c \in Call /\ c.state # "answer" /\ (c = Idle \/ (c.made = n /\ c.from = call[p].from))
    BY <1>1, RetriedCall
  <2>2. call' = [call EXCEPT ![p] = c]
    BY <1>4
  <2> HIDE DEF c
  <2> QED
    BY <1>2, <1>4, <2>1, <2>2, ServedKeeps
<1> QED
  BY <1>3, <1>4 DEF Lost

(* What is saved is newer than what was stored, and no other call made it.   *)
LEMMA SaveKeeps ==
    ASSUME CredentialInv, NEW p \in Rotators, Save(p)
    PROVE  CredentialInv' /\ stored'.generation >= stored.generation
<1>1. /\ CredentialTypeOK /\ call[p] \in Call
      /\ call[p].made # 0 /\ call[p].made = generation /\ stored.generation < generation
      /\ \A q \in Rotators \ {p} : call[q].made = 0
  BY DEF CredentialInv, CredentialTypeOK, Save
<1>2. /\ call' = [call EXCEPT ![p] = Idle] /\ UNCHANGED <<now, generation, until, lost>>
      /\ \/ stored' = [generation |-> call[p].made, expires |-> call[p].expires] /\ broken' = broken
         \/ broken' \in 0..MaxBroken /\ stored' = stored
  BY <1>1, CredentialAssumption DEF Save, CredentialTypeOK
<1>3. stored' \in Credential /\ broken' \in 0..MaxBroken
  BY <1>1, <1>2 DEF CredentialTypeOK, Credential, Call
<1>4. generation \in Nat /\ stored.generation \in Nat /\ stored'.generation \in Nat
  BY <1>1, <1>3 DEF CredentialTypeOK, Credential, Generations
<1>5. stored'.generation >= stored.generation /\ stored'.generation <= generation
  BY <1>1, <1>2, <1>4
<1>6. /\ call \in [Rotators -> Call] /\ call' \in [Rotators -> Call]
      /\ call'[p] = Idle /\ \A q \in Rotators \ {p} : call'[q] = call[q]
  BY <1>1, <1>2, IdleCall DEF CredentialTypeOK
<1>7. \A q \in Rotators : call'[q].made = 0 /\ call'[q].state # "answer"
  <2> TAKE q \in Rotators
  <2>1. CASE q = p
    BY <2>1, <1>6 DEF Idle
  <2>2. CASE q # p
    BY <2>2, <1>1, <1>6 DEF CredentialInv
  <2> QED
    BY <2>1, <2>2
<1>8. \A q \in Rotators : call'[q].from <= stored'.generation
  <2> TAKE q \in Rotators
  <2>1. CASE q = p
    BY <2>1, <1>4, <1>6 DEF Idle
  <2>2. CASE q # p
    <3>1. call[q].from <= stored.generation /\ call[q].from \in Nat
      BY <1>1 DEF CredentialInv, CredentialTypeOK, Call, Generations
    <3> QED
      BY <2>2, <3>1, <1>4, <1>5, <1>6
  <2> QED
    BY <2>1, <2>2
<1>9. CredentialTypeOK'
  BY <1>1, <1>2, <1>3, <1>6 DEF CredentialTypeOK
<1> QED
  BY <1>2, <1>5, <1>7, <1>8, <1>9 DEF CredentialInv

LEMMA ForgetKeeps ==
    ASSUME CredentialInv, NEW p \in Rotators, Forget(p)
    PROVE  CredentialInv'
<1>1. CredentialTypeOK /\ broken' \in 0..MaxBroken /\ call' = [call EXCEPT ![p] = Idle]
      /\ UNCHANGED <<now, stored, generation, until, lost>>
  BY CredentialAssumption DEF Forget, CredentialInv, CredentialTypeOK
<1>2. /\ stored.generation \in Nat /\ generation \in Nat /\ generation <= generation
      /\ 0 <= stored.generation
  BY <1>1 DEF CredentialTypeOK, Credential, Generations
<1> QED
  BY <1>1, <1>2, IdleCall, CallChanges DEF CredentialTypeOK, Idle

(* The steps of a rotation, the clock and the rest.                          *)
LEMMA RotateKeeps ==
    ASSUME CredentialInv, NEW p \in Rotators, Rotate(p) \/ Forget(p)
    PROVE  CredentialInv' /\ stored'.generation >= stored.generation
<1>1. stored.generation \in Nat /\ stored.generation >= stored.generation
  BY DEF CredentialInv, CredentialTypeOK, Credential, Generations
<1>2. CASE Begin(p)
  BY <1>1, <1>2, BeginKeeps DEF Begin
<1>3. CASE Answered(p)
  BY <1>1, <1>3, AnsweredKeeps DEF Answered
<1>4. CASE Lost(p)
  BY <1>1, <1>4, LostKeeps DEF Lost
<1>5. CASE Save(p)
  BY <1>5, SaveKeeps
<1>6. CASE Forget(p)
  BY <1>1, <1>6, ForgetKeeps DEF Forget
<1> QED
  BY <1>2, <1>3, <1>4, <1>5, <1>6 DEF Rotate

LEMMA QuietKeeps ==
    ASSUME CredentialInv, now' \in Nat, UNCHANGED <<stored, generation, until, call, lost, broken>>
    PROVE  CredentialInv' /\ stored'.generation >= stored.generation
<1>1. stored.generation \in Nat
  BY DEF CredentialInv, CredentialTypeOK, Credential, Generations
<1>2. CredentialTypeOK'
  BY DEF CredentialInv, CredentialTypeOK
<1>3. stored' = stored /\ generation' = generation /\ call' = call
  OBVIOUS
<1> QED
  BY <1>1, <1>2, <1>3 DEF CredentialInv

-----------------------------------------------------------------------------
(* The policies                                                            *)

(* While every cached row validates: the active row of the cloud is assigned, *)
(* and the cloud's rows are there only under a cloud assignment.             *)
AssignedIsActive ==
    /\ CloudActive => cache[active].assigned
    /\ \A i \in Ids : Cached(i) /\ cache[i].source = "cloud" => CloudActive

PolicyInv ==
    /\ PolicyTypeOK
    /\ active = None => \A i \in Ids : ~Cached(i)
    /\ active # None => Cached(active)
    /\ Running => active # None /\ Loads(file)
    /\ ~Running => registry = [i \in Ids |-> None]
    /\ AllValid => AssignedIsActive
    /\ RestartRestores

LEMMA PolicyInitially == InitPolicy => PolicyInv
<1> SUFFICES ASSUME InitPolicy PROVE PolicyInv
  OBVIOUS
<1>1. PolicyTypeOK
  BY PolicyAssumption DEF InitPolicy, PolicyTypeOK
<1>2. ~Running /\ \A i \in Ids : ~Cached(i)
  BY DEF InitPolicy, Running, Cached
<1>3. AssignedIsActive /\ RestartRestores
  BY <1>2 DEF InitPolicy, AssignedIsActive, CloudActive, RestartRestores
<1>4. active = None /\ registry = [i \in Ids |-> None]
  BY DEF InitPolicy
<1> QED
  BY <1>1, <1>2, <1>3, <1>4 DEF PolicyInv

(* With a validating cache the active row is usable.                        *)
LEMMA ActiveUsable ==
    ASSUME PolicyTypeOK, active # None => Cached(active), active # None,
           AllValid, AssignedIsActive
    PROVE  Usable(active) /\ StartPolicy = [id |-> active, content |-> cache[active].content]
<1>1. active \in Ids
  BY DEF PolicyTypeOK
<1>2. Usable(active)
  BY <1>1 DEF AllValid, AssignedIsActive, Usable, CloudActive
<1> QED
  BY <1>2 DEF StartPolicy

(* The restart property is what keeps revoked documents out of reach.       *)
LEMMA RestartKeepsRevoked == PolicyInv => RevokedStaysRevoked
<1> SUFFICES ASSUME PolicyInv, AllValid, NEW i \in Ids,
                    Cached(i), cache[i].source = "cloud", ~cache[i].assigned
             PROVE  registry[i] = None
  BY DEF RevokedStaysRevoked, Revoking
<1>1. CASE ~Running
  BY <1>1 DEF PolicyInv
<1>2. CASE Running
  <2>1. CloudActive /\ cache[active].assigned /\ active # None /\ active \in Ids
    BY <1>2 DEF PolicyInv, AssignedIsActive, PolicyTypeOK, CloudActive
  <2>2. Usable(active) /\ StartPolicy.id = active
    BY <2>1, ActiveUsable DEF PolicyInv
  <2>3. i # active /\ ~Usable(i)
    BY <2>1 DEF Usable
  <2>4. StartRegistry[i] = None
    BY <2>1, <2>2, <2>3 DEF StartRegistry
  <2> QED
    BY <1>2, <2>4 DEF PolicyInv, RestartRestores
<1> QED
  BY <1>1, <1>2

LEMMA StartPolicyType ==
    ASSUME PolicyTypeOK
    PROVE  /\ StartPolicy \in Bundle /\ StartPolicy.id \in Ids
           /\ StartRegistry \in [Ids -> Contents \cup {None}]
<1>1. file \in Document
  BY PolicyAssumption DEF PolicyTypeOK
<1>2. BundleOf(file) \in Bundle /\ file.content \in Contents
  BY <1>1 DEF BundleOf, Bundle, Document
<1>3. \A i \in Ids : Cached(i) => cache[i] \in Row /\ cache[i].content \in Contents
  BY DEF PolicyTypeOK, Cached, Row
<1>4. StartPolicy \in Bundle
  <2>1. CASE active # None /\ Usable(active)
    <3>1. active \in Ids /\ Cached(active)
      BY <2>1 DEF PolicyTypeOK, Usable
    <3> QED
      BY <2>1, <3>1, <1>3 DEF StartPolicy, Bundle
  <2>2. CASE ~(active # None /\ Usable(active))
    BY <2>2, <1>2 DEF StartPolicy
  <2> QED
    BY <2>1, <2>2
<1>5. StartPolicy.id \in Ids /\ StartPolicy.content \in Contents
  BY <1>4 DEF Bundle
<1>6. \A i \in Ids : StartRegistry[i] \in Contents \cup {None}
  BY <1>2, <1>3, <1>5 DEF StartRegistry, Usable
<1> QED
  BY <1>4, <1>5, <1>6 DEF StartRegistry

LEMMA StartAgentKeeps ==
    ASSUME PolicyInv, StartAgent
    PROVE  PolicyInv' /\ Running'
<1> DEFINE s == StartPolicy
           row == [content |-> s.content, source |-> "local", assigned |-> TRUE, valid |-> TRUE]
<1>1. /\ PolicyTypeOK /\ s \in Bundle /\ s.id \in Ids /\ s.content \in Contents
      /\ StartRegistry \in [Ids -> Contents \cup {None}]
  BY StartPolicyType DEF PolicyInv, Bundle
<1>2. /\ ~Running /\ Loads(file) /\ policy' = s /\ registry' = StartRegistry
      /\ active' = s.id /\ file' = file /\ offered' = offered
      /\ cache' = (IF Cached(s.id) THEN cache ELSE [cache EXCEPT ![s.id] = row])
      /\ Cached(s.id) => cache[s.id].content = s.content
  BY DEF StartAgent, StartRefused
<1>3. row \in Row /\ row # None /\ s # None /\ s.id # None
  <2>1. s \in Bundle /\ s.id \in Ids /\ s.content \in Contents
    BY <1>1
  <2> HIDE DEF s
  <2>2. row \in Row
    BY <2>1 DEF Row
  <2> HIDE DEF row
  <2> QED
    BY <2>1, <2>2, PolicyAssumption
<1> HIDE DEF s, row
<1>4. /\ cache' \in [Ids -> Row \cup {None}]
      /\ \A i \in Ids : Cached(i) => cache'[i] = cache[i]
      /\ cache'[s.id] # None
      /\ ~Cached(s.id) => cache'[s.id] = row /\ \A i \in Ids \ {s.id} : cache'[i] = cache[i]
  BY <1>1, <1>2, <1>3 DEF PolicyTypeOK, Cached
<1>5. PolicyTypeOK' /\ Running' /\ Cached(active)' /\ active' # None /\ Loads(file)'
  BY <1>1, <1>2, <1>3, <1>4 DEF PolicyTypeOK, Running, Cached, Loads
<1>6. AllValid' => AssignedIsActive' /\ ~StartRefused' /\ (StartPolicy = policy)'
                   /\ (StartRegistry = registry)'
  <2>1. CASE active = None
    <3>1. \A i \in Ids : ~Cached(i)
      BY <2>1 DEF PolicyInv
    <3>2. s = BundleOf(file)
      BY <2>1 DEF s, StartPolicy
    <3>3. s.id = file.id /\ s.content = file.content
      BY <3>2 DEF BundleOf
    <3>4. cache'[s.id] = row /\ \A i \in Ids \ {s.id} : cache'[i] = None
      BY <1>1, <1>4, <3>1 DEF Cached
    <3>5. /\ row.source = "local" /\ row.content = s.content /\ row.valid /\ row.assigned
      BY DEF row
    <3>6. ~CloudActive' /\ \A i \in Ids : Usable(i)' <=> i = s.id
      BY <1>2, <1>3, <3>4, <3>5 DEF CloudActive, Usable, Cached
    <3>7. (StartPolicy = policy)'
      <4>1. s = [id |-> s.id, content |-> s.content]
        BY <1>1 DEF Bundle
      <4>2. StartPolicy' = [id |-> s.id, content |-> s.content]
        BY <1>1, <1>2, <1>3, <3>4, <3>5, <3>6 DEF StartPolicy
      <4> QED
        BY <4>1, <4>2, <1>2
    <3>8. ~StartRefused'
      BY <1>2, <1>5, <3>4, <3>5, <3>7 DEF StartRefused
    <3>9. \A i \in Ids : StartRegistry[i] = IF i = s.id THEN s.content ELSE None
      BY <3>1, <3>3 DEF StartRegistry, Usable, s
    <3>10. \A i \in Ids : StartRegistry'[i] = IF i = s.id THEN s.content ELSE None
      BY <1>2, <3>3, <3>6, <3>7 DEF StartRegistry
    <3>11. StartRegistry' = StartRegistry
      <4>1. StartRegistry = [i \in Ids |-> IF i = s.id THEN s.content ELSE None]
        BY <3>9 DEF StartRegistry
      <4>2. StartRegistry' = [i \in Ids |-> IF i = s.id THEN s.content ELSE None]
        BY <3>10 DEF StartRegistry
      <4> QED
        BY <4>1, <4>2
    <3>12. AssignedIsActive'
      BY <1>3, <3>4, <3>5, <3>6 DEF AssignedIsActive, Cached
    <3> QED
      BY <1>2, <3>7, <3>8, <3>11, <3>12
  <2>2. CASE active # None /\ AllValid
    <3>1. s = [id |-> active, content |-> cache[active].content] /\ Cached(active)
          /\ AssignedIsActive
      BY <2>2, ActiveUsable DEF PolicyInv, s
    <3>2. s.id = active
      BY <3>1
    <3>3. active' = active /\ cache' = cache /\ file' = file
      BY <1>2, <3>1, <3>2
    <3>4. StartPolicy' = StartPolicy /\ StartRegistry' = StartRegistry
      BY <3>3 DEF StartPolicy, StartRegistry, Usable, Cached, CloudActive, BundleOf
    <3>5. ~StartRefused'
      <4>1. ~StartRefused
        BY DEF StartAgent
      <4> QED
        BY <3>3, <3>4, <4>1 DEF StartRefused, Loads, Cached
    <3>6. AssignedIsActive'
      BY <3>1, <3>3 DEF AssignedIsActive, CloudActive, Cached
    <3> QED
      BY <1>2, <3>4, <3>5, <3>6 DEF s
  <2>3. CASE ~AllValid
    <3>1. PICK i \in Ids : Cached(i) /\ ~cache[i].valid
      BY <2>3 DEF AllValid
    <3>2. cache'[i] = cache[i]
      BY <1>4, <3>1
    <3> QED
      BY <3>1, <3>2 DEF AllValid, Cached
  <2> QED
    BY <2>1, <2>2, <2>3
<1> QED
  BY <1>5, <1>6 DEF PolicyInv, RestartRestores

(* What an installed assignment leaves in the cache.                        *)
LEMMA CacheAfterType ==
    ASSUME PolicyTypeOK, NEW a \in Assignments
    PROVE  /\ a.active \in Ids
           /\ \A i \in Ids :
                /\ CacheAfter(a)[i] \in Row \cup {None}
                /\ i \in Carried(a) =>
                     /\ ContentIn(a, i) \in Contents
                     /\ CacheAfter(a)[i] = [content |-> ContentIn(a, i), source |-> "cloud",
                                            assigned |-> TRUE, valid |-> TRUE]
                     /\ CacheAfter(a)[i] # None
                /\ i \notin Carried(a) =>
                     /\ CacheAfter(a)[i] = Revoked(cache[i])
                     /\ CacheAfter(a)[i] # None =>
                          ~(CacheAfter(a)[i].source = "cloud" /\ CacheAfter(a)[i].assigned)
<1>1. a.docs \in Seq(Document) /\ a.active \in Ids
  BY PolicyAssumption
<1>2. \A d \in Documents(a) : d \in Document /\ d.content \in Contents
  <2>1. \A k \in DOMAIN a.docs : a.docs[k] \in Document
    BY <1>1
  <2>2. \A d \in Document : d.content \in Contents
    BY DEF Document
  <2> QED
    BY <2>1, <2>2 DEF Documents
<1>3. ASSUME NEW i \in Ids PROVE
        /\ CacheAfter(a)[i] \in Row \cup {None}
        /\ i \in Carried(a) =>
             /\ ContentIn(a, i) \in Contents
             /\ CacheAfter(a)[i] = [content |-> ContentIn(a, i), source |-> "cloud",
                                    assigned |-> TRUE, valid |-> TRUE]
             /\ CacheAfter(a)[i] # None
        /\ i \notin Carried(a) =>
             /\ CacheAfter(a)[i] = Revoked(cache[i])
             /\ CacheAfter(a)[i] # None =>
                  ~(CacheAfter(a)[i].source = "cloud" /\ CacheAfter(a)[i].assigned)
  <2>1. CASE i \in Carried(a)
    <3>1. ContentIn(a, i) \in Contents
      <4>1. PICK d \in Documents(a) : d.id = i
        BY <2>1 DEF Carried
      <4>2. (CHOOSE e \in Documents(a) : e.id = i) \in Documents(a)
        BY <4>1
      <4> QED
        BY <4>2, <1>2 DEF ContentIn
    <3>2. CacheAfter(a)[i] = [content |-> ContentIn(a, i), source |-> "cloud",
                              assigned |-> TRUE, valid |-> TRUE]
      BY <2>1 DEF CacheAfter
    <3>3. CacheAfter(a)[i] \in Row
      BY <3>1, <3>2 DEF Row
    <3> QED
      BY <2>1, <3>1, <3>2, <3>3, PolicyAssumption
  <2>2. CASE i \notin Carried(a)
    <3>1. CacheAfter(a)[i] = Revoked(cache[i]) /\ cache[i] \in Row \cup {None}
      BY <2>2 DEF CacheAfter, PolicyTypeOK
    <3>2. CASE cache[i] \in Row /\ cache[i].source = "cloud"
      <4> DEFINE r == [cache[i] EXCEPT !.assigned = FALSE]
      <4>1. r \in Row /\ ~r.assigned
        BY <3>2 DEF Row
      <4>2. Revoked(cache[i]) = r
        BY <3>2, PolicyAssumption DEF Revoked
      <4> HIDE DEF r
      <4> QED
        BY <2>2, <3>1, <4>1, <4>2
    <3>3. CASE ~(cache[i] \in Row /\ cache[i].source = "cloud")
      <4>1. Revoked(cache[i]) = cache[i]
        BY <3>1, <3>3 DEF Revoked
      <4> QED
        BY <2>2, <3>1, <3>3, <4>1
    <3> QED
      BY <3>2, <3>3
  <2> QED
    BY <2>1, <2>2
<1> QED
  BY <1>1, <1>3

(* An installed assignment is what a restart would find.                     *)
LEMMA InstalledKeeps ==
    ASSUME PolicyInv, Running, NEW a \in Assignments, Installed(a)
    PROVE  PolicyInv' /\ Running'
<1> DEFINE after == CacheAfter(a)
<1>1. /\ PolicyTypeOK /\ Loads(file) /\ a.active \in Ids /\ a.active \in Carried(a)
      /\ cache' = after /\ active' = a.active /\ file' = file /\ offered' = offered
      /\ policy' = [id |-> a.active, content |-> ContentIn(a, a.active)]
      /\ registry' = [i \in Ids |-> IF i \in Carried(a) THEN ContentIn(a, i) ELSE None]
  BY CacheAfterType DEF PolicyInv, Installed, Validates
<1>2. after = [i \in Ids |-> after[i]]
  BY DEF CacheAfter
<1> HIDE DEF after
<1>3. \A i \in Ids : after[i] \in Row \cup {None}
  BY <1>1, CacheAfterType DEF after
<1>4. \A i \in Ids : i \in Carried(a) =>
        /\ ContentIn(a, i) \in Contents /\ after[i] # None
        /\ after[i].content = ContentIn(a, i) /\ after[i].source = "cloud"
        /\ after[i].assigned /\ after[i].valid
  <2> SUFFICES ASSUME NEW i \in Ids, i \in Carried(a)
               PROVE  /\ ContentIn(a, i) \in Contents /\ after[i] # None
                      /\ after[i].content = ContentIn(a, i) /\ after[i].source = "cloud"
                      /\ after[i].assigned /\ after[i].valid
    OBVIOUS
  <2>1. /\ after[i] = [content |-> ContentIn(a, i), source |-> "cloud",
                       assigned |-> TRUE, valid |-> TRUE]
        /\ ContentIn(a, i) \in Contents /\ after[i] # None
    BY <1>1, CacheAfterType DEF after
  <2> QED
    BY <2>1
<1>5. \A i \in Ids : i \notin Carried(a) =>
        (after[i] # None => ~(after[i].source = "cloud" /\ after[i].assigned))
  BY <1>1, CacheAfterType DEF after
<1>6. policy' \in Bundle /\ policy' # None
  BY <1>1, <1>4, PolicyAssumption DEF Bundle
<1>7. PolicyTypeOK'
  BY <1>1, <1>2, <1>3, <1>4, <1>6 DEF PolicyTypeOK
<1>8. Running' /\ Loads(file)' /\ Cached(active)' /\ active' # None /\ CloudActive'
  BY <1>1, <1>4, <1>6, PolicyAssumption DEF Running, Loads, Cached, CloudActive
<1>9. \A i \in Ids : Usable(i)' <=> i \in Carried(a)
  BY <1>1, <1>4, <1>5, <1>8 DEF Usable, Cached
<1>10. StartPolicy' = policy'
  <2>1. Usable(active)'
    BY <1>1, <1>9 DEF Usable, Cached, CloudActive
  <2> QED
    BY <1>1, <1>4, <1>8, <2>1 DEF StartPolicy
<1>11. StartRegistry' = registry'
  <2>1. StartPolicy.id' = a.active /\ StartPolicy.content' = ContentIn(a, a.active)
    BY <1>1, <1>10
  <2>2. \A i \in Ids : StartRegistry'[i] = IF i \in Carried(a) THEN ContentIn(a, i) ELSE None
    BY <1>1, <1>4, <1>8, <1>9, <2>1 DEF StartRegistry
  <2> QED
    BY <1>1, <2>2 DEF StartRegistry
<1>12. ~StartRefused'
  <2>1. StartPolicy' = [id |-> a.active, content |-> ContentIn(a, a.active)]
    BY <1>1, <1>10
  <2> QED
    BY <1>1, <1>4, <1>8, <2>1 DEF StartRefused
<1>13. AssignedIsActive'
  BY <1>1, <1>4, <1>8 DEF AssignedIsActive
<1> QED
  BY <1>7, <1>8, <1>10, <1>11, <1>12, <1>13 DEF PolicyInv, RestartRestores

(* What happens outside: a new offer, a damaged row, an edited file, the end  *)
(* of the process.                                                          *)
LEMMA PublishKeeps ==
    ASSUME PolicyInv, NEW a \in Assignments, Publish(a)
    PROVE  PolicyInv' /\ (Running' <=> Running)
<1>1. UNCHANGED <<file, cache, active, policy, registry>> /\ offered' \in Assignments
  BY DEF Publish
<1>2. PolicyTypeOK'
  BY <1>1 DEF PolicyInv, PolicyTypeOK
<1> QED
  BY <1>1, <1>2 DEF PolicyInv, Running, Cached, Loads, AllValid, AssignedIsActive, CloudActive,
                    RestartRestores, StartRefused, StartPolicy, StartRegistry, Usable, BundleOf

LEMMA CorruptKeeps ==
    ASSUME PolicyInv, NEW i \in Ids, Corrupt(i)
    PROVE  PolicyInv' /\ (Running' <=> Running)
<1> DEFINE row == [cache[i] EXCEPT !.valid = FALSE]
<1>1. /\ PolicyTypeOK /\ Cached(i) /\ cache' = [cache EXCEPT ![i] = row]
      /\ UNCHANGED <<file, active, policy, registry, offered>>
  BY DEF PolicyInv, Corrupt
<1>2. row \in Row /\ row # None /\ ~row.valid
  BY <1>1, PolicyAssumption DEF PolicyTypeOK, Cached, Row
<1> HIDE DEF row
<1>3. /\ cache' \in [Ids -> Row \cup {None}] /\ cache'[i] = row
      /\ \A j \in Ids : Cached(j)' <=> Cached(j)
  BY <1>1, <1>2 DEF PolicyTypeOK, Cached
<1>4. PolicyTypeOK'
  BY <1>1, <1>3 DEF PolicyTypeOK
<1>5. ~AllValid'
  BY <1>2, <1>3 DEF AllValid, Cached
<1>6. active' # None => Cached(active)'
  <2>1. active \in Ids \cup {None}
    BY <1>1 DEF PolicyTypeOK
  <2> QED
    BY <1>1, <1>2, <1>3, <2>1 DEF PolicyInv, PolicyTypeOK, Cached
<1>7. active' = None => \A j \in Ids : ~Cached(j)'
  BY <1>1, <1>3 DEF PolicyInv
<1>8. (Running' <=> Running) /\ (Loads(file)' <=> Loads(file)) /\ registry' = registry
  BY <1>1 DEF Running, Loads
<1> QED
  BY <1>1, <1>4, <1>5, <1>6, <1>7, <1>8 DEF PolicyInv, RestartRestores

LEMMA EditFileKeeps ==
    ASSUME PolicyInv, NEW f \in LocalFiles, EditFile(f)
    PROVE  PolicyInv' /\ ~Running /\ ~Running'
<1>1. UNCHANGED <<cache, active, policy, registry, offered>> /\ file' \in LocalFiles /\ ~Running
  BY DEF EditFile
<1>2. PolicyTypeOK'
  BY <1>1 DEF PolicyInv, PolicyTypeOK
<1>3. ~Running'
  BY <1>1 DEF Running
<1>4. (AllValid' => AssignedIsActive') /\ RestartRestores'
  BY <1>1, <1>3 DEF PolicyInv, AllValid, AssignedIsActive, CloudActive, Cached, RestartRestores
<1> QED
  BY <1>1, <1>2, <1>3, <1>4 DEF PolicyInv, Cached

LEMMA StopAgentKeeps ==
    ASSUME PolicyInv, StopAgent
    PROVE  PolicyInv' /\ ~Running'
<1>1. /\ UNCHANGED <<file, cache, active, offered>> /\ policy' = None
      /\ registry' = [i \in Ids |-> None]
  BY DEF StopAgent
<1>2. PolicyTypeOK'
  BY <1>1 DEF PolicyInv, PolicyTypeOK
<1>3. ~Running'
  BY <1>1 DEF Running
<1>4. (AllValid' => AssignedIsActive') /\ RestartRestores'
  BY <1>1, <1>3 DEF PolicyInv, AllValid, AssignedIsActive, CloudActive, Cached, RestartRestores
<1> QED
  BY <1>1, <1>2, <1>3, <1>4 DEF PolicyInv, Cached

LEMMA UntouchedPolicies ==
    ASSUME PolicyInv, UNCHANGED pvars
    PROVE  PolicyInv' /\ (Running' <=> Running)
<1>1. UNCHANGED <<file, cache, active, policy, registry, offered>>
  BY DEF pvars
<1>2. PolicyTypeOK'
  BY <1>1 DEF PolicyInv, PolicyTypeOK
<1> QED
  BY <1>1, <1>2 DEF PolicyInv, Running, Cached, Loads, AllValid, AssignedIsActive, CloudActive,
                    RestartRestores, StartRefused, StartPolicy, StartRegistry, Usable, BundleOf

-----------------------------------------------------------------------------
(* The service loop                                                        *)

AgentInv == TypeOK /\ CredentialInv /\ PolicyInv

LEMMA AgentInitially == Init => AgentInv
<1> SUFFICES ASSUME Init PROVE AgentInv
  OBVIOUS
<1>1. CredentialInv /\ PolicyInv
  BY CredentialInitially, PolicyInitially DEF Init
<1>2. ~Running
  BY DEF Init, InitPolicy, Running
<1>3. TypeOK
  <2>1. stage \in Stages /\ stage = "down" /\ job \in Triggers \cup {None}
    BY DEF Init, Stages
  <2>2. startup \in BOOLEAN /\ requested \in BOOLEAN
    BY DEF Init
  <2>3. due \in Nat
    BY LoopAssumption DEF Init
  <2> QED
    BY <1>1, <1>2, <2>1, <2>2, <2>3 DEF TypeOK, CredentialInv, PolicyInv
<1> QED
  BY <1>1, <1>3 DEF AgentInv

LEMMA NextRunType == ASSUME now \in Nat PROVE NextRuns \subseteq Nat
<1>1. ASSUME NEW d \in 0..Jitter PROVE now + Interval + d \in Nat /\ now + Interval - d \in Nat
  BY LoopAssumption
<1> QED
  BY <1>1 DEF NextRuns

(* The variables of the loop alone.                                        *)
LoopType ==
    /\ job \in Triggers \cup {None}
    /\ startup \in BOOLEAN /\ requested \in BOOLEAN
    /\ due \in Nat

LEMMA LoopTypeKept == ASSUME TypeOK, Next PROVE LoopType'
<1>1. /\ job \in Triggers \cup {None} /\ startup \in BOOLEAN /\ requested \in BOOLEAN
      /\ due \in Nat /\ now \in Nat
  BY DEF TypeOK, CredentialTypeOK
<1>2. NextRuns \subseteq Nat
  BY <1>1, NextRunType
<1> USE DEF LoopType, sched
<1>3. CASE Start
  <2>1. startup' \in BOOLEAN /\ requested' \in BOOLEAN
    BY <1>3, LoopAssumption DEF Start
  <2>2. due' \in Nat /\ job' = job
    BY <1>2, <1>3 DEF Start
  <2> QED
    BY <1>1, <2>1, <2>2
<1>4. CASE Loop
  <2>1. CASE Maintain \/ Rotating \/ Rotated \/ PolicyOffline \/ PolicyKept \/ FetchNothing \/ Wake
    BY <1>1, <2>1 DEF Maintain, Rotating, Rotated, PolicyOffline, PolicyKept, FetchNothing, Wake,
                      lvars
  <2>2. CASE PolicyInstalled
    BY <1>1, <2>2, LoopAssumption DEF PolicyInstalled
  <2>3. CASE FetchJob
    BY <1>1, <2>3, LoopAssumption DEF FetchJob, Triggers
  <2>4. CASE Poll
    <3>1. CASE Polled
      BY <1>1, <1>2, <2>4, <3>1 DEF Poll, Polled, Triggers
    <3>2. CASE ~Polled
      BY <1>1, <2>4, <3>2 DEF Poll
    <3> QED
      BY <3>1, <3>2
  <2>5. CASE Scan
    BY <1>1, <2>5 DEF Scan
  <2> QED
    BY <1>4, <2>1, <2>2, <2>3, <2>4, <2>5 DEF Loop
<1>5. CASE Environment
  <2>1. CASE Command \/ Outside
    BY <1>1, <2>1 DEF Command, Outside, lvars
  <2>2. CASE SigHup
    BY <1>1, <2>2 DEF SigHup
  <2>3. CASE Crash
    <3>1. startup' \in BOOLEAN /\ requested' \in BOOLEAN
      BY <2>3 DEF Crash
    <3>2. due' \in Nat /\ job' \in Triggers \cup {None}
      BY <2>3 DEF Crash
    <3> QED
      BY <1>1, <3>1, <3>2
  <2> QED
    BY <1>5, <2>1, <2>2, <2>3 DEF Environment
<1> QED
  BY <1>3, <1>4, <1>5 DEF Next

LEMMA CredentialKept ==
    ASSUME CredentialInv, [Next]_vars
    PROVE  CredentialInv' /\ stored'.generation >= stored.generation
<1>1. now \in Nat /\ Service \in Rotators
  BY CredentialAssumption DEF CredentialInv, CredentialTypeOK
<1>2. CASE UNCHANGED cvars
  BY <1>1, <1>2, QuietKeeps DEF cvars
<1>3. CASE \E p \in Rotators : Rotate(p) \/ Forget(p)
  BY <1>3, RotateKeeps
<1>4. CASE Wake
  <2>1. now' \in Nat
    BY <1>1, <1>4 DEF Wake
  <2> QED
    BY <1>4, <2>1, QuietKeeps DEF Wake
<1>5. CASE Next /\ ~Wake
  <2>1. CASE Start
    BY <1>2, <2>1 DEF Start
  <2>2. CASE Loop
    <3>1. CASE Maintain
      BY <1>1, <1>2, <1>3, <3>1 DEF Maintain, Rotate
    <3>2. CASE Rotating
      BY <1>1, <1>3, <3>2 DEF Rotating, Rotate
    <3>3. CASE Rotated \/ PolicyOffline \/ PolicyKept \/ PolicyInstalled \/ FetchJob
               \/ FetchNothing \/ Poll \/ Scan
      BY <1>2, <3>3 DEF Rotated, PolicyOffline, PolicyKept, PolicyInstalled, FetchJob,
                        FetchNothing, Poll, Scan
    <3> QED
      BY <1>5, <2>2, <3>1, <3>2, <3>3 DEF Loop
  <2>3. CASE Environment
    <3>1. CASE Command
      BY <1>3, <3>1 DEF Command
    <3>2. CASE Outside \/ SigHup
      BY <1>2, <3>2 DEF Outside, SigHup
    <3>3. CASE Crash
      BY <1>1, <1>3, <3>3 DEF Crash
    <3> QED
      BY <2>3, <3>1, <3>2, <3>3 DEF Environment
  <2> QED
    BY <1>5, <2>1, <2>2, <2>3 DEF Next
<1> QED
  BY <1>2, <1>4, <1>5 DEF vars

(* Each step changes the policies by one of their operations, and the stage  *)
(* says whether the agent runs.                                            *)
LEMMA PoliciesKept ==
    ASSUME TypeOK, PolicyInv, Next
    PROVE  PolicyInv' /\ stage' \in Stages /\ (stage' = "down" <=> ~Running')
<1>1. stage \in Stages /\ (stage = "down" <=> ~Running)
  BY DEF TypeOK
<1> USE DEF Stages
<1>2. CASE Start
  BY <1>2, StartAgentKeeps DEF Start
<1>3. CASE Loop
  <2>1. CASE PolicyInstalled
    <3>1. Running /\ offered \in Assignments /\ Installed(offered)
      BY <1>1, <2>1 DEF PolicyInstalled, TypeOK, PolicyTypeOK
    <3> QED
      BY <2>1, <3>1, InstalledKeeps DEF PolicyInstalled
  <2>2. CASE Loop /\ ~PolicyInstalled
    <3>1. /\ UNCHANGED pvars /\ stage # "down" /\ stage' \in Stages \ {"down"}
      BY <1>1, <2>2 DEF Loop, Maintain, Rotating, Rotated, PolicyOffline, PolicyKept, FetchJob,
                        FetchNothing, Poll, Scan, Wake, lvars
    <3> QED
      BY <1>1, <3>1, UntouchedPolicies
  <2> QED
    BY <1>3, <2>1, <2>2
<1>4. CASE Command \/ SigHup
  BY <1>1, <1>4, UntouchedPolicies DEF Command, SigHup, lvars
<1>5. CASE Outside
  <2>1. stage' = stage
    BY <1>5 DEF Outside, lvars
  <2> QED
    BY <1>1, <1>5, <2>1, PublishKeeps, CorruptKeeps, EditFileKeeps DEF Outside
<1>6. CASE Crash
  BY <1>6, StopAgentKeeps DEF Crash
<1> QED
  BY <1>2, <1>3, <1>4, <1>5, <1>6 DEF Next, Environment

LEMMA AgentStep ==
    ASSUME AgentInv, [Next]_vars
    PROVE  AgentInv'
<1>1. CredentialInv'
  BY CredentialKept DEF AgentInv
<1>2. CASE Next
  <2>1. PolicyInv' /\ stage' \in Stages /\ (stage' = "down" <=> ~Running')
    BY <1>2, PoliciesKept DEF AgentInv
  <2>2. LoopType'
    BY <1>2, LoopTypeKept DEF AgentInv
  <2> QED
    BY <1>1, <2>1, <2>2 DEF AgentInv, TypeOK, CredentialInv, PolicyInv, LoopType
<1>3. CASE UNCHANGED vars
  <2>1. PolicyInv' /\ (Running' <=> Running)
    BY <1>3, UntouchedPolicies DEF AgentInv, vars
  <2>2. UNCHANGED <<stage, job, startup, requested, due>>
    BY <1>3 DEF vars, lvars, sched
  <2> QED
    BY <1>1, <2>1, <2>2 DEF AgentInv, TypeOK, CredentialInv, PolicyInv
<1> QED
  BY <1>2, <1>3

THEOREM AgentInvariant == Spec => []AgentInv
<1>1. Init => AgentInv
  BY AgentInitially
<1>2. AgentInv /\ [Next]_vars => AgentInv'
  BY AgentStep
<1> QED
  BY <1>1, <1>2, PTL DEF Spec

(* The variables of the credential, the policies and the loop keep their     *)
(* types, and the stage says whether the agent runs.                         *)
THEOREM TypeCorrect == Spec => []TypeOK
<1>1. AgentInv => TypeOK
  BY DEF AgentInv
<1> QED
  BY <1>1, AgentInvariant, PTL

(* However many processes rotate the store, whatever is lost and retried,    *)
(* EnrollmentService.rotate never saves a generation older than the stored.   *)
THEOREM StoredForward == Spec => StoredNeverGoesBack
<1>1. AgentInv /\ [Next]_vars => [stored'.generation >= stored.generation]_cvars
  BY CredentialKept DEF AgentInv
<1> QED
  BY <1>1, AgentInvariant, PTL DEF Spec, StoredNeverGoesBack

(* What _from_loaded_settings and the constructor build from the cache is    *)
(* what install_policy_assignment left in memory.                           *)
THEOREM RestartRestored == Spec => []RestartRestores
<1>1. AgentInv => RestartRestores
  BY DEF AgentInv, PolicyInv
<1> QED
  BY <1>1, AgentInvariant, PTL

(* A document the current assignment omits is not in the registry.           *)
THEOREM RevokedCorrect == Spec => []RevokedStaysRevoked
<1>1. AgentInv => RevokedStaysRevoked
  BY RestartKeepsRevoked DEF AgentInv
<1> QED
  BY <1>1, AgentInvariant, PTL


-----------------------------------------------------------------------------
(* Access                                                                  *)

(* How the rotation is set up.  The margin covers the time between two       *)
(* iterations and is shorter than the life of a credential; the overlap      *)
(* outlasts a call with its retries (24 hours, 30 days and 5 minutes by       *)
(* default).  The model's bound on the generations is not met before the      *)
(* clock stops.                                                            *)
RotationAhead ==
    /\ Margin >= 1 /\ Margin < Life /\ Overlap >= 1
    /\ MaxManual >= 1 /\ MaxGeneration > MaxManual + MaxTime

(* No fault that outlives the transport's retries.                          *)
Faultless == lost < MaxAttempts /\ broken = 0

(* The stored credential outlives the next poll interval.                   *)
Renewed == now + 1 < stored.expires

(* Past the maintenance no call is under way; a running agent is enrolled.   *)
LoopInv ==
    /\ now <= MaxTime
    /\ stage \in {"policy", "fetch", "poll", "scan", "rest"} => NoCall
    /\ stage # "down" => stored.generation # 0

(* All attempts of a call but the last were lost.                           *)
LossesCounted == \A p \in Rotators : call[p].attempt <= lost + 1

(* Only a call under way knows a generation that is not stored; what it made  *)
(* lives from now, and the generation it superseded is still accepted.       *)
CallsCurrent ==
    /\ stored.generation = generation \/ \E p \in Rotators : call[p].made # 0
    /\ stored.generation = generation /\ generation # 0 => until[generation] = stored.expires
    /\ \A p \in Rotators :
         /\ call[p].made # 0 => /\ until[call[p].made] = now + Life
                                /\ now < until[call[p].from]
         /\ call[p].state = "answer" => call[p].expires = now + Life

(* The service rotates at most once a tick.                                 *)
FewGenerations ==
    /\ generation <= MaxManual + now + 1
    /\ Expired(Margin) => stored.generation <= MaxManual + now
    /\ \A p \in Rotators : call[p].from <= MaxManual + now

(* What the steps of the calls keep, whatever the loop is doing.             *)
AccessCore ==
    /\ stored.generation # 0 => Authenticated
    /\ CallsCurrent /\ FewGenerations

(* Maintenance that has begun is on the way to a renewed credential: the      *)
(* service asks for the stored one's successor, or another call has it.      *)
Renewing ==
    \/ Renewed \/ generation # stored.generation
    \/ call[Service].state = "sending" /\ call[Service].from = stored.generation

RenewedInTime ==
    /\ stage = "rotating" => Renewing
    /\ stage \in {"policy", "fetch", "poll", "scan", "rest"} => Renewed

AccessInv ==
    /\ LoopInv
    /\ Faultless => LossesCounted /\ AccessCore /\ RenewedInTime

(* The numbers of the credential.                                           *)
LEMMA CredentialNumbers ==
    ASSUME CredentialInv
    PROVE  /\ now \in Nat /\ generation \in Nat /\ stored.generation \in Nat
           /\ stored.expires \in Nat /\ until \in [Generations -> Nat] /\ lost \in Nat /\ broken \in Nat
           /\ Life \in Nat /\ Margin \in Nat /\ Overlap \in Nat /\ MaxAttempts \in Nat
           /\ MaxGeneration \in Nat /\ MaxManual \in Nat /\ Service \in Rotators
           /\ stored.generation <= generation /\ generation <= MaxGeneration
           /\ generation \in Generations /\ stored.generation \in Generations
           /\ \A p \in Rotators : /\ call[p] \in Call
                                  /\ call[p].from \in Generations /\ call[p].from \in Nat
                                  /\ call[p].made \in Generations /\ call[p].made \in Nat
                                  /\ call[p].expires \in Nat /\ call[p].attempt \in Nat
<1>1. CredentialTypeOK /\ CredentialAssumption
  BY CredentialAssumption DEF CredentialInv
<1>2. generation \in Generations /\ stored \in Credential /\ until \in [Generations -> Nat]
      /\ now \in Nat /\ lost \in 0..MaxLost /\ broken \in 0..MaxBroken
  BY <1>1 DEF CredentialTypeOK
<1>3. stored.generation \in Generations /\ stored.expires \in Nat
  BY <1>2 DEF Credential
<1>4. \A p \in Rotators : /\ call[p] \in Call
                          /\ call[p].from \in Generations
                          /\ call[p].made \in Generations
                          /\ call[p].expires \in Nat /\ call[p].attempt \in Nat
  BY <1>1, CredentialAssumption DEF CredentialTypeOK, Call
<1>5. stored.generation <= generation
  BY DEF CredentialInv
<1> QED
  BY <1>2, <1>3, <1>4, <1>5, CredentialAssumption DEF Generations

(* What a request is answered with, as long as what was made for it can be    *)
(* replayed: that, or a new generation for the one that is stored, or it is   *)
(* refused.                                                                *)
LEMMA IssuedInTime ==
    ASSUME CredentialInv, CallsCurrent, NEW p \in Rotators,
           NEW n, n = Issued(call[p].from, call[p].made)
    PROVE  \/ n # 0 /\ n = call[p].made /\ n = generation
           \/ /\ n = generation + 1 /\ call[p].from = generation /\ stored.generation = generation
              /\ now < until[call[p].from] /\ generation < MaxGeneration
              /\ \A q \in Rotators : call[q].made = 0
           \/ /\ n = 0 /\ call[p].made = 0
              /\ \/ ~Accepts(call[p].from) \/ call[p].from # generation
                 \/ generation >= MaxGeneration
<1> DEFINE from == call[p].from  made == call[p].made
<1>1. /\ from \in Nat /\ made \in Nat /\ from <= stored.generation /\ from <= generation
      /\ generation \in Nat /\ stored.generation \in Nat /\ stored.generation <= generation
      /\ MaxGeneration \in Nat
  BY CredentialNumbers DEF CredentialInv
<1>2. made # 0 => Accepts(from) /\ made = generation
  BY <1>1 DEF CallsCurrent, CredentialInv, Accepts
<1>3. CASE made # 0
  BY <1>2, <1>3 DEF Issued
<1>4. CASE made = 0 /\ Accepts(from) /\ from = generation /\ generation < MaxGeneration
  <2>1. n = generation + 1 /\ now < until[from]
    BY <1>4 DEF Issued, MayRotate, Accepts
  <2>2. stored.generation = generation
    BY <1>1, <1>4
  <2>3. \A q \in Rotators : call[q].made = 0
    BY <2>2, <1>1 DEF CredentialInv
  <2> QED
    BY <1>4, <2>1, <2>2, <2>3
<1>5. CASE made = 0 /\ ~Accepts(from)
  BY <1>5 DEF Issued
<1>6. CASE made = 0 /\ Accepts(from) /\ ~(from = generation /\ generation < MaxGeneration)
  <2>1. n = 0
    BY <1>6 DEF Issued, MayRotate
  <2> QED
    BY <1>1, <1>6, <2>1
<1> QED
  BY <1>3, <1>4, <1>5, <1>6

(* A generation that is superseded stays accepted for the overlap, its         *)
(* successor for a life.                                                   *)
LEMMA SupersededInTime ==
    ASSUME CredentialInv, RotationAhead, NEW g \in Generations, NEW n \in Generations,
           now < until[g]
    PROVE  /\ n = generation + 1 /\ g = generation
              => Superseded(g, n)[n] = now + Life /\ now < Superseded(g, n)[g]
           /\ n <= generation => Superseded(g, n) = until
<1>1. /\ now \in Nat /\ until \in [Generations -> Nat] /\ until[g] \in Nat /\ generation \in Nat
      /\ n \in Nat /\ g \in Nat /\ Overlap \in Nat /\ Overlap >= 1
  BY CredentialNumbers DEF RotationAhead, Generations
<1>2. CASE n = generation + 1 /\ g = generation
  <2> DEFINE u == IF g = 0 \/ until[g] < now + Overlap THEN until[g] ELSE now + Overlap
  <2>1. Superseded(g, n) = [until EXCEPT ![g] = u, ![n] = now + Life]
    BY <1>1, <1>2 DEF Superseded
  <2>2. now < u
    BY <1>1
  <2>3. n # g
    BY <1>1, <1>2
  <2> HIDE DEF u
  <2>4. Superseded(g, n)[n] = now + Life /\ Superseded(g, n)[g] = u
    BY <1>1, <2>1, <2>3
  <2>5. ~(n <= generation)
    BY <1>1, <1>2
  <2> QED
    BY <2>2, <2>4, <2>5
<1>3. CASE n <= generation
  BY <1>1, <1>3 DEF Superseded
<1> QED
  BY <1>1, <1>2, <1>3


(* A served request.  What it made is in the call from now on; a refusal      *)
(* means that the stored generation has a successor.                         *)
LEMMA ServedAccess ==
    ASSUME CredentialInv, CredentialInv', RotationAhead, now <= MaxTime, AccessCore,
           NEW p \in Rotators, NEW c \in Call,
           NEW n, n = Issued(call[p].from, call[p].made),
           generation' = (IF n > generation THEN n ELSE generation),
           until' = Superseded(call[p].from, n),
           call' = [call EXCEPT ![p] = c], UNCHANGED <<stored, now>>,
           n # 0 => c.made = n /\ c.from = call[p].from,
           n = 0 => c = Idle \/ (c.made = 0 /\ c.from = call[p].from /\ c.state = "sending"),
           c.state = "answer" => n # 0 /\ c.expires = until'[n]
    PROVE  AccessCore' /\ (stored.generation # 0 /\ Renewing => Renewing')
<1> DEFINE from == call[p].from
<1>1. /\ now \in Nat /\ generation \in Nat /\ stored.generation \in Nat /\ stored.expires \in Nat
      /\ from \in Nat /\ from \in Generations /\ call[p].made \in Nat
      /\ stored.generation \in Generations /\ generation \in Generations
      /\ stored.generation <= generation /\ from <= stored.generation
      /\ Life \in Nat /\ Margin \in Nat /\ MaxManual \in Nat /\ MaxGeneration \in Nat
  BY CredentialNumbers DEF CredentialInv
<1>2. /\ \/ n # 0 /\ n = call[p].made /\ n = generation
         \/ /\ n = generation + 1 /\ from = generation /\ stored.generation = generation
            /\ now < until[from] /\ generation < MaxGeneration
            /\ \A q \in Rotators : call[q].made = 0
         \/ /\ n = 0 /\ call[p].made = 0
            /\ ~Accepts(from) \/ from # generation \/ generation >= MaxGeneration
      /\ n \in Generations
  BY IssuedInTime, IssuedGeneration DEF AccessCore
<1>3. /\ generation' = (IF n > generation THEN n ELSE generation)
      /\ until' = Superseded(from, n) /\ stored' = stored /\ now' = now
      /\ n # 0 => c.made = n /\ c.from = from
      /\ n = 0 => c = Idle \/ (c.made = 0 /\ c.from = from /\ c.state = "sending")
      /\ c.state = "answer" => n # 0 /\ c.expires = until'[n]
  OBVIOUS
<1>4. /\ call \in [Rotators -> Call] /\ call'[p] = c
      /\ \A q \in Rotators \ {p} : call'[q] = call[q]
  BY DEF CredentialInv, CredentialTypeOK
<1>5. CASE n = generation + 1 /\ from = generation /\ stored.generation = generation
           /\ now < until[from] /\ generation < MaxGeneration
           /\ \A q \in Rotators : call[q].made = 0
  <2>1. n # 0 /\ generation' = n /\ stored'.generation < generation' /\ c.made = n
    BY <1>1, <1>3, <1>5
  <2>2. until'[n] = now + Life /\ now < until'[from]
    BY <1>1, <1>2, <1>3, <1>5, SupersededInTime
  <2>3. AccessCore'
    <3>1. stored'.generation # 0 => Authenticated'
      BY <1>1, <1>3, <1>5, <2>1, <2>2 DEF AccessCore, Authenticated, Expired, Accepts
    <3>2. \A q \in Rotators : /\ call'[q].made # 0 => /\ until'[call'[q].made] = now' + Life
                                                      /\ now' < until'[call'[q].from]
                              /\ call'[q].state = "answer" => call'[q].expires = now' + Life
      <4> TAKE q \in Rotators
      <4>1. CASE q = p
        BY <4>1, <1>3, <1>4, <2>1, <2>2
      <4>2. CASE q # p
        <5>1. call'[q] = call[q] /\ call[q].made = 0 /\ call[q].state # "answer"
          BY <4>2, <1>4, <1>5 DEF CredentialInv
        <5> QED
          BY <5>1
      <4> QED
        BY <4>1, <4>2
    <3>3. CallsCurrent'
      BY <1>1, <1>4, <2>1, <3>2 DEF CallsCurrent
    <3>4. FewGenerations'
      <4>1. from <= MaxManual + now
        BY DEF AccessCore, FewGenerations
      <4>2. \A q \in Rotators : call'[q].from <= MaxManual + now
        BY <4>1, <1>3, <1>4, <2>1 DEF AccessCore, FewGenerations
      <4> QED
        BY <1>1, <1>3, <1>5, <2>1, <4>1, <4>2 DEF AccessCore, FewGenerations, Expired
    <3> QED
      BY <3>1, <3>3, <3>4 DEF AccessCore
  <2> QED
    BY <1>1, <2>1, <2>3 DEF Renewing
<1>6. CASE n # 0 /\ n = call[p].made /\ n = generation
  <2>1. generation' = generation /\ c.made = n /\ c.from = from /\ stored.generation < generation
    BY <1>1, <1>3, <1>6 DEF CredentialInv
  <2>2. until' = until
    <3>1. now < until[from]
      BY <1>6 DEF AccessCore, CallsCurrent
    <3> QED
      BY <3>1, <1>1, <1>2, <1>3, <1>6, SupersededInTime
  <2>3. until[n] = now + Life /\ now < until[from]
    BY <1>6 DEF AccessCore, CallsCurrent
  <2>4. \A q \in Rotators : /\ call'[q].made # 0 => /\ until'[call'[q].made] = now' + Life
                                                    /\ now' < until'[call'[q].from]
                            /\ call'[q].state = "answer" => call'[q].expires = now' + Life
                            /\ call'[q].from <= MaxManual + now'
    <3> TAKE q \in Rotators
    <3>1. CASE q = p
      BY <3>1, <1>3, <1>4, <2>1, <2>2, <2>3 DEF AccessCore, FewGenerations
    <3>2. CASE q # p
      BY <3>2, <1>3, <1>4, <2>2 DEF AccessCore, CallsCurrent, FewGenerations
    <3> QED
      BY <3>1, <3>2
  <2>5. CallsCurrent'
    BY <1>1, <1>3, <1>4, <1>6, <2>1, <2>4 DEF CallsCurrent
  <2>6. (stored'.generation # 0 => Authenticated') /\ FewGenerations'
    BY <1>3, <2>1, <2>2, <2>4 DEF AccessCore, Authenticated, Expired, Accepts, FewGenerations
  <2> QED
    BY <1>1, <1>3, <2>1, <2>5, <2>6 DEF AccessCore, Renewing
<1>7. CASE n = 0 /\ call[p].made = 0
           /\ (~Accepts(from) \/ from # generation \/ generation >= MaxGeneration)
  <2>1. generation' = generation /\ c.made = 0 /\ c.from <= from /\ c.state # "answer"
    BY <1>1, <1>3, <1>7 DEF Idle
  <2>2. until' = until
    BY <1>1, <1>2, <1>3, <1>7 DEF Superseded
  <2>3. \A q \in Rotators : /\ call'[q].made # 0 => /\ until'[call'[q].made] = now' + Life
                                                    /\ now' < until'[call'[q].from]
                            /\ call'[q].state = "answer" => call'[q].expires = now' + Life
                            /\ call'[q].from <= MaxManual + now'
    <3> TAKE q \in Rotators
    <3>1. CASE q = p
      <4>1. from <= MaxManual + now /\ c.from \in Nat
        BY DEF AccessCore, FewGenerations, Call, Generations
      <4> QED
        BY <3>1, <1>1, <1>3, <1>4, <2>1, <4>1
    <3>2. CASE q # p
      BY <3>2, <1>3, <1>4, <2>2 DEF AccessCore, CallsCurrent, FewGenerations
    <3> QED
      BY <3>1, <3>2
  <2>4. stored.generation = generation \/ \E q \in Rotators : call'[q].made # 0
    BY <1>4, <1>7 DEF AccessCore, CallsCurrent
  <2>5. CallsCurrent'
    BY <1>3, <2>1, <2>2, <2>3, <2>4 DEF AccessCore, CallsCurrent
  <2>6. (stored'.generation # 0 => Authenticated') /\ FewGenerations'
    BY <1>3, <2>1, <2>2, <2>3 DEF AccessCore, Authenticated, Expired, Accepts, FewGenerations
  <2>7. ASSUME stored.generation # 0, Renewing PROVE Renewing'
    <3>1. CASE Renewed \/ generation # stored.generation
      BY <3>1, <1>3, <2>1 DEF Renewing, Renewed
    <3>2. CASE p # Service /\ call[Service].state = "sending"
               /\ call[Service].from = stored.generation
      <4>1. call'[Service] = call[Service]
        BY <3>2, <1>4, CredentialAssumption
      <4> QED
        BY <3>2, <4>1, <1>3 DEF Renewing
    <3>3. CASE p = Service /\ from = stored.generation
      <4>1. Accepts(from)
        BY <2>7, <3>3 DEF AccessCore, Authenticated
      <4>2. from <= MaxManual + now /\ MaxTime \in Nat
        BY LoopAssumption DEF AccessCore, FewGenerations
      <4>3. from < MaxGeneration
        BY <1>1, <4>2 DEF RotationAhead
      <4>4. generation # stored.generation
        BY <1>1, <1>7, <3>3, <4>1, <4>3
      <4> QED
        BY <4>4, <1>3, <2>1 DEF Renewing
    <3> QED
      BY <2>7, <3>1, <3>2, <3>3 DEF Renewing
  <2> QED
    BY <2>5, <2>6, <2>7 DEF AccessCore
<1> QED
  BY <1>2, <1>5, <1>6, <1>7


LEMMA AnsweredAccess ==
    ASSUME CredentialInv, RotationAhead, now <= MaxTime, AccessCore,
           NEW p \in Rotators, Answered(p)
    PROVE  AccessCore' /\ (stored.generation # 0 /\ Renewing => Renewing')
<1> DEFINE n == Issued(call[p].from, call[p].made)
           c == IF n > call[p].from
                THEN [call[p] EXCEPT !.state = "answer", !.made = n, !.expires = until'[n]]
                ELSE Idle
<1>1. /\ generation' = (IF n > generation THEN n ELSE generation)
      /\ until' = Superseded(call[p].from, n)
      /\ call' = [call EXCEPT ![p] = c]
      /\ UNCHANGED <<now, stored>>
  BY DEF Answered
<1>2. /\ n \in Generations /\ n \in Nat /\ call[p] \in Call /\ CredentialInv'
      /\ call[p].from \in Nat /\ call[p].from <= stored.generation
      /\ stored.generation \in Nat /\ generation \in Nat /\ stored.generation <= generation
  BY IssuedGeneration, AnsweredKeeps, CredentialNumbers DEF CredentialInv, Generations
<1>3. n # 0 => n > call[p].from
  <2>1. n = 0 \/ n = generation + 1 \/ (n = generation /\ n = call[p].made)
    BY IssuedGeneration
  <2>2. call[p].made # 0 => stored.generation < generation
    BY DEF CredentialInv
  <2> HIDE DEF n
  <2> QED
    BY <1>2, <2>1, <2>2
<1>4. call'[p] = c /\ call'[p] \in Call
  BY <1>1, <1>2 DEF CredentialInv, CredentialTypeOK
<1>5. n # 0 => c.made = n /\ c.from = call[p].from /\ c.state = "answer" /\ c.expires = until'[n]
  <2>1. n # 0 => c = [call[p] EXCEPT !.state = "answer", !.made = n, !.expires = until'[n]]
    BY <1>3
  <2> HIDE DEF n, c
  <2> QED
    BY <1>2, <2>1 DEF Call
<1>6. n = 0 => c = Idle /\ c.state # "answer"
  <2> HIDE DEF n
  <2> QED
    BY <1>2 DEF Idle
<1>7. n = Issued(call[p].from, call[p].made) /\ c \in Call
  BY <1>4
<1> HIDE DEF n, c
<1> QED
  BY <1>1, <1>2, <1>5, <1>6, <1>7, ServedAccess

(* A lost request or answer is sent again, while the attempts last.          *)
LEMMA LostAccess ==
    ASSUME CredentialInv, RotationAhead, now <= MaxTime, AccessCore,
           NEW p \in Rotators, Lost(p), call[p].attempt <= lost + 1, Faultless'
    PROVE  /\ AccessCore' /\ (stored.generation # 0 /\ Renewing => Renewing')
           /\ call'[p].attempt <= lost' + 1
<1>1. /\ CredentialInv' /\ call[p] \in Call /\ call[p].state = "sending" /\ lost' = lost + 1
      /\ lost \in Nat /\ call[p].attempt \in Nat /\ MaxAttempts \in Nat
      /\ UNCHANGED <<now, stored>>
  BY LostKeeps, CredentialNumbers DEF Lost
<1>2. call[p].attempt < MaxAttempts
  BY <1>1 DEF Faultless
<1>3. /\ call \in [Rotators -> Call]
      /\ \A q \in Rotators : call'[q] \in Call
  BY <1>1 DEF CredentialInv, CredentialTypeOK
<1>4. CASE call' = [call EXCEPT ![p] = Retried(call[p], call[p].made)]
           /\ UNCHANGED <<generation, until>>
  <2> DEFINE c == [call[p] EXCEPT !.attempt = @ + 1, !.made = call[p].made]
  <2>1. /\ c.state = "sending" /\ c.from = call[p].from /\ c.made = call[p].made
        /\ c.attempt = call[p].attempt + 1
    BY <1>1 DEF Call
  <2>2. call' = [call EXCEPT ![p] = c]
    BY <1>2, <1>4 DEF Retried
  <2> HIDE DEF c
  <2>3. call'[p] = c /\ \A q \in Rotators \ {p} : call'[q] = call[q]
    BY <1>3, <2>2
  <2>4. \A q \in Rotators : /\ call'[q].state = call[q].state /\ call'[q].from = call[q].from
                            /\ call'[q].made = call[q].made
                            /\ q # p => call'[q].expires = call[q].expires
    BY <1>1, <2>1, <2>3
  <2>5. call'[p].state # "answer" /\ Service \in Rotators /\ call'[p].attempt <= lost' + 1
    BY <1>1, <2>1, <2>3, CredentialAssumption
  <2>6. (stored'.generation # 0 => Authenticated') /\ FewGenerations' /\ CallsCurrent'
    BY <1>1, <1>4, <2>4, <2>5
       DEF AccessCore, Authenticated, Expired, Accepts, FewGenerations, CallsCurrent
  <2>7. Renewing => Renewing'
    BY <1>1, <1>4, <2>4, <2>5 DEF Renewing, Renewed
  <2> QED
    BY <2>5, <2>6, <2>7 DEF AccessCore
<1>5. CASE /\ generation' = (IF Issued(call[p].from, call[p].made) > generation
                             THEN Issued(call[p].from, call[p].made) ELSE generation)
           /\ until' = Superseded(call[p].from, Issued(call[p].from, call[p].made))
           /\ call' = [call EXCEPT ![p] = Retried(call[p], Issued(call[p].from, call[p].made))]
  <2>1. PICK n \in Generations : n = Issued(call[p].from, call[p].made)
    BY IssuedGeneration
  <2> DEFINE c == [call[p] EXCEPT !.attempt = @ + 1, !.made = n]
  <2>2. /\ c.state = "sending" /\ c.from = call[p].from /\ c.made = n
        /\ c.attempt = call[p].attempt + 1
    BY <1>1 DEF Call
  <2>3. /\ call' = [call EXCEPT ![p] = c]
        /\ generation' = (IF n > generation THEN n ELSE generation)
        /\ until' = Superseded(call[p].from, n)
    BY <1>2, <1>5, <2>1 DEF Retried
  <2> HIDE DEF c
  <2>4. call'[p] = c /\ c \in Call
    BY <1>3, <2>3
  <2>5. AccessCore' /\ (stored.generation # 0 /\ Renewing => Renewing')
    BY <1>1, <2>1, <2>2, <2>3, <2>4, ServedAccess
  <2>6. call'[p].attempt <= lost' + 1
    BY <1>1, <2>2, <2>4
  <2> QED
    BY <2>5, <2>6
<1> QED
  BY <1>4, <1>5 DEF Lost


(* A rotation begins before the credential expires.                         *)
LEMMA BeginAccess ==
    ASSUME CredentialInv, RotationAhead, AccessCore, NEW p \in Rotators, Begin(p)
    PROVE  /\ AccessCore' /\ (Renewing \/ p = Service => Renewing')
           /\ call'[p].attempt <= lost' + 1
<1> DEFINE c == [Idle EXCEPT !.state = "sending", !.from = stored.generation, !.attempt = 1]
<1>1. /\ call' = [call EXCEPT ![p] = c]
      /\ UNCHANGED <<now, stored, generation, until, lost, broken>>
      /\ RotationDue(p) \/ EnrollmentDue(p)
  BY DEF Begin
<1>2. c.state = "sending" /\ c.from = stored.generation /\ c.made = 0 /\ c.attempt = 1
  BY DEF Idle
<1> HIDE DEF c
<1>3. call'[p] = c /\ \A q \in Rotators \ {p} : call'[q] = call[q]
  BY <1>1 DEF CredentialInv, CredentialTypeOK
<1>4. /\ now \in Nat /\ generation \in Nat /\ stored.generation \in Nat /\ lost \in Nat
      /\ MaxManual \in Nat /\ Margin \in Nat /\ stored.generation <= generation
      /\ Service \in Rotators /\ call[p].made \in Nat
  BY CredentialNumbers
<1>5. call[p].made = 0
  BY DEF Begin, Idle
<1>6. stored.generation <= MaxManual + now
  BY <1>1, <1>4 DEF RotationDue, EnrollmentDue, AccessCore, FewGenerations
<1>7. FewGenerations' /\ (stored'.generation # 0 => Authenticated')
  BY <1>1, <1>2, <1>3, <1>6
     DEF AccessCore, Authenticated, Expired, Accepts, FewGenerations
<1>8. CallsCurrent'
  BY <1>1, <1>2, <1>3, <1>5 DEF AccessCore, CallsCurrent
<1>9. Renewing \/ p = Service => Renewing'
  <2>1. CASE p = Service
    BY <2>1, <1>1, <1>2, <1>3 DEF Renewing
  <2>2. CASE p # Service
    BY <2>2, <1>1, <1>3, <1>4 DEF Renewing, Renewed
  <2> QED
    BY <2>1, <2>2
<1> QED
  BY <1>1, <1>2, <1>3, <1>4, <1>7, <1>8, <1>9 DEF AccessCore

(* What is saved lives from now.                                            *)
LEMMA SaveAccess ==
    ASSUME CredentialInv, RotationAhead, AccessCore, NEW p \in Rotators, Save(p), Faultless'
    PROVE  AccessCore' /\ Renewed' /\ call'[p].attempt <= lost' + 1
<1>1. /\ now \in Nat /\ generation \in Nat /\ lost \in Nat /\ broken \in Nat
      /\ MaxManual \in Nat /\ Margin \in Nat /\ Life \in Nat /\ Margin >= 1 /\ Margin < Life
  BY CredentialNumbers DEF RotationAhead
<1>2. /\ call[p].state = "answer" /\ call[p].made = generation /\ call[p].made # 0
      /\ \A q \in Rotators \ {p} : call[q].made = 0 /\ call[q].state # "answer"
  BY DEF Save, CredentialInv
<1>3. call[p].expires = now + Life /\ until[generation] = now + Life
  BY <1>2 DEF AccessCore, CallsCurrent
<1>4. /\ call' = [call EXCEPT ![p] = Idle] /\ UNCHANGED <<now, generation, until, lost>>
      /\ stored' = [generation |-> call[p].made, expires |-> call[p].expires]
  BY <1>1 DEF Save, Faultless
<1>5. stored'.generation = generation /\ stored'.expires = now + Life
  BY <1>2, <1>3, <1>4
<1>6. call'[p] = Idle /\ \A q \in Rotators \ {p} : call'[q] = call[q]
  BY <1>4 DEF CredentialInv, CredentialTypeOK
<1>7. \A q \in Rotators : /\ call'[q].made = 0 /\ call'[q].state # "answer"
                          /\ call'[q].from <= MaxManual + now
  <2> TAKE q \in Rotators
  <2>1. CASE q = p
    BY <2>1, <1>1, <1>6 DEF Idle
  <2>2. CASE q # p
    BY <2>2, <1>2, <1>6 DEF AccessCore, FewGenerations
  <2> QED
    BY <2>1, <2>2
<1>8. CallsCurrent'
  BY <1>3, <1>4, <1>5, <1>7 DEF CallsCurrent
<1>9. Authenticated' /\ Renewed'
  BY <1>1, <1>3, <1>4, <1>5 DEF Authenticated, Expired, Accepts, Renewed
<1>10. FewGenerations'
  <2>1. ~Expired(Margin)'
    BY <1>1, <1>4, <1>5 DEF Expired
  <2> QED
    BY <2>1, <1>4, <1>7 DEF AccessCore, FewGenerations
<1>11. call'[p].attempt <= lost' + 1
  BY <1>1, <1>4, <1>6 DEF Idle
<1> QED
  BY <1>8, <1>9, <1>10, <1>11 DEF AccessCore

(* A step of any rotation.                                                  *)
LEMMA RotateAccess ==
    ASSUME CredentialInv, RotationAhead, now <= MaxTime, LossesCounted, AccessCore,
           NEW p \in Rotators, Rotate(p), Faultless'
    PROVE  /\ LossesCounted' /\ AccessCore'
           /\ stored.generation # 0 /\ Renewing => Renewing'
<1>1. /\ call \in [Rotators -> Call] /\ lost \in Nat /\ MaxAttempts \in Nat
      /\ call[p].attempt <= lost + 1
  BY CredentialNumbers DEF CredentialInv, CredentialTypeOK, LossesCounted
<1>2. \A q \in Rotators \ {p} : call'[q] = call[q]
  BY <1>1 DEF Rotate, Begin, Answered, Lost, Save
<1>3. lost' \in Nat /\ lost' >= lost
  BY <1>1 DEF Rotate, Begin, Answered, Lost, Save
<1>4. AccessCore' /\ (stored.generation # 0 /\ Renewing => Renewing')
      /\ call'[p].attempt <= lost' + 1
  <2>1. CASE Begin(p)
    BY <2>1, BeginAccess
  <2>2. CASE Answered(p)
    <3>1. call'[p].attempt <= lost' + 1
      <4>1. call'[p].attempt = call[p].attempt \/ call'[p].attempt = 0
        <5>1. CASE Issued(call[p].from, call[p].made) > call[p].from
          <6> DEFINE n == Issued(call[p].from, call[p].made)
          <6>1. call' = [call EXCEPT ![p] = [call[p] EXCEPT !.state = "answer", !.made = n,
                                                           !.expires = until'[n]]]
            BY <2>2, <5>1 DEF Answered
          <6> HIDE DEF n
          <6> QED
            BY <1>1, <6>1 DEF Call
        <5>2. CASE ~(Issued(call[p].from, call[p].made) > call[p].from)
          BY <2>2, <5>2, <1>1 DEF Answered, Idle
        <5> QED
          BY <5>1, <5>2
      <4>2. lost' = lost
        BY <2>2 DEF Answered
      <4> QED
        BY <1>1, <4>1, <4>2
    <3> QED
      BY <2>2, <3>1, AnsweredAccess
  <2>3. CASE Lost(p)
    BY <2>3, <1>1, LostAccess
  <2>4. CASE Save(p)
    BY <2>4, SaveAccess DEF Renewing
  <2> QED
    BY <2>1, <2>2, <2>3, <2>4 DEF Rotate
<1>5. LossesCounted'
  <2> SUFFICES ASSUME NEW q \in Rotators PROVE call'[q].attempt <= lost' + 1
    BY DEF LossesCounted
  <2>1. CASE q = p
    BY <2>1, <1>4
  <2>2. CASE q # p
    <3>1. call[q].attempt <= lost + 1 /\ call[q].attempt \in Nat
      BY CredentialNumbers DEF LossesCounted
    <3> QED
      BY <3>1, <2>2, <1>1, <1>2, <1>3
  <2> QED
    BY <2>1, <2>2
<1> QED
  BY <1>4, <1>5


(* The steps of the loop that leave the credential and the clock alone.      *)
Aside ==
    \/ Start \/ Rotated \/ PolicyOffline \/ PolicyKept \/ PolicyInstalled \/ FetchJob
    \/ FetchNothing \/ Poll \/ Scan \/ SigHup \/ Outside

LEMMA StepKinds ==
    ASSUME Next
    PROVE  \/ Aside /\ UNCHANGED cvars
           \/ Maintain
           \/ Wake
           \/ Crash
           \/ stage' = stage /\ stage = "rotating" /\ Rotate(Service)
           \/ /\ stage' = stage /\ stage \in {"maintain", "rotating", "down"}
              /\ \E p \in Rotators : Rotate(p) \/ Forget(p)
<1>1. CASE Aside
  BY <1>1 DEF Aside, Start, Rotated, PolicyOffline, PolicyKept, PolicyInstalled, FetchJob,
              FetchNothing, Poll, Scan, SigHup, Outside
<1>2. CASE Rotating
  BY <1>2 DEF Rotating, Rotate, lvars
<1>3. CASE Command
  BY <1>3 DEF Command, lvars
<1> QED
  BY <1>1, <1>2, <1>3 DEF Next, Loop, Environment, Aside

LEMMA CallClock ==
    ASSUME NEW p \in Rotators, Rotate(p) \/ Forget(p)
    PROVE  now' = now
BY DEF Rotate, Forget, Begin, Answered, Lost, Save

LEMMA LoopKept ==
    ASSUME AgentInv, LoopInv, Next
    PROVE  LoopInv'
<1>1. /\ stored'.generation >= stored.generation
      /\ stored.generation \in Nat /\ stored'.generation \in Nat
      /\ now \in Nat /\ MaxTime \in Nat
  BY CredentialKept, CredentialNumbers, LoopAssumption
     DEF AgentInv, CredentialInv, CredentialTypeOK, Credential, Generations
<1>2. now' <= MaxTime
  <2>1. CASE Wake
    BY <2>1, <1>1 DEF Wake, LoopInv
  <2>2. CASE ~Wake
    <3>1. now' = now
      BY <2>2, StepKinds, CallClock, CredentialAssumption
         DEF cvars, Maintain, Begin, Crash, Forget
    <3> QED
      BY <3>1 DEF LoopInv
  <2> QED
    BY <2>1, <2>2
<1>3. stage' # "down" => stored'.generation # 0
  <2>1. stored.generation # 0 => stored'.generation # 0
    BY <1>1
  <2>2. stage = "down" /\ stage' # "down" => Start
    BY StepKinds
       DEF Aside, Rotated, PolicyOffline, PolicyKept, PolicyInstalled, FetchJob, FetchNothing,
           Poll, Scan, SigHup, Outside, lvars, Maintain, Wake, Crash
  <2>3. Start => stored.generation # 0
    BY DEF Start
  <2> QED
    BY <2>1, <2>2, <2>3 DEF LoopInv
<1>4. stage' \in {"policy", "fetch", "poll", "scan", "rest"} => NoCall'
  <2>1. CASE Aside /\ UNCHANGED cvars
    <3>1. stage' \in {"policy", "fetch", "poll", "scan", "rest"} =>
            \/ NoCall
            \/ stage \in {"policy", "fetch", "poll", "scan", "rest"}
      BY <2>1 DEF Aside, Start, Rotated, PolicyOffline, PolicyKept, PolicyInstalled, FetchJob,
                  FetchNothing, Poll, Scan, SigHup, Outside, lvars
    <3>2. NoCall => NoCall'
      BY <2>1 DEF NoCall, cvars
    <3> QED
      BY <3>1, <3>2 DEF LoopInv
  <2>2. CASE Maintain
    <3>1. stage' = "rotating" \/ (NoCall /\ UNCHANGED cvars)
      BY <2>2 DEF Maintain
    <3> QED
      BY <3>1 DEF NoCall, cvars
  <2>3. CASE Wake \/ Crash
    BY <2>3 DEF Wake, Crash
  <2> QED
    BY <2>1, <2>2, <2>3, StepKinds
<1> QED
  BY <1>2, <1>3, <1>4 DEF LoopInv

(* A fault stays a fault.                                                   *)
LEMMA FaultsStay ==
    ASSUME AgentInv, Next, Faultless'
    PROVE  /\ Faultless
           /\ \A p \in Rotators : ~Forget(p)
<1>1. lost \in Nat /\ broken \in Nat /\ MaxAttempts \in Nat
  BY CredentialNumbers DEF AgentInv
<1>2. lost' \in Nat /\ lost' >= lost /\ broken' \in Nat /\ broken' >= broken
  <2>1. \A p \in Rotators : Rotate(p) \/ Forget(p) =>
          lost' \in Nat /\ lost' >= lost /\ broken' \in Nat /\ broken' >= broken
    BY <1>1 DEF Rotate, Forget, Begin, Answered, Lost, Save
  <2>2. CASE UNCHANGED <<lost, broken>>
    BY <2>2, <1>1
  <2>3. CASE Maintain
    BY <2>2, <2>3 DEF Maintain, Begin, cvars
  <2>4. CASE Wake
    BY <2>2, <2>4 DEF Wake
  <2>5. CASE Crash
    BY <2>1, <2>5, CredentialAssumption DEF Crash
  <2> QED
    BY <2>1, <2>2, <2>3, <2>4, <2>5, StepKinds, CredentialAssumption DEF cvars
<1>3. \A p \in Rotators : ~Forget(p)
  BY <1>1 DEF Forget, Faultless
<1> QED
  BY <1>1, <1>2, <1>3 DEF Faultless


(* Maintenance renews the credential when the margin is reached; when no      *)
(* rotation is due, the credential outlives the next interval.               *)
LEMMA MaintainAccess ==
    ASSUME AgentInv, AccessInv, RotationAhead, Maintain, Faultless'
    PROVE  LossesCounted' /\ AccessCore' /\ RenewedInTime'
<1>1. /\ Faultless /\ LossesCounted /\ AccessCore /\ CredentialInv /\ now <= MaxTime
      /\ stage = "maintain" /\ stored.generation # 0
  <2>1. Next /\ Faultless
    BY FaultsStay DEF Next, Loop
  <2> QED
    BY <2>1 DEF AgentInv, AccessInv, LoopInv, Maintain
<1>2. /\ now \in Nat /\ generation \in Nat /\ stored.generation \in Nat /\ stored.expires \in Nat
      /\ Margin \in Nat /\ MaxManual \in Nat /\ MaxGeneration \in Nat /\ MaxTime \in Nat
      /\ Margin >= 1 /\ MaxGeneration > MaxManual + MaxTime /\ Service \in Rotators
  BY <1>1, CredentialNumbers, LoopAssumption DEF RotationAhead
<1>3. CASE RotationDue(Service)
  <2>1. Begin(Service) /\ stage' = "rotating"
    BY <1>3 DEF Maintain
  <2>2. AccessCore' /\ Renewing'
    BY <1>1, <1>2, <2>1, BeginAccess
  <2>3. LossesCounted'
    BY <1>1, <1>2, <2>1, RotateAccess DEF Rotate
  <2> QED
    BY <2>1, <2>2, <2>3 DEF RenewedInTime
<1>4. CASE ~RotationDue(Service)
  <2>1. NoCall /\ stage' = "policy" /\ UNCHANGED cvars
    BY <1>4 DEF Maintain
  <2>2. generation = stored.generation
    BY <2>1, <1>1 DEF AccessCore, CallsCurrent, NoCall, Idle
  <2>3. ~Expired(0)
    BY <1>1 DEF AccessCore, Authenticated
  <2>4. ~Expired(Margin)
    <3> SUFFICES ASSUME Expired(Margin) PROVE FALSE
      OBVIOUS
    <3>1. generation < MaxGeneration
      BY <1>1, <1>2, <2>2 DEF AccessCore, FewGenerations
    <3> QED
      BY <1>4, <2>3, <3>1 DEF RotationDue
  <2>5. Renewed
    BY <1>2, <2>4 DEF Expired, Renewed
  <2>6. LossesCounted' /\ AccessCore' /\ Renewed'
    BY <1>1, <2>1, <2>5
       DEF cvars, LossesCounted, AccessCore, Authenticated, Expired, Accepts, CallsCurrent,
           FewGenerations, Renewed
  <2> QED
    BY <2>1, <2>6 DEF RenewedInTime
<1> QED
  BY <1>3, <1>4

(* Between two iterations no call is under way and the credential lasts.      *)
LEMMA WakeAccess ==
    ASSUME AgentInv, AccessInv, RotationAhead, Wake, Faultless'
    PROVE  LossesCounted' /\ AccessCore' /\ RenewedInTime'
<1>1. /\ Faultless /\ LossesCounted /\ AccessCore /\ CredentialInv /\ Renewed
      /\ stage = "rest" /\ NoCall
  <2>1. Next /\ Faultless
    BY FaultsStay DEF Next, Loop
  <2> QED
    BY <2>1 DEF AgentInv, AccessInv, LoopInv, RenewedInTime, Wake
<1>2. /\ now \in Nat /\ generation \in Nat /\ stored.generation \in Nat /\ stored.expires \in Nat
      /\ Margin \in Nat /\ MaxManual \in Nat /\ MaxTime \in Nat /\ lost \in Nat
      /\ stored.generation <= generation /\ until[stored.generation] \in Nat
  BY <1>1, CredentialNumbers, LoopAssumption
<1>3. /\ UNCHANGED <<stored, generation, until, call, lost, broken>> /\ stage' = "maintain"
      /\ now' = now \/ (now' = now + 1)
  BY DEF Wake
<1>4. \A p \in Rotators : call[p].made = 0 /\ call[p].from = 0 /\ call[p].state = "idle"
  BY <1>1 DEF NoCall, Idle
<1>5. stored.generation = generation
  BY <1>1, <1>4 DEF AccessCore, CallsCurrent
<1>6. CallsCurrent'
  BY <1>1, <1>3, <1>4, <1>5 DEF AccessCore, CallsCurrent
<1>7. stored'.generation # 0 => Authenticated'
  BY <1>1, <1>2, <1>3, <1>5
     DEF AccessCore, CallsCurrent, Authenticated, Expired, Accepts, Renewed
<1>8. FewGenerations'
  <2>1. now' >= now /\ now' \in Nat
    BY <1>2, <1>3
  <2>2. generation <= MaxManual + now + 1
    BY <1>1 DEF AccessCore, FewGenerations
  <2>3. \A p \in Rotators : call'[p].from <= MaxManual + now'
    BY <1>2, <1>3, <1>4, <2>1
  <2>4. Expired(Margin)' => stored'.generation <= MaxManual + now'
    BY <1>1, <1>2, <1>3, <1>5, <2>2 DEF AccessCore, FewGenerations, Expired
  <2> QED
    BY <1>2, <1>3, <2>1, <2>2, <2>3, <2>4 DEF FewGenerations
<1>9. LossesCounted' /\ RenewedInTime'
  BY <1>1, <1>3 DEF LossesCounted, RenewedInTime
<1> QED
  BY <1>6, <1>7, <1>8, <1>9 DEF AccessCore

LEMMA AccessStep ==
    ASSUME AgentInv, AccessInv, RotationAhead, [Next]_vars
    PROVE  AccessInv'
<1>1. CASE Next
  <2>1. LoopInv'
    BY <1>1, LoopKept DEF AccessInv
  <2> SUFFICES ASSUME Faultless' PROVE LossesCounted' /\ AccessCore' /\ RenewedInTime'
    BY <2>1 DEF AccessInv
  <2>2. /\ Faultless /\ LossesCounted /\ AccessCore /\ RenewedInTime /\ CredentialInv /\ LoopInv
        /\ now <= MaxTime /\ \A p \in Rotators : ~Forget(p)
    BY <1>1, FaultsStay DEF AccessInv, AgentInv, LoopInv
  <2>3. CASE Aside /\ UNCHANGED cvars
    <3>1. LossesCounted' /\ AccessCore' /\ (Renewed => Renewed') /\ (Renewing => Renewing')
      BY <2>2, <2>3
         DEF cvars, LossesCounted, AccessCore, Authenticated, Expired, Accepts, CallsCurrent,
             FewGenerations, Renewed, Renewing
    <3>2. /\ stage' = "rotating" => stage = "rotating"
          /\ stage' \in {"policy", "fetch", "poll", "scan", "rest"} =>
               \/ stage = "rotating" /\ NoCall
               \/ stage \in {"policy", "fetch", "poll", "scan", "rest"}
      BY <2>3 DEF Aside, Start, Rotated, PolicyOffline, PolicyKept, PolicyInstalled, FetchJob,
                  FetchNothing, Poll, Scan, SigHup, Outside, lvars
    <3>3. NoCall /\ Renewing => Renewed
      BY <2>2, CredentialAssumption DEF NoCall, Renewing, AccessCore, CallsCurrent, Idle
    <3> QED
      BY <2>2, <3>1, <3>2, <3>3 DEF RenewedInTime
  <2>4. CASE Maintain
    BY <2>4, MaintainAccess
  <2>5. CASE Wake
    BY <2>5, WakeAccess
  <2>6. ASSUME NEW p \in Rotators, Rotate(p), stage' = stage,
               stage \in {"maintain", "rotating", "down"}
        PROVE  LossesCounted' /\ AccessCore' /\ RenewedInTime'
    <3>1. LossesCounted' /\ AccessCore' /\ (stored.generation # 0 /\ Renewing => Renewing')
      BY <2>2, <2>6, RotateAccess
    <3>2. stage = "rotating" => stored.generation # 0
      BY <2>2 DEF LoopInv
    <3> QED
      BY <2>2, <2>6, <3>1, <3>2 DEF RenewedInTime
  <2>7. ~Crash
    BY <2>2, CredentialAssumption DEF Crash
  <2> QED
    BY <1>1, <2>2, <2>3, <2>4, <2>5, <2>6, <2>7, StepKinds, CredentialAssumption
<1>2. CASE UNCHANGED vars
  <2>1. UNCHANGED <<now, stored, generation, until, call, lost, broken, stage>>
    BY <1>2 DEF vars, cvars, lvars
  <2>2. (LoopInv => LoopInv') /\ (Faultless' => Faultless)
        /\ (LossesCounted => LossesCounted') /\ (RenewedInTime => RenewedInTime')
    BY <2>1 DEF LoopInv, NoCall, Faultless, LossesCounted, RenewedInTime, Renewing, Renewed
  <2>3. AccessCore => AccessCore'
    BY <2>1 DEF AccessCore, Authenticated, Expired, Accepts, CallsCurrent, FewGenerations
  <2> QED
    BY <2>2, <2>3 DEF AccessInv
<1> QED
  BY <1>1, <1>2

LEMMA AccessInitially ==
    ASSUME Init, RotationAhead
    PROVE  AccessInv
<1> USE DEF Init, InitCredential
<1>1. MaxTime \in Nat /\ MaxManual \in Nat /\ MaxManual >= 1
  BY CredentialAssumption, LoopAssumption DEF RotationAhead
<1>2. LoopInv /\ RenewedInTime
  BY <1>1 DEF LoopInv, RenewedInTime
<1>3. \A p \in Rotators : /\ call[p].made = 0 /\ call[p].from = 0
                          /\ call[p].attempt = 0 /\ call[p].state = "idle"
  BY DEF Idle
<1>4. LossesCounted /\ AccessCore
  BY <1>1, <1>3 DEF LossesCounted, AccessCore, CallsCurrent, FewGenerations
<1> QED
  BY <1>2, <1>4 DEF AccessInv

(* With a rotation set up ahead of expiry, the credential the store holds is   *)
(* accepted, and the maintenance renews it in time, until a fault outlives     *)
(* the retries of CloudApiClient.request.                                    *)
THEOREM AccessInvariant == ASSUME RotationAhead PROVE Spec => []AccessInv
<1>1. Init => AccessInv
  BY AccessInitially
<1>2. AgentInv /\ AccessInv /\ [Next]_vars => AccessInv'
  BY AccessStep
<1> QED
  BY <1>1, <1>2, AgentInvariant, PTL DEF Spec

(* The agent never loses its access by the rotation itself: by the command    *)
(* racing the loop, by a lost answer that is replayed, or by expiry.          *)
THEOREM AccessKept == ASSUME RotationAhead PROVE Spec => []LockedOutOnlyByFaults
<1>1. AgentInv /\ AccessInv => LockedOutOnlyByFaults
  <2> SUFFICES ASSUME AgentInv, AccessInv, ~(lost >= MaxAttempts), ~(broken > 0)
               PROVE  stored.generation = 0 \/ Authenticated
    BY DEF LockedOutOnlyByFaults
  <2>1. Faultless
    BY CredentialNumbers DEF AgentInv, Faultless
  <2> QED
    BY <2>1 DEF AccessInv, AccessCore
<1> QED
  BY <1>1, AgentInvariant, AccessInvariant, PTL
=============================================================================

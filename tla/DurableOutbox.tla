--------------------------- MODULE DurableOutbox ---------------------------
(***************************************************************************)
(* What the endpoint's outbox promises of the messages put into it,        *)
(* whatever the number of workers, their crashes, late and lost answers,   *)
(* full resyncs, dead letters, requeues and retention: a queued message    *)
(* stays queued until the cloud has it; the cloud is given no message      *)
(* before it has the one that message was put behind; and only delivered   *)
(* messages are forgotten.  A message and its full resync are one here:    *)
(* they carry the same evidence.  UploadQueue implements it.               *)
(***************************************************************************)
CONSTANTS
    Messages,
    StreamOf,       \* [Messages -> streams \cup {None}]
    None            \* a message outside every stream

VARIABLES
    queued,         \* messages in the outbox the cloud is not known to have
    delivered,      \* messages in the outbox the cloud is known to have
    behind,         \* pairs <<m, n>>: m waits for n
    committed       \* messages the cloud has committed

outboxVars == <<queued, delivered, behind, committed>>

OutboxInit ==
    /\ queued = {}
    /\ delivered = {}
    /\ behind = {}
    /\ committed = {}

Waits(m) == \E p \in behind : p[1] = m

Absent == Messages \ (queued \cup delivered)

(* A message that joins the outbox waits for one queued message of its     *)
(* stream, or for nothing: the newest may be delivered, as a full resync,  *)
(* while an older one is not.                                              *)
Places(m) ==
    {{}} \cup {{<<m, n>>} : n \in {x \in queued : StreamOf[x] = StreamOf[m] /\ StreamOf[m] # None}}

Queue(m) ==
    /\ queued' = queued \cup {m}
    /\ \E p \in Places(m) : behind' = behind \cup p
    /\ UNCHANGED <<delivered, committed>>

(* Two messages of a stream at once, the second behind the first.          *)
QueueBoth(m, n) ==
    /\ m # n
    /\ StreamOf[n] = StreamOf[m]
    /\ queued' = queued \cup {m, n}
    /\ \E p \in Places(m) : behind' = behind \cup p \cup {<<n, m>>}
    /\ UNCHANGED <<delivered, committed>>

(* The cloud takes a message.                                              *)
Commit(m) ==
    /\ ~Waits(m)
    /\ committed' = committed \cup {m}
    /\ UNCHANGED <<queued, delivered, behind>>

(* The endpoint learns of it, and nothing waits for the message any more.  *)
Deliver(m) ==
    /\ m \in committed
    /\ ~Waits(m)
    /\ queued' = queued \ {m}
    /\ delivered' = delivered \cup {m}
    /\ behind' = {p \in behind : p[2] # m}
    /\ UNCHANGED committed

(* Retention.                                                              *)
Forget ==
    /\ delivered' \subseteq delivered
    /\ UNCHANGED <<queued, behind, committed>>

OutboxNext ==
    \/ Forget
    \/ \E m \in queued : Commit(m) \/ Deliver(m)
    \/ \E m \in Absent : Queue(m) \/ \E n \in Absent : QueueBoth(m, n)

OutboxSpec == OutboxInit /\ [][OutboxNext]_outboxVars

=============================================================================

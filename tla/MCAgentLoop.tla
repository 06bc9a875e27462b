---------------------------- MODULE MCAgentLoop ----------------------------
(* Instances of AgentLoop for TLC. *)
EXTENDS AgentLoop, TLC

CONSTANTS service, command, pl, pa, pb, x, y

Doc(i, c, f) == [id |-> i, content |-> c, fault |-> f]
Good(i) == Doc(i, x, "none")

\* One local policy, and its edited form, which does not load.
MCLocal == {Good(pl), Doc(pl, x, "load")}

\* Two assignments that replace each other; one that reuses an identity with
\* another content; and refused ones.
MCTwo == {[docs |-> <<Good(pa), Good(pb)>>, active |-> pa],
          [docs |-> <<Good(pb)>>, active |-> pb]}
MCAssignments ==
    MCTwo \cup {[docs |-> <<Good(pa), Doc(pl, y, "none")>>, active |-> pa],
               [docs |-> <<Good(pb), Doc(pa, x, "checksum")>>, active |-> pb]}
=============================================================================

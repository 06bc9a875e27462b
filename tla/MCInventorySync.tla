-------------------------- MODULE MCInventorySync --------------------------
(* Instances of InventorySync for TLC. *)
EXTENDS InventorySync, TLC

CONSTANTS software, users, processes, x, y

Observed(o, v) == [observed |-> o, values |-> v]

\* Everything, with and without users; software alone; telemetry that changes.
MCObservations ==
    {Observed({software, users, processes}, software :> x @@ users :> x @@ processes :> x),
     Observed({software, users, processes}, software :> y @@ processes :> y),
     Observed({software}, software :> x)}

\* Two scans of everything.
MCWhole == {o \in MCObservations : users \in o.observed}
=============================================================================

-------------------------- MODULE MCScanLifecycle --------------------------
(* Model values for the model checking of ScanLifecycle.                   *)
EXTENDS ScanLifecycle

CONSTANTS s1, s2
=============================================================================

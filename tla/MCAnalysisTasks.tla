-------------------------- MODULE MCAnalysisTasks --------------------------
(* Small instances of AnalysisTasks for TLC. *)
EXTENDS AnalysisTasks, TLC

CONSTANTS s1, w1, w2

(* Two workers that run both tools, in any order. *)
BothKinds == [w \in Workers |-> Tools]

(* Results of OSV alone exceed what a report may have.                     *)
OsvRefused == {[k \in Tools |-> IF k = "OSV" THEN "SUCCEEDED" ELSE "FAILED"]}
=============================================================================

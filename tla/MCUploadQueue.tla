--------------------------- MODULE MCUploadQueue ---------------------------
(* Constant values for the model checking of UploadQueue.                  *)
EXTENDS UploadQueue, TLC

CONSTANTS s1, s2, w1, w2, e1

MCScans == {s1, s2}
MCOneScan == {s1}
MCWorkers == {w1, w2}
MCOneWorker == {w1}
MCEndpointOf == [s \in Scans |-> e1]

MCNone == {}

(* The two scans are of one endpoint and neither fails: they are alike.    *)
ScanSymmetry == Permutations(Scans)
=============================================================================

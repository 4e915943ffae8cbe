--------------------------- MODULE MCNormalizeRun ---------------------------
(* Instances of NormalizeRun for TLC.                                      *)
EXTENDS NormalizeRun, TLC

\* The processes of a concurrent run are interchangeable.
WorkerSymmetry == Permutations(Workers)
=============================================================================

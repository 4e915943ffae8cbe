------------------------- MODULE MCInferenceWorker -------------------------
(* Instances of InferenceWorker for TLC.                                   *)
EXTENDS InferenceWorker, TLC

\* Three jobs of which j2 and j3 were given the same output uri.
CONSTANTS j1, j2, j3, u1, u2
MCRank == (j1 :> 2) @@ (j2 :> 1) @@ (j3 :> 2)
MCOutput == (j1 :> u1) @@ (j2 :> u2) @@ (j3 :> u2)
MCRank2 == (j1 :> 2) @@ (j2 :> 1)
MCOutput2 == (j1 :> u1) @@ (j2 :> u2)

WorkerSymmetry == Permutations(Workers)
=============================================================================

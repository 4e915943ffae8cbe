--------------------------- MODULE MCPerfPending ---------------------------
(* Instances of PerfPending for TLC.                                       *)
EXTENDS PerfPending

\* The step runs normalize and build_features.
CONSTANTS e1, n1, f1
MCBatch == e1 :> <<n1, f1>>
=============================================================================

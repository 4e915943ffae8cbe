--------------------------- MODULE MCEtlPipeline ---------------------------
(* Instances of EtlPipeline for TLC.                                       *)
EXTENDS EtlPipeline

\* One scan over two datasets, one workflow branch for a third.
CONSTANTS scan, branch, d1, d2, d3
MCOrder == (scan :> <<d1, d2>>) @@ (branch :> <<d3>>)
MCOrder1 == (scan :> <<d1>>) @@ (branch :> <<d3>>)
=============================================================================

------------------------------ MODULE OdsSlice ------------------------------
(***************************************************************************)
(* What the normalize phase promises its readers about one ODS slice       *)
(* (ods/<dataset>/<version>/): a slice is unpublished until a manifest     *)
(* that can be read lies beside its files; from then on its content is     *)
(* fixed, so that features, ads, audit and every later scan that finds the *)
(* manifest all see the same files.                                        *)
(***************************************************************************)
CONSTANTS Contents,     \* what the files of a slice may hold
          Unpublished   \* the value of a slice without a readable manifest

VARIABLE published

Init == published = Unpublished

\* The one visible step: a manifest appears beside some content.
Publish == /\ published = Unpublished
           /\ published' \in Contents

Spec == Init /\ [][Publish]_published
=============================================================================

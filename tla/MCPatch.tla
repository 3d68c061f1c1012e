------------------------------ MODULE MCPatch -------------------------------
(***************************************************************************)
(* The patch scripts of the repository, each run up to MaxRuns times on    *)
(* the tree it is for and on the trees that differ from it in one literal. *)
(* PatchCatalogue comes first: its definitions are constants that TLC      *)
(* evaluates once, before those of PatchRun that depend on them.           *)
(***************************************************************************)
EXTENDS PatchCatalogue, PatchRun

(* The one script of the run that stops at its partial migration, which    *)
(* keeps none of the promises.                                             *)
LocalIntegerConstants == {apply_local_integer_constants_v0}
=============================================================================

------------------------------ MODULE MCCohort ------------------------------
(***************************************************************************)
(* Three objects: two for each header that a link may change, so that both *)
(* together concern more objects than may be compiled again.               *)
(***************************************************************************)
EXTENDS CohortBisect

MCDeps == <<{"offsets"}, {"offsets", "compile"}, {"compile", "config"}>>
=============================================================================

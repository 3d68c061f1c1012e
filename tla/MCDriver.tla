------------------------------ MODULE MCDriver ------------------------------
(* Instances of Driver for TLC.                                            *)
EXTENDS Driver, TLC

CONSTANTS p1, p2, t1, t2, t3, t4

Link(inputs, keep) == [mode |-> "link", inputs |-> inputs, keep |-> keep]

(* One driver, every command line of up to MaxInputs inputs.               *)
AnyJob == Job

(* Two drivers linking at the same time.                                   *)
LinkJobs ==
  {Link(<<"c", "c">>, FALSE), Link(<<"o", "c">>, TRUE)}

TempSymmetry == Permutations(TempName)
=============================================================================

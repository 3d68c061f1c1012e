----------------------------- MODULE MCEmitFile -----------------------------
(* Instances of EmitFile for TLC: the configurations of the five targets,  *)
(* programs with a global and two functions.                               *)
EXTENDS EmitFile

Defined == [defined |-> TRUE, internal |-> FALSE, referenced |-> TRUE]
Declared == [Defined EXCEPT !.defined = FALSE]
Unused == [defined |-> TRUE, internal |-> TRUE, referenced |-> FALSE]

Program(fs) ==
  [prefix |-> FALSE, between |-> FALSE, trailer |-> FALSE, finalize |-> "none",
   census |-> FALSE, selection |-> "live", globals |-> 1, functions |-> fs]

(* The tables in codegen_function.c, rv32_emit.c, codegen.c (x86_64) and   *)
(* direct_program_emit.c (LoongArch64 and AArch64, with and without the    *)
(* census).                                                                *)
Rv64(p) == [p EXCEPT !.between = TRUE, !.finalize = "check", !.selection = "all"]
Rv32(p) == [p EXCEPT !.prefix = TRUE, !.between = TRUE]
X86(p) == [p EXCEPT !.trailer = TRUE]
AArch64(p) == [p EXCEPT !.trailer = TRUE, !.finalize = "rewrite"]
Census(p) == [p EXCEPT !.census = TRUE]

MCJobs ==
  {Rv64(Program(<<Defined, Declared>>)), Rv32(Program(<<Defined>>)),
   X86(Program(<<Unused, Defined>>)), AArch64(Program(<<Defined>>)),
   Census(AArch64(Program(<<Defined, Defined>>)))}
=============================================================================

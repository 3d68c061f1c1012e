---------------------------- MODULE PatchInline -----------------------------
(***************************************************************************)
(* Tools/ci/apply-inline-*, the inline specialisation patches.  Each       *)
(* definition is one script: the tree it is written for (of each file, how *)
(* often each literal occurs) and its steps.  Literals are numbered in the *)
(* order in which the script first looks for them in the file.             *)
(***************************************************************************)
EXTENDS PatchSteps

(* 1 core_lower_asm.c                                                      *)
apply_inline_asm_immediate_batch_trace_v0 ==
  [base |-> <<<<1>>>>,
   steps |-> Rewrite(1, <<Kept(1)>>)]

(* 1 core_lower_asm.c                                                      *)
apply_inline_asm_local_integer_facts_v0 ==
  [base |-> <<<<1, 1, 1, 1, 1, 1>>>>,
   steps |-> Rewrite(1, <<Kept(1), Moved(2), Kept(3), Moved(4), Moved(5),
              Moved(6)>>)]

(* 1 core_lower_asm.c                                                      *)
apply_inline_asm_rk_cast_tail_v0 ==
  [base |-> <<<<1, 1>>>>,
   steps |-> <<Load(1), Some(1, 1), Some(1, 2), Put(1, Kept(1)), Save(1)>>]

(* 1 core_lower_asm.c                                                      *)
apply_inline_asm_rk_early_hotfix_v0 ==
  [base |-> <<<<1>>>>,
   steps |-> Rewrite(1, <<Moved(1)>>)]

(* 1 core_lower_asm.c                                                      *)
apply_inline_asm_rk_early_v0 ==
  [base |-> <<<<1, 1>>>>,
   steps |-> Rewrite(1, <<Kept(1), Moved(2)>>)]

(* 1 core_lower_asm.c                                                      *)
apply_inline_asm_rk_tail_rollback_v0 ==
  [base |-> <<<<1>>>>,
   steps |-> Rewrite(1, <<Kept(1)>>)]

(* 1 core_lower_asm.c                                                      *)
apply_inline_asm_write_output_trace_v0 ==
  [base |-> <<<<1, 1, 1>>>>,
   steps |-> <<Load(1), Some(1, 1), Put(1, Every(Moved(1))), Some(1, 2),
              Put(1, Every(Moved(2))), Some(1, 3), Put(1, Every(Moved(3))),
              Save(1)>>]

(* 1 core_lower.c                                                          *)
apply_inline_specialization_base_callee_symbolic_v0 ==
  [base |-> <<<<1, 1, 1>>>>,
   steps |-> Each(<<In(1, Moved(1)), In(1, Moved(2)), In(1, Moved(3))>>)]

(* 1 compiler.c                                                            *)
apply_inline_specialization_local_boolean_domain_index_v0 ==
  [base |-> <<<<1, 1>>>>,
   steps |-> <<Load(1), Need(1, 1), Put(1, Kept(1)), Some(1, 1), Some(1, 2),
              Put(1, Moved(2)), Save(1)>>]

(* 1 compiler.c                                                            *)
apply_inline_specialization_local_boolean_domain_v0 ==
  [base |-> <<<<1, 1>>>>,
   steps |-> Rewrite(1, <<Kept(1), Moved(2)>>)]

(* 1 core_lower_asm.c; 2 core_codegen.c                                    *)
apply_inline_specialization_resolved_asm_goto_v0 ==
  [base |-> <<<<1, 1, 1, 1>>, <<1, 1>>>>,
   steps |-> <<Load(1), Load(2)>>
      \o Swaps(1, <<Moved(1), Moved(2), Kept(3), Moved(4)>>)
      \o Swaps(2, <<Moved(1), Moved(2)>>)
      \o <<Save(1), Save(2)>>]

(* 1 core_lower_internal.h; 2 core_lower.c                                 *)
apply_inline_specialization_stable_parameter_facts_v0 ==
  [base |-> <<<<0, 1, 0, 0>>, <<1, 1, 1, 1, 1, 1, 0, 0, 0, 0, 0, 0>>>>,
   steps |-> <<Load(1), Skip(1, 1, 29)>>
      \o Each(<<In(1, Edit(2, {2}, {1, 3, 4})), In(2, Edit(1, {}, {7})),
           In(2, Edit(2, {2}, {8})), In(2, Edit(3, {3}, {9})),
           In(2, Edit(4, {4}, {10})), In(2, Edit(5, {}, {11})),
           In(2, Edit(6, {6}, {12}))>>)
      \o <<Quit, Load(2), Load(1), Need(1, 1), Need(1, 3), Need(1, 4),
           Need(2, 7), Need(2, 8), Need(2, 9), Need(2, 10), Need(2, 11),
           Need(2, 12)>>]

(* 1 compiler.c                                                            *)
apply_inline_specialization_symbolic_closed_integers_v0 ==
  [base |-> <<<<1, 1, 1>>>>,
   steps |-> Rewrite(1, <<Kept(1), Moved(2), Moved(3)>>)]

(* 1 compiler.c                                                            *)
apply_inline_specialization_symbolic_preexisting_clones_v0 ==
  [base |-> <<<<1, 1, 1>>>>,
   steps |-> <<Load(1), Need(1, 1), Need(1, 2), Need(1, 3), Put(1, Moved(1)),
              Put(1, Moved(2)), Put(1, Moved(3)), Save(1)>>]

(* 1 core_lower_asm.c                                                      *)
apply_inline_specialization_symbolic_trace_v0 ==
  [base |-> <<<<1, 1>>>>,
   steps |-> Rewrite(1, <<Kept(1), Moved(2)>>)]

(* 1 compiler.c; 2 core_lower.c                                            *)
override_apply_inline_specialization_base_callee_integer_v0 ==
  [base |-> <<<<1, 1>>, <<1, 1>>>>,
   steps |-> Each(<<In(1, Moved(1)), In(1, Moved(2)), In(2, Moved(1)),
              In(2, Moved(2))>>)]

(* 1 compiler.c; 2 core_lower.c                                            *)
override_apply_inline_specialization_transitive_integer_v0 ==
  [base |-> <<<<1, 1>>, <<1, 1>>>>,
   steps |-> Each(<<In(1, Kept(1)), In(1, Moved(2)), In(2, Kept(1)),
              In(2, Moved(2))>>)]

PatchInlineScripts ==
  {apply_inline_asm_immediate_batch_trace_v0,
    apply_inline_asm_local_integer_facts_v0, apply_inline_asm_rk_cast_tail_v0,
    apply_inline_asm_rk_early_hotfix_v0, apply_inline_asm_rk_early_v0,
    apply_inline_asm_rk_tail_rollback_v0,
    apply_inline_asm_write_output_trace_v0,
    apply_inline_specialization_base_callee_symbolic_v0,
    apply_inline_specialization_local_boolean_domain_index_v0,
    apply_inline_specialization_local_boolean_domain_v0,
    apply_inline_specialization_resolved_asm_goto_v0,
    apply_inline_specialization_stable_parameter_facts_v0,
    apply_inline_specialization_symbolic_closed_integers_v0,
    apply_inline_specialization_symbolic_preexisting_clones_v0,
    apply_inline_specialization_symbolic_trace_v0,
    override_apply_inline_specialization_base_callee_integer_v0,
    override_apply_inline_specialization_transitive_integer_v0}
=============================================================================

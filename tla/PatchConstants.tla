--------------------------- MODULE PatchConstants ---------------------------
(***************************************************************************)
(* The other patch scripts of tools/ci: constants, local facts, riscv64.   *)
(* Each definition is one script: the tree it is written for (of each      *)
(* file, how often each literal occurs) and its steps.  Literals are       *)
(* numbered in the order in which the script first looks for them in the   *)
(* file.                                                                   *)
(***************************************************************************)
EXTENDS PatchSteps

(* 1 ast.h; 2 parser_expression.c; 3 ast_verifier.c; 4 core_lower.c        *)
apply_builtin_constant_p_local_facts_v0 ==
  [base |-> <<<<0, 1>>, <<1, 0>>, <<1, 0>>, <<1, 1, 0>>>>,
   steps |-> <<Load(1), Skip(1, 1, 19)>>
      \o Each(<<In(1, Edit(2, {2}, {1})), In(2, Edit(1, {1}, {2})),
           In(3, Edit(1, {1}, {2}))>>)
      \o Rewrite(4, <<Edit(1, {}, {3}), Edit(2, {}, {3})>>)
      \o <<Quit, Load(1), Need(1, 1), Load(2), Need(2, 2), Load(3), Need(3, 2),
           Load(4), Refuse(4, 3, {0, 1})>>]

(* 1 core_lower.c                                                          *)
apply_constant_inline_call_cfg_probe_v0 ==
  [base |-> <<<<1>>>>,
   steps |-> Rewrite(1, <<Moved(1)>>)]

(* 1 core_lower.c                                                          *)
apply_constant_inline_call_cfg_v0 ==
  [base |-> <<<<1, 1, 1, 1>>>>,
   steps |-> <<Load(1), Need(1, 1), Put(1, Kept(1)), Some(1, 1), Some(1, 2),
              Put(1, Kept(2)), Some(1, 3), Some(1, 4), Put(1, Kept(4)),
              Save(1)>>]

(* 1 core_lower.c                                                          *)
apply_constant_inline_cfg_closure_v0 ==
  [base |-> <<<<1, 1, 1, 1, 1>>>>,
   steps |-> Rewrite(1, <<Kept(1), Kept(2), Kept(3), Kept(4), Kept(5)>>)]

(* 1 core_lower.c                                                          *)
apply_constant_inline_multireturn_v0 ==
  [base |-> <<<<1>>>>,
   steps |-> Rewrite(1, <<Moved(1)>>)]

(* 1 core_lower.c                                                          *)
apply_constant_internal_call_cfg_v0 ==
  [base |-> <<<<1>>>>,
   steps |-> Rewrite(1, <<Moved(1)>>)]

(* 1 run.sh                                                                *)
apply_core_fast_contracts ==
  [base |-> <<<<1, 1, 1, 1, 1, 1>>>>,
   steps |-> <<Load(1), Some(1, 1), Some(1, 2), Put(1, Moved(1)),
              Put(1, Moved(2)), Some(1, 3), Put(1, Moved(3)), Some(1, 4),
              Put(1, Moved(4)), Some(1, 5), Put(1, Moved(5)), Some(1, 6),
              Put(1, Moved(6)), Save(1)>>]

(* 1 core_lower.c                                                          *)
apply_core_goto_label_fact_barrier_v0 ==
  [base |-> <<<<1>>>>,
   steps |-> Rewrite(1, <<Kept(1)>>)]

(* 1 core_lower.c                                                          *)
apply_correctness_constant_p_core_local_facts_v1 ==
  [base |-> <<<<1>>>>,
   steps |-> Rewrite(1, <<Kept(1)>>)]

(* 1 const_eval.c                                                          *)
apply_correctness_constant_p_ice_v1 ==
  [base |-> <<<<1>>>>,
   steps |-> Rewrite(1, <<Moved(1)>>)]

(* 1 core_lower.c                                                          *)
apply_correctness_constant_p_nested_core_v2 ==
  [base |-> <<<<1, 1>>>>,
   steps |-> Rewrite(1, <<Kept(1), Moved(2)>>)]

(* 1 core_lower.c                                                          *)
apply_local_asm_if_fact_barrier_v0 ==
  [base |-> <<<<1, 1>>>>,
   steps |-> Rewrite(1, <<Kept(1), Moved(2)>>)]

(* 1 core_lower.c                                                          *)
apply_local_integer_arithmetic_closure_v0 ==
  [base |-> <<<<1, 1, 1>>>>,
   steps |-> <<Load(1), Need(1, 1), Put(1, Kept(1)), Some(1, 1), Some(1, 2),
              Put(1, Kept(2)), Some(1, 3), Put(1, Kept(3)), Save(1)>>]

(* 1 core_lower.c; 2 core_lower_internal.h                                 *)
apply_local_integer_constants_v0 ==
  [base |-> <<<<0, 1, 1, 1, 1, 1, 1, 1, 1, 1, 1, 1, 1, 1, 1, 1, 1, 1, 0, 0, 0,
           0>>, <<1, 1, 0, 0>>>>,
   steps |-> <<Load(1), Load(2), Skip(1, 1, 77)>>
      \o Each(<<In(2, Edit(1, {1}, {3})), In(2, Edit(2, {2}, {4})),
           In(1, Edit(2, {2}, {1, 19, 20, 21})), In(1, Moved(3)),
           In(1, Moved(4)), In(1, Moved(5)), In(1, Moved(6)), In(1, Moved(7)),
           In(1, Kept(8)), In(1, Moved(9)), In(1, Moved(10)), In(1, Moved(11)),
           In(1, Moved(12)), In(1, Moved(13)), In(1, Moved(14)),
           In(1, Moved(15)), In(1, Moved(16)), In(1, Edit(17, {17}, {22})),
           In(1, Moved(18))>>)
      \o <<Quit, Need(1, 19), Need(1, 20), Need(1, 21), Need(1, 22),
           Need(2, 3), Need(2, 4)>>]

(* Defect: the file is put back after each edit.                           *)
apply_local_integer_guard_facts_piecemeal ==
  [base |-> <<<<0, 1, 1, 1, 1, 1>>>>,
   steps |-> <<Load(1), Stop(1, 1)>>
      \o Each(<<In(1, Edit(2, {}, {1})), In(1, Moved(3)), In(1, Kept(4)),
           In(1, Moved(5)), In(1, Moved(6))>>)]

(* 1 core_lower.c                                                          *)
apply_local_integer_guard_facts_v0 ==
  [base |-> <<<<0, 1, 1, 1, 1, 1>>>>,
   steps |-> <<Load(1), Stop(1, 1)>>
      \o Swaps(1, <<Edit(2, {}, {1}), Moved(3), Kept(4), Moved(5), Moved(6)>>)
      \o <<Save(1)>>]

(* 1 core_lower.c                                                          *)
apply_local_integer_logical_conditions_v0 ==
  [base |-> <<<<0, 1, 1, 0, 0>>>>,
   steps |-> <<Load(1), Skip(1, 1, 6)>>
      \o Swaps(1, <<Edit(2, {}, {4, 5}), Edit(3, {3}, {1})>>)
      \o <<Save(1), Quit, Some(1, 4), Some(1, 1), Some(1, 5)>>]

(* 1 core_lower.c                                                          *)
apply_local_null_pointer_conditions_v0 ==
  [base |-> <<<<0, 1, 1>>>>,
   steps |-> <<Load(1), Stop(1, 1), Some(1, 2), Some(1, 3),
              Put(1, Edit(3, {}, {1})), Save(1)>>]

(* 1 core_lower.c                                                          *)
apply_local_null_pointer_facts_v0 ==
  [base |-> <<<<0, 1, 1, 1, 0, 0, 0>>>>,
   steps |-> <<Load(1), Skip(1, 1, 8)>>
      \o Swaps(1, <<Edit(2, {}, {1, 5, 6}), Edit(3, {3}, {7}), Moved(4)>>)
      \o <<Save(1), Quit, Need(1, 1), Need(1, 5), Need(1, 6), Need(1, 7)>>]

(* 1 core_lower.c                                                          *)
apply_loop_invariant_local_facts_v0 ==
  [base |-> <<<<0, 1, 1, 1, 1>>>>,
   steps |-> <<Load(1), Stop(1, 1), Some(1, 2), Put(1, Edit(2, {}, {1}))>>
      \o Swaps(1, <<Moved(3), Moved(4), Moved(5)>>)
      \o <<Save(1)>>]

(* 1 core_lower.c                                                          *)
apply_loop_mutated_specialization_fact_barrier_v0 ==
  [base |-> <<<<1, 1>>>>,
   steps |-> Rewrite(1, <<Kept(1), Moved(2)>>)]

(* 1 core_lower.c                                                          *)
apply_p1_pure_discarded_local_address_equality_v1 ==
  [base |-> <<<<0, 1, 1>>>>,
   steps |-> <<Load(1), None(1, 1)>>
      \o Swaps(1, <<Edit(2, {}, {1}), Moved(3)>>)
      \o <<Save(1)>>]

(* 1 core_lower.c                                                          *)
apply_pointer_bitcast_integer_cfg_v0 ==
  [base |-> <<<<1>>>>,
   steps |-> Rewrite(1, <<Moved(1)>>)]

(* 1 core_lower.c                                                          *)
apply_residual_constant_closure_v0 ==
  [base |-> <<<<0, 1, 1, 1>>>>,
   steps |-> <<Load(1), Stop(1, 1), Some(1, 2), Put(1, Edit(2, {}, {1})),
              Some(1, 3), Put(1, Kept(3)), Some(1, 4),
              Put(1, Edit(4, {}, {4})), Save(1)>>]

(* 1 core_codegen.c                                                        *)
apply_riscv64_core_object_slot_reuse_v0 ==
  [base |-> <<<<1, 1, 0, 1, 1, 1, 1, 1, 1, 0, 0, 0, 0, 0>>>>,
   steps |-> <<Load(1), Some(1, 1), Some(1, 2), Skip(1, 3, 14), Some(1, 4),
              Put(1, Edit(4, {}, {3, 10, 11})), Some(1, 5),
              Put(1, Edit(5, {}, {12})), Some(1, 6), Put(1, Kept(6)),
              Some(1, 7), Put(1, Moved(7)), Some(1, 8), Put(1, Kept(8)),
              Some(1, 9), Put(1, Edit(9, {9}, {13})), Save(1), Quit,
              Need(1, 10), Need(1, 11), Need(1, 12), Need(1, 13), Need(1, 14)>>]

(* 1 function_symbol.h; 2 codegen_function.c                               *)
apply_riscv64_explicit_section_flags_v0 ==
  [base |-> <<<<1>>, <<1>>>>,
   steps |-> Each(<<In(1, Moved(1)), In(2, Moved(1))>>)]

(* 1 core_codegen.c.  Literal 15 stands for the third occurrence of the    *)
(* assignment that the canonical source has three times.                   *)
apply_riscv64_p1_defined_before_use_crossblock_v1 ==
  [base |-> <<<<1, 1, 0, 1, 1, 1, 1, 1, 1, 0, 1, 0, 0, 0, 0, 0, 0, 0>>>>,
   steps |-> <<Load(1), Some(1, 1), Some(1, 2), Skip(1, 3, 18)>>
      \o Swaps(1, <<Edit(4, {4}, {12}), Moved(5), Edit(6, {}, {3, 13, 14}), Kept(7),
           Edit(8, {8}, {10}), Edit(9, {7}, {16}), Edit(10, {10}, {17}), Edit(11, {}, {18})>>)
      \o <<Save(1), Quit>>
      \o [i \in 1 .. 7 |-> Need(1, i + 11)]]

(* 1 core_codegen.c                                                        *)
apply_riscv64_p1_frame_diagnostic_v1 ==
  [base |-> <<<<1, 0>>>>,
   steps |-> <<Load(1), Need(1, 1), None(1, 2), Put(1, Edit(1, {}, {2})),
              Save(1)>>]

(* 1 core_codegen.c                                                        *)
apply_riscv64_record_call_result_snapshot_reuse_v0 ==
  [base |-> <<<<1, 0, 1, 1, 1, 0, 0, 0, 0, 0, 0>>>>,
   steps |-> <<Load(1), Some(1, 1), Skip(1, 2, 8), Some(1, 3),
              Put(1, Edit(3, {}, {2, 6, 7, 8, 9, 10})), Some(1, 4),
              Put(1, Moved(4)), Some(1, 5), Put(1, Edit(5, {5}, {11})),
              Save(1), Quit, Need(1, 6), Need(1, 7), Need(1, 8), Need(1, 9),
              Need(1, 10), Need(1, 11)>>]

(* 1 core_codegen.c                                                        *)
apply_riscv64_structured_asm_used_callee_save_v0 ==
  [base |-> <<<<0, 0, 0, 0, 0, 0, 0, 1, 1, 1, 2>>>>,
   steps |-> <<Load(1), Skip(1, 1, 1), Goto(7), Need(1, 2), Need(1, 3),
              Need(1, 4), Need(1, 5), Need(1, 6), Refuse(1, 7, {0, 1}), Quit,
              Some(1, 8), Put(1, Edit(8, {8}, {3})), Some(1, 9),
              Put(1, Edit(9, {}, {1, 2, 4, 5})), Some(1, 10),
              Put(1, Edit(10, {10}, {6})), Refuse(1, 11, {0, 1}),
              Put(1, Every(Edit(11, {11}, {7}))), Save(1)>>]

(* 1 core_lower.c                                                          *)
apply_small_constant_array_loop_cfg_v0 ==
  [base |-> <<<<0, 1, 1, 1, 1>>>>,
   steps |-> <<Load(1), Stop(1, 1), Some(1, 2), Some(1, 3), Put(1, Kept(3)),
              Some(1, 4), Put(1, Edit(4, {}, {1})), Some(1, 5),
              Put(1, Kept(5)), Save(1)>>]

(* 1 core_lower.c                                                          *)
apply_small_constant_loop_probe_v0 ==
  [base |-> <<<<0, 1, 1>>>>,
   steps |-> <<Load(1), Stop(1, 1), Some(1, 2), Some(1, 3),
              Put(1, Edit(3, {3}, {1})), Save(1)>>]

(* 1 core_lower.c                                                          *)
apply_statement_expression_postlower_fact_v0 ==
  [base |-> <<<<0, 1>>>>,
   steps |-> <<Load(1), Stop(1, 1), Need(1, 2), Put(1, Edit(2, {2}, {1})),
              Save(1)>>]

(* 1 core_lower.c                                                          *)
apply_static_const_global_cfg_v0 ==
  [base |-> <<<<1, 1, 0>>>>,
   steps |-> <<Load(1), Some(1, 1), Some(1, 2), None(1, 3), Put(1, Kept(2)),
              Save(1)>>]

(* 1 core_lower.c                                                          *)
patch_local_assignment_source_constant_v0 ==
  [base |-> <<<<1, 1, 1>>>>,
   steps |-> Rewrite(1, <<Moved(1), Moved(2), Moved(3)>>)]

(* 1 core_lower.c                                                          *)
patch_local_constant_trace_v0 ==
  [base |-> <<<<1, 1, 1, 1, 1, 1, 1>>>>,
   steps |-> Rewrite(1, <<Moved(1), Moved(2), Moved(3), Moved(4), Kept(5),
              Moved(6), Kept(7)>>)]

(* 1 core_lower.c                                                          *)
patch_local_read_lvalue_v0 ==
  [base |-> <<<<1>>>>,
   steps |-> Rewrite(1, <<Moved(1)>>)]

(* 1 core_lower.c                                                          *)
patch_return_equality_trace_v0 ==
  [base |-> <<<<1, 1, 1, 1>>>>,
   steps |-> Rewrite(1, <<Moved(1), Moved(2), Moved(3), Kept(4)>>)]

PatchConstantsScripts ==
  {apply_builtin_constant_p_local_facts_v0,
    apply_constant_inline_call_cfg_probe_v0, apply_constant_inline_call_cfg_v0,
    apply_constant_inline_cfg_closure_v0, apply_constant_inline_multireturn_v0,
    apply_constant_internal_call_cfg_v0, apply_core_fast_contracts,
    apply_core_goto_label_fact_barrier_v0,
    apply_correctness_constant_p_core_local_facts_v1,
    apply_correctness_constant_p_ice_v1,
    apply_correctness_constant_p_nested_core_v2,
    apply_local_asm_if_fact_barrier_v0,
    apply_local_integer_arithmetic_closure_v0,
    apply_local_integer_constants_v0, apply_local_integer_guard_facts_v0,
    apply_local_integer_logical_conditions_v0,
    apply_local_null_pointer_conditions_v0, apply_local_null_pointer_facts_v0,
    apply_loop_invariant_local_facts_v0,
    apply_loop_mutated_specialization_fact_barrier_v0,
    apply_p1_pure_discarded_local_address_equality_v1,
    apply_pointer_bitcast_integer_cfg_v0, apply_residual_constant_closure_v0,
    apply_riscv64_core_object_slot_reuse_v0,
    apply_riscv64_explicit_section_flags_v0,
    apply_riscv64_p1_defined_before_use_crossblock_v1,
    apply_riscv64_p1_frame_diagnostic_v1,
    apply_riscv64_record_call_result_snapshot_reuse_v0,
    apply_riscv64_structured_asm_used_callee_save_v0,
    apply_small_constant_array_loop_cfg_v0, apply_small_constant_loop_probe_v0,
    apply_statement_expression_postlower_fact_v0,
    apply_static_const_global_cfg_v0,
    patch_local_assignment_source_constant_v0, patch_local_constant_trace_v0,
    patch_local_read_lvalue_v0, patch_return_equality_trace_v0}
=============================================================================

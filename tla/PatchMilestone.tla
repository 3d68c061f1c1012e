--------------------------- MODULE PatchMilestone ---------------------------
(***************************************************************************)
(* Tools/ci/apply-m1*, the numbered milestone patches.  Each definition is *)
(* one script: the tree it is written for (of each file, how often each    *)
(* literal occurs) and its steps.  Literals are numbered in the order in   *)
(* which the script first looks for them in the file.                      *)
(***************************************************************************)
EXTENDS PatchSteps

(* 1 core_lower.c                                                          *)
apply_m114_record_conditional ==
  [base |-> <<<<0, 1, 1, 1>>>>,
   steps |-> <<Load(1), None(1, 1)>>
      \o Swaps(1, <<Kept(2), Edit(3, {}, {1}), Kept(4)>>)
      \o <<Save(1)>>]

(* 1 core_lower.c                                                          *)
apply_m116_pointer_arith_rvalue ==
  [base |-> <<<<0, 1, 1, 1, 1, 1, 1, 0>>>>,
   steps |-> <<Load(1), None(1, 1)>>
      \o Swaps(1, <<Edit(2, {2}, {1}), Moved(3), Edit(4, {4}, {1}),
           Edit(5, {5}, {1}), Edit(6, {6}, {8}), Edit(7, {7}, {8})>>)
      \o <<Refuse(1, 1, {0, 1}), Refuse(1, 8, {0, 1}), Save(1)>>]

(* 1 core_lower.c; 2 core_codegen.c                                        *)
apply_m118_six_operand_atomic_asm ==
  [base |-> <<<<1>>, <<1, 1, 1>>>>,
   steps |-> Each(<<In(1, Kept(1)), In(2, Moved(1)), In(2, Moved(2)),
              In(2, Moved(3))>>)]

(* 1 core_lower.c                                                          *)
apply_m120_single_iteration_do_while_zero ==
  [base |-> <<<<0, 1, 1, 1>>>>,
   steps |-> <<Load(1), None(1, 1)>>
      \o Swaps(1, <<Edit(2, {}, {1}), Moved(3), Moved(4)>>)
      \o <<Save(1)>>]

(* 1 core_lower.c                                                          *)
apply_m122_discarded_comma ==
  [base |-> <<<<0, 1>>>>,
   steps |-> <<Load(1), None(1, 1), Need(1, 2), Put(1, Edit(2, {2}, {1})),
              Save(1)>>]

(* 1 core_ir.h; 2 core_ir.c; 3 core_lower.c; 4 core_codegen.c              *)
apply_m123_variadic_builtins ==
  [base |-> <<<<1>>, <<1, 1>>, <<1>>, <<1, 1, 1, 1, 1, 1>>>>,
   steps |-> Each(<<In(1, Moved(1)), In(2, Moved(1)), In(2, Moved(2)),
              In(3, Kept(1)), In(4, Moved(1))>>)
      \o <<Load(4), Some(4, 2), Some(4, 3), Put(4, Kept(2)), Save(4)>>
      \o Each(<<In(4, Moved(4)), In(4, Kept(5)), In(4, Moved(6))>>)]

(* 1 core_lower.c                                                          *)
apply_m125_asm_census_trace ==
  [base |-> <<<<0, 1>>>>,
   steps |-> <<Load(1), None(1, 1), Need(1, 2), Put(1, Edit(2, {}, {1})),
              Save(1)>>]

(* 1 core_lower.c                                                          *)
apply_m127_expression_statement_census ==
  [base |-> <<<<0, 1, 0, 1, 0, 1, 0, 1>>>>,
   steps |-> <<Load(1), Skip(1, 1, 2), Some(1, 2), Put(1, Edit(2, {}, {1})),
              Skip(1, 3, 2), Some(1, 4), Put(1, Edit(4, {4}, {3})),
              Skip(1, 5, 2), Some(1, 6), Put(1, Edit(6, {6}, {5})), None(1, 7),
              Some(1, 8), Put(1, Edit(8, {8}, {7})), Save(1)>>]

(* 1 core_lower.c; 2 m129_builtin_isdigit.c; 3                             *)
(* m129_discarded_record_values.c                                          *)
apply_m129_leaf_expression_owners ==
  [base |-> <<<<1>>, << >>, << >>>>,
   steps |-> <<Load(1), Some(1, 1), Create(2), Save(2), Create(3), Save(3)>>]

(* 1 core_lower.c                                                          *)
apply_m130_discard_operand_trace ==
  [base |-> <<<<0, 1>>>>,
   steps |-> <<Load(1), Stop(1, 1), Some(1, 2), Put(1, Edit(2, {}, {1})),
              Save(1)>>]

(* 1 core_lower.c; 2 m130_discarded_lvalue.c                               *)
apply_m130_discarded_lvalue_owner ==
  [base |-> <<<<0, 1>>, << >>>>,
   steps |-> <<Load(1), Skip(1, 1, 3), Some(1, 2), Put(1, Edit(2, {2}, {1})),
              Save(1), Create(2), Save(2)>>]

(* 1 core_lower.c                                                          *)
apply_m131_array_guard_trace ==
  [base |-> <<<<0, 1>>>>,
   steps |-> <<Load(1), Stop(1, 1), Some(1, 2), Put(1, Edit(2, {2}, {1})),
              Save(1)>>]

(* 1 core_lower.c                                                          *)
apply_m131_static_local_subscript_trace ==
  [base |-> <<<<0, 1, 1, 1, 1>>>>,
   steps |-> <<Load(1), Stop(1, 1), Some(1, 2), Put(1, Edit(2, {2}, {1})),
              Some(1, 3), Put(1, Moved(3)), Some(1, 4), Put(1, Moved(4)),
              Some(1, 5), Put(1, Moved(5)), Save(1)>>]

(* 1 expression_semantics.c; 2 core_ir.c; 3 core_lower.c; 4                *)
(* m131_zero_size_record_subscript.c                                       *)
apply_m131_zero_size_pointer_stride ==
  [base |-> <<<<0, 1>>, <<0, 1>>, <<0, 1>>, << >>>>,
   steps |-> <<Load(1), Skip(1, 1, 3), Some(1, 2), Put(1, Edit(2, {2}, {1})),
              Save(1), Load(2), Skip(2, 1, 3), Some(2, 2),
              Put(2, Edit(2, {2}, {1})), Save(2), Load(3), Skip(3, 1, 3),
              Some(3, 2), Put(3, Edit(2, {2}, {1})), Save(3), Create(4),
              Save(4)>>]

(* 1 core_lower.c                                                          *)
apply_m132_function_phase_census ==
  [base |-> <<<<0, 1>>>>,
   steps |-> <<Load(1), Stop(1, 1), Some(1, 2), Put(1, Edit(2, {2}, {1})),
              Save(1)>>]

(* 1 core_lower.c; 2 m132_unbounded_for_termination.c                      *)
apply_m132_unbounded_for_termination ==
  [base |-> <<<<0, 1, 1>>, << >>>>,
   steps |-> <<Load(1), Stop(1, 1), Some(1, 2), Put(1, Edit(2, {}, {1})),
              Some(1, 3), Put(1, Moved(3)), Save(1), Create(2), Save(2)>>]

(* 1 core_lower.c; 2 m133_constant_true_loop_reachability.c                *)
apply_m133_constant_true_loop_reachability ==
  [base |-> <<<<0, 1, 1, 1>>, << >>>>,
   steps |-> <<Load(1), Stop(1, 1), Some(1, 2), Put(1, Edit(2, {}, {1})),
              Some(1, 3), Put(1, Moved(3)), Some(1, 4),
              Put(1, Edit(4, {4}, {1})), Save(1), Create(2), Save(2)>>]

(* 1 core_lower.c                                                          *)
apply_m134_unreachable_tail_census ==
  [base |-> <<<<0, 1>>>>,
   steps |-> <<Load(1), Stop(1, 1), Need(1, 2), Put(1, Edit(2, {2}, {1})),
              Save(1)>>]

(* 1 core_lower.c; 2 m134_unreachable_tail.c; 3                            *)
(* m134_unreachable_nested_label.c                                         *)
apply_m134_unreachable_tail_owner ==
  [base |-> <<<<0, 1, 1>>, << >>, << >>>>,
   steps |-> <<Load(1), Stop(1, 1)>>
      \o Swaps(1, <<Edit(2, {}, {1}), Moved(3)>>)
      \o <<Save(1), Create(2), Save(2), Create(3), Save(3)>>]

(* 1 core_lower.c; 2 m135_cleanup_metadata_nonedge.c                       *)
apply_m135_cleanup_edge_classification ==
  [base |-> <<<<0, 1>>, << >>>>,
   steps |-> <<Load(1), Stop(1, 1), Need(1, 2), Put(1, Edit(2, {2}, {1})),
              Save(1), Create(2), Save(2)>>]

(* 1 core_lower.c                                                          *)
apply_m137_cfg_block_census ==
  [base |-> <<<<0, 1, 1>>>>,
   steps |-> <<Load(1), Stop(1, 1)>>
      \o Swaps(1, <<Moved(2), Edit(3, {}, {1})>>)
      \o <<Save(1)>>]

(* 1 core_lower.c; 2 m137_detached_loop_continue.c                         *)
apply_m137_detached_loop_continue_owner ==
  [base |-> <<<<0, 1, 1>>, << >>>>,
   steps |-> <<Load(1), Stop(1, 1)>>
      \o Swaps(1, <<Edit(2, {}, {1}), Moved(3)>>)
      \o <<Save(1), Create(2), Save(2)>>]

(* 1 core_lower.c; 2 m140_normalized_for_continue_tail.c                   *)
apply_m140_normalized_for_continue_tail ==
  [base |-> <<<<0, 1, 1, 1>>, << >>>>,
   steps |-> <<Load(1), Stop(1, 1), Some(1, 2)>>
      \o Swaps(1, <<Edit(3, {3}, {1}), Moved(4)>>)
      \o <<Save(1), Create(2), Save(2)>>]

(* 1 core_lower.c; 2 m141_scoped_loop_continue_tail.c                      *)
apply_m141_scoped_loop_continue_tail ==
  [base |-> <<<<0, 1, 1, 1, 1>>, << >>>>,
   steps |-> <<Load(1), Stop(1, 1), Some(1, 2), Some(1, 3)>>
      \o Swaps(1, <<Moved(4), Edit(5, {5}, {1})>>)
      \o <<Save(1), Create(2), Save(2)>>]

(* 1 core_lower.c; 2 m142_nonedge_cleanup_metadata.c                       *)
apply_m142_nonedge_cleanup_metadata ==
  [base |-> <<<<0, 1, 1>>, << >>>>,
   steps |-> <<Load(1), Stop(1, 1), Some(1, 2), Need(1, 3),
              Put(1, Edit(3, {3}, {1})), Save(1), Create(2), Save(2)>>]

(* 1 core_lower.c                                                          *)
apply_m143_cleanup_label_owner_trace ==
  [base |-> <<<<0, 1, 1>>>>,
   steps |-> <<Load(1), Stop(1, 1), Some(1, 2), Need(1, 3),
              Put(1, Edit(3, {}, {1})), Save(1)>>]

(* 1 core_lower.c; 2 m144_unreferenced_loop_label_metadata.c               *)
apply_m144_unreferenced_loop_label_metadata ==
  [base |-> <<<<0, 1, 1, 1, 1, 1>>, << >>>>,
   steps |-> <<Load(1), Stop(1, 1), Some(1, 2), Some(1, 3), Some(1, 4)>>
      \o Swaps(1, <<Edit(5, {}, {1}), Moved(6)>>)
      \o <<Save(1), Create(2), Save(2)>>]

(* 1 core_lower.c; 2 m146_opportunistic_detached_continue.c                *)
apply_m146_opportunistic_detached_continue ==
  [base |-> <<<<0, 1, 1>>, << >>>>,
   steps |-> <<Load(1), Stop(1, 1), Some(1, 2), Need(1, 3),
              Put(1, Edit(3, {3}, {1})), Save(1), Create(2), Save(2)>>]

(* 1 core_lower.c; 2 m147_normalized_for_continue_binding.c                *)
apply_m147_normalized_for_continue_binding ==
  [base |-> <<<<0, 1, 1, 1>>, << >>>>,
   steps |-> <<Load(1), Stop(1, 1), Some(1, 2), Some(1, 3), Need(1, 4),
              Put(1, Edit(4, {4}, {1})), Save(1), Create(2), Save(2)>>]

(* 1 core_lower.c; 2 m148_for_update_continue_cfg.c                        *)
apply_m148_normalized_for_update_continue_cfg ==
  [base |-> <<<<0, 1, 1, 1, 1, 1, 1>>, << >>>>,
   steps |-> <<Load(1), Stop(1, 1), Some(1, 2), Some(1, 3)>>
      \o Swaps(1, <<Kept(4), Moved(5), Edit(6, {6}, {1}), Edit(7, {7}, {1})>>)
      \o <<Save(1), Create(2), Save(2)>>]

(* 1 core_lower.c; 2 m157_scalar_compound_literal_address.c                *)
apply_m152_nested_member_address ==
  [base |-> <<<<0, 1, 1>>, << >>>>,
   steps |-> <<Load(1), Stop(1, 1), Some(1, 2), Need(1, 3),
              Put(1, Edit(3, {}, {1})), Save(1), Create(2), Save(2)>>]

(* 1 core_ir.h; 2 core_ir.c; 3 core_lower.c; 4 core_codegen.c; 5           *)
(* m158_final_strict_tail.c                                                *)
apply_m158_final_four ==
  [base |-> <<<<0, 1, 1, 1, 1>>, <<0, 1, 1, 1, 1>>, <<0, 1, 0, 1, 0, 1, 0, 1,
           1>>, <<0, 1, 1, 1>>, << >>>>,
   steps |-> <<Load(1), Skip(1, 1, 8)>>
      \o Swaps(1, <<Edit(2, {2}, {1}), Edit(3, {3}, {1}), Moved(4)>>)
      \o <<Put(1, Edit(5, {}, {1})), Save(1), Load(2), Skip(2, 1, 9)>>
      \o Swaps(2, <<Edit(2, {}, {1}), Moved(3), Kept(4), Moved(5)>>)
      \o <<Save(2), Load(3), Skip(3, 1, 2), Need(3, 2),
           Put(3, Edit(2, {2}, {1})), Skip(3, 3, 2), Need(3, 4),
           Put(3, Edit(4, {}, {3})), Skip(3, 5, 2), Need(3, 6),
           Put(3, Edit(6, {6}, {5})), Skip(3, 7, 5)>>
      \o Swaps(3, <<Edit(8, {8}, {7}), Edit(9, {9}, {7})>>)
      \o <<Save(3), Load(4), Skip(4, 1, 7)>>
      \o Swaps(4, <<Moved(2), Edit(3, {}, {1}), Moved(4)>>)
      \o <<Save(4), Create(5), Save(5)>>]

(* 1 core_codegen.c                                                        *)
apply_m161_rv64_int128_pair ==
  [base |-> <<<<1, 1, 1, 1, 1, 1, 1, 1, 1, 1>>>>,
   steps |-> Rewrite(1, <<Moved(1), Moved(2), Moved(3), Moved(4), Kept(5),
              Moved(6), Moved(7), Moved(8), Moved(9), Moved(10)>>)]

(* 1 core_codegen.c                                                        *)
apply_m162_rv64_record_load ==
  [base |-> <<<<1, 1>>>>,
   steps |-> Rewrite(1, <<Moved(1), Moved(2)>>)]

(* 1 core_codegen.c                                                        *)
apply_m163_rv64_preflight_trace ==
  [base |-> <<<<1, 1, 1, 1, 1, 1, 1, 1>>>>,
   steps |-> Rewrite(1, <<Moved(1), Moved(2), Moved(3), Moved(4), Moved(5),
              Moved(6), Moved(7), Moved(8)>>)]

(* 1 core_codegen.c                                                        *)
apply_m164_rv64_tail_trace ==
  [base |-> <<<<1, 1, 1, 1, 1, 1>>>>,
   steps |-> Rewrite(1, <<Moved(1), Moved(2), Moved(3), Moved(4), Moved(5),
              Moved(6)>>)]

(* 1 core_codegen.c                                                        *)
apply_m165_rv64_indirect_parameter_object ==
  [base |-> <<<<1, 1>>>>,
   steps |-> Rewrite(1, <<Moved(1), Moved(2)>>)]

(* 1 core_codegen.c                                                        *)
apply_m165_rv64_zero_record_copy ==
  [base |-> <<<<1>>>>,
   steps |-> Rewrite(1, <<Moved(1)>>)]

(* 1 core_codegen.c                                                        *)
apply_m166_rv64_fixed_asm_phase_alias ==
  [base |-> <<<<1, 1>>>>,
   steps |-> Rewrite(1, <<Kept(1), Moved(2)>>)]

(* 1 core_codegen.c                                                        *)
apply_m167_rv64_zero_record_copy ==
  [base |-> <<<<1>>>>,
   steps |-> Rewrite(1, <<Moved(1)>>)]

(* 1 core_codegen.c                                                        *)
apply_m167b_rv64_instruction_trace ==
  [base |-> <<<<1>>>>,
   steps |-> Rewrite(1, <<Moved(1)>>)]

(* 1 core_codegen.c                                                        *)
apply_m167c_rv64_function_preflight_trace ==
  [base |-> <<<<1, 1, 1, 1, 1, 1, 1>>>>,
   steps |-> Rewrite(1, <<Moved(1), Moved(2), Moved(3), Moved(4), Moved(5),
              Moved(6), Moved(7)>>)]

(* 1 core_codegen.c                                                        *)
apply_m167d_rv64_indirect_record_return ==
  [base |-> <<<<1, 1, 1, 1, 1, 1, 1, 1, 1>>>>,
   steps |-> Rewrite(1, <<Moved(1), Moved(2), Moved(3), Moved(4), Moved(5),
              Moved(6), Moved(7), Moved(8), Moved(9)>>)]

(* 1 core_codegen.c                                                        *)
apply_m169_rv64_tail_preflight_trace ==
  [base |-> <<<<1, 1>>>>,
   steps |-> Rewrite(1, <<Kept(1), Moved(2)>>)]

(* 1 core_codegen.c                                                        *)
apply_m170_rv64_array_object ==
  [base |-> <<<<1>>>>,
   steps |-> Rewrite(1, <<Moved(1)>>)]

(* 1 core_codegen.c                                                        *)
apply_m170_rv64_object_detail_trace ==
  [base |-> <<<<1>>>>,
   steps |-> Rewrite(1, <<Moved(1)>>)]

(* 1 core_codegen.c                                                        *)
apply_m171_rv64_overaligned_frame ==
  [base |-> <<<<1, 1, 1, 1, 1, 1, 1, 1, 1, 1, 1, 1, 1, 1, 1, 1, 1>>>>,
   steps |-> Rewrite(1, <<Moved(1), Moved(2), Moved(3), Moved(4), Kept(5),
              Moved(6), Moved(7), Kept(8), Moved(9), Moved(10), Moved(11),
              Moved(12), Moved(13), Moved(14), Moved(15), Moved(16),
              Moved(17)>>)]

PatchMilestoneScripts ==
  {apply_m114_record_conditional, apply_m116_pointer_arith_rvalue,
    apply_m118_six_operand_atomic_asm,
    apply_m120_single_iteration_do_while_zero, apply_m122_discarded_comma,
    apply_m123_variadic_builtins, apply_m125_asm_census_trace,
    apply_m127_expression_statement_census, apply_m129_leaf_expression_owners,
    apply_m130_discard_operand_trace, apply_m130_discarded_lvalue_owner,
    apply_m131_array_guard_trace, apply_m131_static_local_subscript_trace,
    apply_m131_zero_size_pointer_stride, apply_m132_function_phase_census,
    apply_m132_unbounded_for_termination,
    apply_m133_constant_true_loop_reachability,
    apply_m134_unreachable_tail_census, apply_m134_unreachable_tail_owner,
    apply_m135_cleanup_edge_classification, apply_m137_cfg_block_census,
    apply_m137_detached_loop_continue_owner,
    apply_m140_normalized_for_continue_tail,
    apply_m141_scoped_loop_continue_tail, apply_m142_nonedge_cleanup_metadata,
    apply_m143_cleanup_label_owner_trace,
    apply_m144_unreferenced_loop_label_metadata,
    apply_m146_opportunistic_detached_continue,
    apply_m147_normalized_for_continue_binding,
    apply_m148_normalized_for_update_continue_cfg,
    apply_m152_nested_member_address, apply_m158_final_four,
    apply_m161_rv64_int128_pair, apply_m162_rv64_record_load,
    apply_m163_rv64_preflight_trace, apply_m164_rv64_tail_trace,
    apply_m165_rv64_indirect_parameter_object,
    apply_m165_rv64_zero_record_copy, apply_m166_rv64_fixed_asm_phase_alias,
    apply_m167_rv64_zero_record_copy, apply_m167b_rv64_instruction_trace,
    apply_m167c_rv64_function_preflight_trace,
    apply_m167d_rv64_indirect_record_return,
    apply_m169_rv64_tail_preflight_trace, apply_m170_rv64_array_object,
    apply_m170_rv64_object_detail_trace, apply_m171_rv64_overaligned_frame}
=============================================================================

--------------------------- MODULE PatchCatalogue ---------------------------
(***************************************************************************)
(* The source patch scripts of tools/ci and tools/dev, and by name which   *)
(* of them promise what. A script is on a list because of what its code    *)
(* does today; one that is changed so that it no longer keeps the promise  *)
(* stays on the list, and breaks it.                                       *)
(***************************************************************************)
EXTENDS PatchInline, PatchMilestone, PatchPerf, PatchConstants, PatchFrontier,
        PatchMaterialize, PatchPr75, PatchPr77

AllScripts ==
  PatchInlineScripts \cup PatchMilestoneScripts \cup PatchPerfScripts
    \cup PatchConstantsScripts \cup PatchFrontierScripts \cup PatchMaterializeScripts
    \cup PatchPr75Scripts \cup PatchPr77Scripts

(* The scripts that make an edit again when they are run again: its anchor *)
(* is still there, and nothing looks for the new text. Some do so only in  *)
(* a tree in which a text they look for is missing or occurs twice.        *)
EditsTwice ==
  {apply_constant_inline_call_cfg_v0, apply_constant_inline_cfg_closure_v0,
   apply_core_goto_label_fact_barrier_v0,
   apply_correctness_constant_p_core_local_facts_v1,
   apply_inline_asm_immediate_batch_trace_v0,
   apply_inline_asm_rk_cast_tail_v0, apply_inline_asm_rk_tail_rollback_v0,
   apply_local_integer_arithmetic_closure_v0,
   apply_m118_six_operand_atomic_asm, apply_perf_ast_footprint_trace_v1,
   apply_perf_ast_shape_census_v1, apply_perf_lexer_rescan_census_v1,
   apply_static_const_global_cfg_v0,
   override_apply_inline_specialization_transitive_integer_v0,
   patch_core_frontier_batch_m31, patch_core_frontier_batch_m31b_fixups,
   patch_core_frontier_batch_m33, patch_core_frontier_batch_m34,
   patch_core_frontier_batch_m35, patch_core_frontier_batch_n,
   patch_core_frontier_batch_p, patch_core_futex_structured_asm,
   patch_core_pareto_top35, pr75_array_bound_sizeof_string,
   pr75_builtin_expect, pr75_builtin_va_list,
   pr75_conditional_pointer_qualifiers, pr75_enum_constant_expressions,
   pr75_extern_function_declarations, pr75_gnu_declaration_visibility,
   pr75_gnu_extension_marker, pr75_gnu_function_asm_labels,
   pr75_prefix_update_expressions, pr75_record_top_level_dispatch,
   pr75_remainder_assignment, pr75_static_inferred_char_arrays,
   pr75_static_local_scalars, pr75_static_record_arrays,
   pr75_top_level_comma_conditions, pr75_unsigned_64_literals,
   pr77_builtin_constant_p, pr77_enum_tag_type_references,
   pr77_gnu_compiletime_selection_builtins, pr77_gnu_inline_asm,
   pr77_gnu_typedef_redundant_aligned}

EditsTwiceElsewhere ==
  {apply_inline_specialization_local_boolean_domain_index_v0,
   apply_perf_parser_nearest_ordinary_scope_v1,
   apply_perf_parser_typedef_index_v1, patch_core_frontier_batch_f,
   patch_core_frontier_batch_q, patch_core_frontier_batch_r,
   patch_core_frontier_batch_w, patch_core_frontier_batch_y}

OnceScripts == AllScripts \ (EditsTwice \cup EditsTwiceElsewhere)

(* The scripts that conclude from a part of their work that all of it is   *)
(* there, and accept what a killed run has left; and those that succeed    *)
(* though the anchor of an edit is missing.                                *)
AcceptsHalf ==
  {apply_local_integer_constants_v0, apply_m132_unbounded_for_termination,
   apply_m133_constant_true_loop_reachability,
   apply_m134_unreachable_tail_owner,
   apply_m135_cleanup_edge_classification,
   apply_m137_detached_loop_continue_owner,
   apply_m140_normalized_for_continue_tail,
   apply_m141_scoped_loop_continue_tail,
   apply_m142_nonedge_cleanup_metadata,
   apply_m144_unreferenced_loop_label_metadata,
   apply_m146_opportunistic_detached_continue,
   apply_m147_normalized_for_continue_binding,
   apply_m148_normalized_for_update_continue_cfg,
   apply_m152_nested_member_address, m105_fixed_register_core,
   m106_materialized_local_array, m107_structured_memory_output_asm}

MissesAnchor ==
  {apply_builtin_constant_p_local_facts_v0, apply_m158_final_four,
   materialize_data_layout_union_selection_boundary_v1,
   pr75_stack_arguments, pr75_static_local_scalars,
   pr77_block_scope_extern_functions, pr77_gnu_inline_asm,
   pr77_register_storage_class}

WholeScripts == AllScripts \ (AcceptsHalf \cup MissesAnchor)

(* The scripts that recognise their own work, edit by edit or as a whole,  *)
(* before they look for an anchor it has removed: they can be run again    *)
(* wherever a run was killed.                                              *)
ResumedScripts ==
  PatchMaterializeScripts \cup
  {apply_local_integer_guard_facts_v0,
   apply_local_integer_logical_conditions_v0,
   apply_local_null_pointer_conditions_v0,
   apply_local_null_pointer_facts_v0, apply_loop_invariant_local_facts_v0,
   apply_m129_leaf_expression_owners, apply_m130_discard_operand_trace,
   apply_m130_discarded_lvalue_owner, apply_m131_array_guard_trace,
   apply_m131_static_local_subscript_trace,
   apply_m131_zero_size_pointer_stride, apply_m132_function_phase_census,
   apply_m134_unreachable_tail_census, apply_m137_cfg_block_census,
   apply_m143_cleanup_label_owner_trace, apply_m158_final_four,
   apply_residual_constant_closure_v0,
   apply_riscv64_record_call_result_snapshot_reuse_v0,
   apply_riscv64_structured_asm_used_callee_save_v0,
   apply_small_constant_array_loop_cfg_v0,
   apply_small_constant_loop_probe_v0,
   apply_statement_expression_postlower_fact_v0, m106_address_diagnostic,
   m106_fixed_call_diagnostic, patch_core_frontier_batch_a,
   patch_core_frontier_batch_b, patch_core_frontier_batch_e,
   patch_core_frontier_batch_g, patch_core_frontier_batch_h,
   patch_core_frontier_batch_i, patch_core_frontier_batch_j,
   patch_core_frontier_batch_k, patch_core_frontier_batch_s,
   patch_core_frontier_batch_t, patch_core_frontier_batch_v,
   patch_core_frontier_m49_forward,
   patch_core_frontier_m50b_void_statement_expression,
   patch_core_frontier_m53_void_conditional,
   patch_core_frontier_m54_void_conditional_statement,
   patch_core_frontier_m55_scalar_conditional_conversion,
   patch_core_frontier_m56_prefix_update,
   patch_core_frontier_m57_constant_conditional,
   patch_core_frontier_m58_logical_or,
   patch_core_frontier_m59_empty_scalar_input_barrier,
   patch_core_frontier_m60_pointer_conditional,
   patch_core_frontier_m61_immediate_only_asm,
   patch_core_frontier_m62_pointer_return_conversion,
   patch_core_frontier_m63_qualified_scalar_update,
   patch_core_frontier_m64_local_label_address_original,
   patch_core_frontier_m65_assignment_expression,
   patch_core_frontier_m66_subscript_index_value_type,
   patch_core_frontier_m67_structured_inline_asm,
   patch_core_frontier_m68_structured_inline_asm_optional_inputs,
   patch_core_frontier_m71_legacy_array_object_subscript,
   patch_core_frontier_m72_nested_break_target,
   patch_core_frontier_m73_comma_expression,
   patch_core_frontier_m74_global_record_address,
   patch_core_frontier_m83b_call_statement_dispatch,
   patch_core_frontier_m84_pointer_loop_condition,
   patch_core_frontier_m85b_record_callee_verifier,
   patch_core_frontier_m86b_record_assignment_expression,
   patch_core_frontier_m87_immediate_asm_trace,
   patch_core_frontier_m88_record_compound_literal,
   patch_core_frontier_m91_builtin_unreachable,
   patch_core_frontier_m92_indirect_call_detail,
   patch_core_verifier_fast_trace, patch_linux_replay_live_progress}
=============================================================================

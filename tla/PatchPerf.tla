----------------------------- MODULE PatchPerf ------------------------------
(***************************************************************************)
(* Tools/ci/apply-perf-*, the compile-time performance patches.  Each      *)
(* definition is one script: the tree it is written for (of each file, how *)
(* often each literal occurs) and its steps.  Literals are numbered in the *)
(* order in which the script first looks for them in the file.             *)
(***************************************************************************)
EXTENDS PatchSteps

(* 1 ast.c                                                                 *)
apply_perf_ast_capacity_growth_v1 ==
  [base |-> <<<<1, 1, 1>>>>,
   steps |-> Rewrite(1, <<Kept(1), Moved(2), Moved(3)>>)]

(* 1 compiler.c                                                            *)
apply_perf_ast_footprint_trace_v1 ==
  [base |-> <<<<1, 1>>>>,
   steps |-> Rewrite(1, <<Kept(1), Kept(2)>>)]

(* 1 compiler.c                                                            *)
apply_perf_ast_shape_census_v1 ==
  [base |-> <<<<1, 1, 1>>>>,
   steps |-> Rewrite(1, <<Kept(1), Kept(2), Kept(3)>>)]

(* 1 core_lower.c                                                          *)
apply_perf_core_discarded_if_sparse_v1 ==
  [base |-> <<<<1, 1, 2, 1, 1, 1, 1, 1, 1>>>>,
   steps |-> <<Load(1)>>
      \o Swaps(1, <<Moved(1), Kept(2)>>)
      \o <<Refuse(1, 3, {0, 1}), Put(1, Every(Moved(3)))>>
      \o Swaps(1, <<Moved(4), Moved(5), Moved(6), Moved(7), Moved(8),
           Kept(9)>>)
      \o <<Save(1)>>]

(* 1 ast.h; 2 ast.c                                                        *)
apply_perf_function_parameter_exact_allocation_v1 ==
  [base |-> <<<<1>>, <<1, 1, 1, 1>>>>,
   steps |-> Each(<<In(1, Moved(1)), In(2, Moved(1)), In(2, Moved(2)),
              In(2, Moved(3)), In(2, Moved(4))>>)]

(* 1 ast.h; 2 ast.c                                                        *)
apply_perf_functiontype_exact_allocation_v1 ==
  [base |-> <<<<1>>, <<1, 1>>>>,
   steps |-> Each(<<In(1, Moved(1)), In(2, Kept(1)), In(2, Moved(2))>>)]

(* 1 compiler.c                                                            *)
apply_perf_integer_loop_trace_v0 ==
  [base |-> <<<<1, 1, 1>>>>,
   steps |-> Rewrite(1, <<Moved(1), Moved(2), Kept(3)>>)]

(* 1 lexer.c                                                               *)
apply_perf_lexer_identifier_bulk_advance_v1 ==
  [base |-> <<<<1, 1>>>>,
   steps |-> <<Load(1), Need(1, 1), Need(1, 2), Put(1, Moved(1)), Save(1)>>]

(* 1 lexer.c                                                               *)
apply_perf_lexer_rescan_census_v1 ==
  [base |-> <<<<1, 1>>>>,
   steps |-> <<Load(1)>>
      \o Swaps(1, <<Kept(1), Moved(2)>>)
      \o <<Put(1, Edit(0, {}, {2})), Save(1)>>]

(* 1 parser_internal.h; 2 parser_statement.c; 3 parser_function.c          *)
apply_perf_parser_cold_switch_context_v1 ==
  [base |-> <<<<1>>, <<1>>, <<1>>>>,
   steps |-> Each(<<In(1, Moved(1)), In(2, Kept(1)), In(3, Moved(1))>>)]

(* 1 parser_enum.c                                                         *)
apply_perf_parser_enum_binding_global_index_v1 ==
  [base |-> <<<<1, 1, 1, 1>>>>,
   steps |-> <<Load(1), Need(1, 1), Need(1, 2), Need(1, 3), Need(1, 4),
              Put(1, Moved(1)), Save(1)>>]

(* 1 parser_internal.h; 2 parser_core.c; 3 parser_type.c; 4                *)
(* parser_expression.c                                                     *)
apply_perf_parser_nearest_ordinary_scope_v1 ==
  [base |-> <<<<0, 1, 0, 1>>, <<0, 1>>, <<0, 1, 0, 1>>, <<0, 1, 0, 1, 0, 1, 0,
           1>>>>,
   steps |-> <<Load(1), Jump(1, 1, {1}, 3), Need(1, 2),
              Put(1, Edit(2, {}, {1})), Save(1), Load(1), Jump(1, 3, {1}, 3),
              Need(1, 4), Put(1, Edit(4, {}, {3})), Save(1), Load(2),
              Jump(2, 1, {1}, 3), Need(2, 2), Put(2, Edit(2, {}, {1})),
              Save(2), Load(3), Jump(3, 1, {1}, 3), Need(3, 2),
              Put(3, Edit(2, {2}, {1})), Save(3), Load(3), Jump(3, 3, {1}, 3),
              Need(3, 4), Put(3, Edit(4, {4}, {3})), Save(3), Load(4),
              Jump(4, 1, {1}, 3), Need(4, 2), Put(4, Edit(2, {2}, {1})),
              Save(4), Load(4), Jump(4, 3, {1}, 3), Need(4, 4),
              Put(4, Edit(4, {4}, {3})), Save(4), Load(4), Jump(4, 5, {1}, 3),
              Need(4, 6), Put(4, Edit(6, {6}, {5})), Save(4), Load(4),
              StopWhen(4, 7, {1}), Need(4, 8), Put(4, Edit(8, {8}, {7})),
              Save(4)>>]

(* 1 parser_internal.h; 2 parser_typedef.c; 3 parser_core.c                *)
apply_perf_parser_typedef_index_v1 ==
  [base |-> <<<<0, 1>>, <<0, 1, 0, 1, 0, 1>>, <<0, 1>>>>,
   steps |-> <<Load(1), Jump(1, 1, {1}, 3), Need(1, 2),
              Put(1, Edit(2, {2}, {1})), Save(1), Load(2), Jump(2, 1, {1}, 3),
              Need(2, 2), Put(2, Edit(2, {}, {1})), Save(2), Load(2),
              Jump(2, 3, {1}, 3), Need(2, 4), Put(2, Edit(4, {}, {3})),
              Save(2), Load(2), Jump(2, 5, {1}, 3), Need(2, 6),
              Put(2, Edit(6, {}, {5})), Save(2), Load(3), StopWhen(3, 1, {1}),
              Need(3, 2), Put(3, Edit(2, {2}, {1})), Save(3)>>]

(* 1 compiler.c                                                            *)
apply_perf_specialization_phase_trace_v0 ==
  [base |-> <<<<1, 1, 1, 1, 1>>>>,
   steps |-> <<Load(1), Some(1, 1), Put(1, Every(Moved(1))), Some(1, 2),
              Put(1, Every(Moved(2))), Some(1, 3), Put(1, Every(Moved(3))),
              Some(1, 4), Put(1, Every(Moved(4))), Need(1, 5), Put(1, Kept(5)),
              Save(1)>>]

(* 1 compiler.c                                                            *)
apply_perf_symbolic_loop_trace_v0 ==
  [base |-> <<<<1, 1, 1>>>>,
   steps |-> Rewrite(1, <<Moved(1), Moved(2), Kept(3)>>)]

(* 1 type.h                                                                *)
apply_perf_type_field_layout_v1 ==
  [base |-> <<<<1>>>>,
   steps |-> Rewrite(1, <<Moved(1)>>)]

PatchPerfScripts ==
  {apply_perf_ast_capacity_growth_v1, apply_perf_ast_footprint_trace_v1,
    apply_perf_ast_shape_census_v1, apply_perf_core_discarded_if_sparse_v1,
    apply_perf_function_parameter_exact_allocation_v1,
    apply_perf_functiontype_exact_allocation_v1,
    apply_perf_integer_loop_trace_v0,
    apply_perf_lexer_identifier_bulk_advance_v1,
    apply_perf_lexer_rescan_census_v1,
    apply_perf_parser_cold_switch_context_v1,
    apply_perf_parser_enum_binding_global_index_v1,
    apply_perf_parser_nearest_ordinary_scope_v1,
    apply_perf_parser_typedef_index_v1,
    apply_perf_specialization_phase_trace_v0,
    apply_perf_symbolic_loop_trace_v0, apply_perf_type_field_layout_v1}
=============================================================================

-------------------------- MODULE PatchMaterialize --------------------------
(***************************************************************************)
(* Tools/dev/materialize-*, the Linux first-500 patches.  Each definition  *)
(* is one script: the tree it is written for (of each file, how often each *)
(* literal occurs) and its steps.  Literals are numbered in the order in   *)
(* which the script first looks for them in the file.                      *)
(***************************************************************************)
EXTENDS PatchSteps

(* 1 data_layout.c                                                         *)
materialize_data_layout_union_selection_boundary_v1 ==
  [base |-> <<<<0, 1, 0, 1, 2>>>>,
   steps |-> <<Load(1), Skip(1, 1, 2), Need(1, 2), Put(1, Edit(2, {2}, {1})),
              Skip(1, 3, 2), Need(1, 4), Put(1, Edit(4, {4, 5}, {3})),
              Put(1, Every(Moved(5))), Save(1)>>]

(* 1 codegen_function.c                                                    *)
materialize_linux_first500_function_emitter_stage_v1 ==
  [base |-> <<<<0, 1, 1, 1, 1, 1, 1, 1, 1, 1, 1, 1>>>>,
   steps |-> <<Load(1), Stop(1, 1)>>
      \o Swaps(1, <<Edit(2, {2}, {1}), Moved(3), Kept(4), Moved(5), Kept(6),
           Kept(7), Kept(8), Moved(9), Moved(10), Moved(11), Moved(12)>>)
      \o <<Save(1)>>]

(* 1 codegen_expression.c                                                  *)
materialize_linux_first500_indirect_varargs_v1 ==
  [base |-> <<<<0, 1, 0, 1>>>>,
   steps |-> EachUnless(<<Unless(1, 1, Edit(2, {2}, {1}))>>)
      \o <<Load(1), Stop(1, 3), Need(1, 4), Put(1, Edit(4, {4}, {3})),
           Save(1)>>]

(* Defects: replace_once does not look for the new text; what it finds of  *)
(* the first edit ends the script.                                         *)
materialize_linux_first500_nested_designator_unseen ==
  [base |-> <<<<0, 1, 0, 1, 0, 1>>>>,
   steps |-> Each(<<In(1, Edit(2, {2}, {1})), In(1, Edit(4, {4}, {3}))>>)
      \o <<Load(1), Stop(1, 5), Need(1, 6), Put(1, Edit(6, {6}, {5})),
           Save(1)>>]

materialize_linux_first500_nested_designator_early ==
  [base |-> <<<<0, 1, 0, 1, 0, 1>>>>,
   steps |-> <<Load(1), Stop(1, 1), Need(1, 2), Put(1, Edit(2, {2}, {1})),
           Save(1)>>
      \o EachUnless(<<Unless(1, 3, Edit(4, {4}, {3}))>>)
      \o <<Load(1), Stop(1, 5), Need(1, 6), Put(1, Edit(6, {6}, {5})),
           Save(1)>>]

(* 1 parser_global.c                                                       *)
materialize_linux_first500_nested_designator_v1 ==
  [base |-> <<<<0, 1, 0, 1, 0, 1>>>>,
   steps |-> EachUnless(<<Unless(1, 1, Edit(2, {2}, {1})),
              Unless(1, 3, Edit(4, {4}, {3}))>>)
      \o <<Load(1), Stop(1, 5), Need(1, 6), Put(1, Edit(6, {6}, {5})),
           Save(1)>>]

(* 1 codegen_function.c                                                    *)
materialize_linux_first500_nested_record_emitter_v1 ==
  [base |-> <<<<0, 1>>>>,
   steps |-> <<Load(1), Stop(1, 1), Need(1, 2), Put(1, Edit(2, {2}, {1})),
              Save(1)>>]

(* 1 parser_function.c; 2 parser_statement.c                               *)
materialize_linux_first500_parameter_array_v1 ==
  [base |-> <<<<0, 1, 0, 1>>, <<0, 1>>>>,
   steps |-> EachUnless(<<Unless(1, 1, Edit(2, {2}, {1})),
              Unless(1, 3, Edit(4, {4}, {3}))>>)
      \o <<Load(2), Stop(2, 1), Need(2, 2), Put(2, Edit(2, {2}, {1})),
           Save(2)>>]

(* 1 parser_global.c                                                       *)
materialize_linux_first500_record_fam_extent_v2 ==
  [base |-> <<<<0, 1>>>>,
   steps |-> <<Load(1), Stop(1, 1), Need(1, 2), Put(1, Edit(2, {2}, {1})),
              Save(1)>>]

(* 1 codegen_function.c                                                    *)
materialize_linux_first500_rv64_global_failure_detail_v1 ==
  [base |-> <<<<0, 1>>>>,
   steps |-> <<Load(1), Skip(1, 1, 2), Need(1, 2), Put(1, Edit(2, {2}, {1})),
              Save(1)>>]

(* 1 codegen_expression.c; 2 gnu_int128_type.c; 3 run-gnu-int128-type.sh   *)
materialize_linux_first500_rv64_int128_arithmetic_v2 ==
  [base |-> <<<<0, 1, 0, 1, 0, 1, 0, 1>>, <<0, 1>>, <<0, 1, 0, 1>>>>,
   steps |-> EachUnless(<<Unless(1, 1, Edit(2, {2}, {1})),
              Unless(1, 3, Edit(4, {}, {3})), Unless(1, 5, Edit(6, {6}, {5})),
              Unless(1, 7, Edit(8, {8}, {7})), Unless(2, 1, Edit(2, {}, {1})),
              Unless(3, 1, Edit(2, {2}, {1}))>>)
      \o <<Load(3), Stop(3, 3), Need(3, 4), Put(3, Edit(4, {4}, {3})),
           Save(3)>>]

(* 1 codegen_statement.c                                                   *)
materialize_linux_first500_statement_emitter_owner_v1 ==
  [base |-> <<<<0, 1>>>>,
   steps |-> <<Load(1), Stop(1, 1), Need(1, 2), Put(1, Edit(2, {2}, {1})),
              Save(1)>>]

(* 1 ast.h; 2 ast_global.c; 3 parser_global.c; 4 data_layout.c; 5          *)
(* codegen_function.c; 6 run-static-aggregate-initializers.sh              *)
materialize_linux_first500_static_fam_v1 ==
  [base |-> <<<<0, 1, 0, 1>>, <<0, 1>>, <<0, 1>>, <<0, 1>>, <<0, 1, 0, 1, 0,
           1>>, <<0, 1, 0, 1>>>>,
   steps |-> EachUnless(<<Unless(1, 1, Edit(2, {2}, {1})),
              Unless(1, 3, Edit(4, {4}, {3})), Unless(2, 1, Edit(2, {}, {1})),
              Unless(3, 1, Edit(2, {2}, {1})), Unless(4, 1, Edit(2, {}, {1})),
              Unless(5, 1, Edit(2, {2}, {1})), Unless(5, 3, Edit(4, {4}, {3})),
              Unless(5, 5, Edit(6, {6}, {5})),
              Unless(6, 1, Edit(2, {2}, {1}))>>)
      \o <<Load(6), Stop(6, 3), Need(6, 4), Put(6, Edit(4, {4}, {3})),
           Save(6)>>]

(* 1 parser_statement.c; 2 static_local_inferred_array.c; 3 run-static-    *)
(* local-inferred-arrays.sh                                                *)
materialize_linux_first500_static_local_inferred_multidim_v1 ==
  [base |-> <<<<0, 1, 0, 1>>, <<0, 1>>, <<0, 1, 0, 1>>>>,
   steps |-> <<Load(1), Skip(1, 1, 2), Some(1, 2), Put(1, Edit(2, {2}, {1})),
              Skip(1, 3, 2), Some(1, 4), Put(1, Edit(4, {4}, {3})), Save(1),
              Load(2), Skip(2, 1, 2), Some(2, 2), Put(2, Edit(2, {2}, {1})),
              Save(2), Load(3), Skip(3, 1, 2), Some(3, 2),
              Put(3, Edit(2, {2}, {1})), Skip(3, 3, 2), Some(3, 4),
              Put(3, Edit(4, {4}, {3})), Save(3)>>]

(* 1 parser_global.c                                                       *)
materialize_linux_first500_zero_length_pointer_array_v1 ==
  [base |-> <<<<0, 1, 0, 1>>>>,
   steps |-> EachUnless(<<Unless(1, 1, Edit(2, {2}, {1}))>>)
      \o <<Load(1), Stop(1, 3), Need(1, 4), Put(1, Edit(4, {4}, {3})),
           Save(1)>>]

(* 1 ast.c; 2 ast_global.c; 3 parser_global.c                              *)
materialize_linux_first500_zero_length_record_slots_v1 ==
  [base |-> <<<<0, 1, 0, 1>>, <<0, 1>>, <<0, 1>>>>,
   steps |-> <<Load(1), Skip(1, 1, 2), Need(1, 2), Put(1, Edit(2, {2}, {1})),
              Skip(1, 3, 2), Need(1, 4), Put(1, Edit(4, {4}, {3})), Save(1),
              Load(2), Skip(2, 1, 2), Need(2, 2), Put(2, Edit(2, {2}, {1})),
              Save(2), Load(3), Skip(3, 1, 2), Need(3, 2),
              Put(3, Edit(2, {2}, {1})), Save(3)>>]

(* 1 codegen_expression.c; 2 codegen_function.c                            *)
materialize_linux_first500_zero_size_rv64_v1 ==
  [base |-> <<<<0, 1>>, <<0, 1, 0, 1, 0, 1>>>>,
   steps |-> EachUnless(<<Unless(1, 1, Edit(2, {2}, {1})),
              Unless(2, 1, Edit(2, {2}, {1})),
              Unless(2, 3, Edit(4, {4}, {3}))>>)
      \o <<Load(2), Stop(2, 5), Need(2, 6), Put(2, Edit(6, {6}, {5})),
           Save(2)>>]

(* 1 codegen_function.c                                                    *)
materialize_riscv64_emitter_owner_diagnostic_v1 ==
  [base |-> <<<<0, 1, 0, 1>>>>,
   steps |-> <<Load(1), Skip(1, 1, 2), Need(1, 2), Put(1, Edit(2, {2}, {1})),
              Skip(1, 3, 2), Need(1, 4), Put(1, Edit(4, {4}, {3})), Save(1)>>]

PatchMaterializeScripts ==
  {materialize_data_layout_union_selection_boundary_v1,
    materialize_linux_first500_function_emitter_stage_v1,
    materialize_linux_first500_indirect_varargs_v1,
    materialize_linux_first500_nested_designator_v1,
    materialize_linux_first500_nested_record_emitter_v1,
    materialize_linux_first500_parameter_array_v1,
    materialize_linux_first500_record_fam_extent_v2,
    materialize_linux_first500_rv64_global_failure_detail_v1,
    materialize_linux_first500_rv64_int128_arithmetic_v2,
    materialize_linux_first500_statement_emitter_owner_v1,
    materialize_linux_first500_static_fam_v1,
    materialize_linux_first500_static_local_inferred_multidim_v1,
    materialize_linux_first500_zero_length_pointer_array_v1,
    materialize_linux_first500_zero_length_record_slots_v1,
    materialize_linux_first500_zero_size_rv64_v1,
    materialize_riscv64_emitter_owner_diagnostic_v1}
=============================================================================

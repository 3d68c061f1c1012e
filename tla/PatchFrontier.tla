--------------------------- MODULE PatchFrontier ----------------------------
(***************************************************************************)
(* Tools/dev/patch-*, m10*, the core frontier patches.  Each definition is *)
(* one script: the tree it is written for (of each file, how often each    *)
(* literal occurs) and its steps.  Literals are numbered in the order in   *)
(* which the script first looks for them in the file.                      *)
(***************************************************************************)
EXTENDS PatchSteps

(* 1 core_lower.c; 2 core_ir.h; 3 core_codegen.c; 4 run-core-ir-shadow.sh  *)
m105_fixed_register_core ==
  [base |-> <<<<0, 1, 1, 1>>, <<1>>, <<1, 1, 1, 1, 1, 1, 1>>, <<1>>>>,
   steps |-> <<Load(1), Stop(1, 1)>>
      \o Each(<<In(2, Moved(1)), In(1, Edit(2, {2}, {1})),
           In(1, Edit(3, {}, {1})), In(1, Edit(4, {}, {1})), In(3, Moved(1)),
           In(3, Moved(2)), In(3, Moved(3)), In(3, Kept(4)), In(3, Moved(5)),
           In(3, Moved(6)), In(3, Moved(7)), In(4, Kept(1))>>)]

(* 1 core_lower.c                                                          *)
m106_address_diagnostic ==
  [base |-> <<<<0, 1>>>>,
   steps |-> <<Load(1), Stop(1, 1), Need(1, 2), Put(1, Edit(2, {2}, {1})),
              Save(1)>>]

(* 1 core_lower.c                                                          *)
m106_fixed_call_diagnostic ==
  [base |-> <<<<0, 1, 1>>>>,
   steps |-> <<Load(1), Stop(1, 1)>>
      \o Swaps(1, <<Edit(2, {2}, {1}), Edit(3, {3}, {1})>>)
      \o <<Save(1)>>]

(* 1 core_lower.c; 2 run-core-ir-shadow.sh                                 *)
m106_materialized_local_array ==
  [base |-> <<<<0, 1>>, <<1>>>>,
   steps |-> <<Load(1), Stop(1, 1)>>
      \o Each(<<In(1, Edit(2, {}, {1})), In(2, Kept(1))>>)]

(* 1 core_lower.c; 2 core_ir.h; 3 core_ir.c; 4 core_codegen.c; 5 run-core- *)
(* ir-shadow.sh                                                            *)
m107_structured_memory_output_asm ==
  [base |-> <<<<0, 1>>, <<1>>, <<1>>, <<1, 1, 1, 1>>, <<1>>>>,
   steps |-> <<Load(1), Stop(1, 1)>>
      \o Each(<<In(2, Moved(1)), In(3, Moved(1)), In(1, Edit(2, {}, {1})),
           In(4, Moved(1)), In(4, Kept(2)), In(4, Moved(3)), In(4, Kept(4)),
           In(5, Kept(1))>>)]

(* 1 core_lower.c; 2 core_codegen.c; 3 core_ir.c                           *)
patch_core_frontier_batch_a ==
  [base |-> <<<<0, 1>>, <<0, 1, 0, 1, 0, 1>>, <<0, 1>>>>,
   steps |-> <<Load(1), Skip(1, 1, 3), Some(1, 2), Put(1, Edit(2, {}, {1})),
              Save(1), Load(2), Skip(2, 1, 3), Some(2, 2),
              Put(2, Edit(2, {2}, {1})), Save(2), Load(3), Skip(3, 1, 3),
              Some(3, 2), Put(3, Edit(2, {2}, {1})), Save(3), Load(2),
              Skip(2, 3, 3), Some(2, 4), Put(2, Edit(4, {4}, {3})), Save(2),
              Load(2), Stop(2, 5), Some(2, 6), Put(2, Edit(6, {6}, {5})),
              Save(2)>>]

(* 1 core_lower.c                                                          *)
patch_core_frontier_batch_b ==
  [base |-> <<<<0, 1, 0, 1, 0, 1, 0, 1, 0, 1, 0, 1, 0, 1, 0, 1>>>>,
   steps |-> <<Load(1), Skip(1, 1, 3), Some(1, 2), Put(1, Edit(2, {}, {1})),
              Save(1), Load(1), Skip(1, 3, 3), Some(1, 4),
              Put(1, Edit(4, {4}, {3})), Save(1), Load(1), Skip(1, 5, 3),
              Some(1, 6), Put(1, Edit(6, {6}, {5})), Save(1), Load(1),
              Skip(1, 7, 3), Some(1, 8), Put(1, Edit(8, {8}, {7})), Save(1),
              Load(1), Skip(1, 9, 3), Some(1, 10), Put(1, Edit(10, {10}, {9})),
              Save(1), Load(1), Skip(1, 11, 3), Some(1, 12),
              Put(1, Edit(12, {12}, {11})), Save(1), Load(1), Skip(1, 13, 3),
              Some(1, 14), Put(1, Edit(14, {14}, {13})), Save(1), Load(1),
              Stop(1, 15), Some(1, 16), Put(1, Edit(16, {16}, {15})), Save(1)>>]

(* 1 core_lower.c                                                          *)
patch_core_frontier_batch_e ==
  [base |-> <<<<0, 1, 0, 1, 0, 1>>>>,
   steps |-> <<Load(1), Skip(1, 1, 3), Some(1, 2), Put(1, Edit(2, {2}, {1})),
              Save(1), Load(1), Skip(1, 3, 3), Some(1, 4),
              Put(1, Edit(4, {4}, {3})), Save(1), Load(1), Stop(1, 5),
              Some(1, 6), Put(1, Edit(6, {6}, {5})), Save(1)>>]

(* 1 core_lower.c                                                          *)
patch_core_frontier_batch_f ==
  [base |-> <<<<0, 1, 0, 1, 0, 1, 0, 1, 1, 0>>>>,
   steps |-> <<Load(1), Skip(1, 1, 3), Some(1, 2), Put(1, Edit(2, {2}, {1})),
              Save(1), Load(1), Skip(1, 3, 3), Some(1, 4),
              Put(1, Edit(4, {4}, {3})), Save(1), Load(1), Skip(1, 5, 3),
              Some(1, 6), Put(1, Edit(6, {6}, {5})), Save(1), Load(1),
              Skip(1, 7, 3), Some(1, 8), Put(1, Edit(8, {8}, {7})), Save(1),
              Load(1), Skip(1, 9, 1), Goto(3), Put(1, Edit(9, {9}, {10})),
              Save(1), Quit, Some(1, 10)>>]

(* 1 core_lower.c; 2 core_codegen.c                                        *)
patch_core_frontier_batch_g ==
  [base |-> <<<<0, 1>>, <<0, 1, 0, 1>>>>,
   steps |-> EachUnless(<<Unless(1, 1, Edit(2, {}, {1})),
              Unless(2, 1, Edit(2, {2}, {1}))>>)
      \o <<Load(2), Stop(2, 3), Need(2, 4), Put(2, Edit(4, {4}, {3})),
           Save(2)>>]

(* 1 core_ir.h; 2 core_ir.c; 3 core_lower.c; 4 core_codegen.c              *)
patch_core_frontier_batch_h ==
  [base |-> <<<<0, 1>>, <<0, 1, 0, 1>>, <<0, 1, 0, 1>>, <<0, 1, 0, 1>>>>,
   steps |-> EachUnless(<<Unless(1, 1, Edit(2, {2}, {1})),
              Unless(2, 1, Edit(2, {2}, {1})), Unless(2, 3, Edit(4, {}, {3})),
              Unless(3, 1, Edit(2, {}, {1})), Unless(3, 3, Edit(4, {4}, {3})),
              Unless(4, 1, Edit(2, {2}, {1}))>>)
      \o <<Load(4), Stop(4, 3), Need(4, 4), Put(4, Edit(4, {}, {3})), Save(4)>>]

(* 1 core_lower.c                                                          *)
patch_core_frontier_batch_i ==
  [base |-> <<<<0, 1, 0, 1>>>>,
   steps |-> EachUnless(<<Unless(1, 1, Edit(2, {}, {1}))>>)
      \o <<Load(1), Stop(1, 3), Need(1, 4), Put(1, Edit(4, {}, {3})), Save(1)>>]

(* 1 core_lower.c                                                          *)
patch_core_frontier_batch_j ==
  [base |-> <<<<0, 1>>>>,
   steps |-> <<Load(1), Skip(1, 1, 2), Need(1, 2), Put(1, Edit(2, {2}, {1})),
              Save(1)>>]

(* 1 core_lower.c                                                          *)
patch_core_frontier_batch_k ==
  [base |-> <<<<0, 1>>>>,
   steps |-> <<Load(1), Skip(1, 1, 2), Need(1, 2), Put(1, Edit(2, {2}, {1})),
              Save(1)>>]

(* 1 core_ir.h; 2 core_ir.c; 3 core_lower.c; 4 core_codegen.c              *)
patch_core_frontier_batch_l_base ==
  [base |-> <<<<1, 1, 1>>, <<1, 0, 1, 1>>, <<0, 1>>, <<0, 1, 0, 1, 1, 1, 1, 1,
           1, 1>>>>,
   steps |-> Rewrite(1, <<Kept(1), Moved(2), Kept(3)>>)
      \o <<Load(2), Need(2, 1), Put(2, Moved(1)), Skip(2, 2, 2)>>
      \o Swaps(2, <<Edit(3, {}, {2}), Moved(4)>>)
      \o <<Save(2), Load(3), Skip(3, 1, 2), Need(3, 2),
           Put(3, Edit(2, {}, {1})), Save(3), Load(4), Skip(4, 1, 2),
           Need(4, 2), Put(4, Edit(2, {}, {1})), Skip(4, 3, 2)>>
      \o Swaps(4, <<Edit(4, {}, {3}), Moved(5), Moved(6), Moved(7), Moved(8),
           Moved(9), Moved(10)>>)
      \o <<Save(4)>>]

(* 1 core_ir.h; 2 core_ir.c; 3 core_lower.c; 4 core_codegen.c              *)
patch_core_frontier_batch_m ==
  [base |-> <<<<1, 1>>, <<1, 1>>, <<1, 1>>, <<1, 1, 1>>>>,
   steps |-> Rewrite(1, <<Moved(1), Moved(2)>>)
      \o Rewrite(2, <<Kept(1), Kept(2)>>)
      \o Rewrite(3, <<Kept(1), Moved(2)>>)
      \o Rewrite(4, <<Kept(1), Kept(2), Kept(3)>>)]

(* 1 core_ir.h; 2 core_ir.c; 3 core_lower.c; 4 core_codegen.c              *)
patch_core_frontier_batch_m31 ==
  [base |-> <<<<1, 1, 1, 1, 1, 1, 1, 1>>, <<1, 1, 1, 1, 1, 1, 1, 1, 1, 1, 1>>,
           <<1, 1, 1, 1, 1>>, <<1, 1, 1, 1, 1, 1>>>>,
   steps |-> Each(<<In(1, Kept(1)), In(1, Kept(2)), In(1, Moved(3)),
              In(1, Moved(4)), In(1, Kept(5)), In(1, Kept(6)), In(1, Kept(7)),
              In(1, Kept(8)), In(2, Kept(1)), In(2, Moved(2)), In(2, Kept(3)),
              In(2, Moved(4)), In(2, Kept(5)), In(2, Moved(6)), In(2, Kept(7)),
              In(2, Moved(8)), In(2, Moved(9)), In(2, Kept(10)),
              In(2, Moved(11)), In(3, Moved(1)), In(3, Moved(2)),
              In(3, Moved(3)), In(3, Kept(4)), In(3, Moved(5)), In(4, Kept(1)),
              In(4, Kept(2)), In(4, Moved(3)), In(4, Kept(4)), In(4, Moved(5)),
              In(4, Moved(6))>>)]

(* 1 core_lower.c; 2 core_ir.c; 3 ast.c                                    *)
patch_core_frontier_batch_m31b_fixups ==
  [base |-> <<<<1, 1, 1, 1>>, <<1, 1>>, <<1>>>>,
   steps |-> Each(<<In(1, Kept(1)), In(2, Moved(1)), In(2, Moved(2)),
              In(3, Moved(1)), In(1, Moved(2)), In(1, Moved(3)),
              In(1, Moved(4))>>)]

(* 1 core_codegen.c; 2 core_lower.c                                        *)
patch_core_frontier_batch_m32 ==
  [base |-> <<<<1>>, <<1, 1, 1, 1, 1, 1, 1>>>>,
   steps |-> Each(<<In(1, Moved(1)), In(2, Moved(1)), In(2, Moved(2)),
              In(2, Moved(3)), In(2, Moved(4)), In(2, Moved(5)),
              In(2, Moved(6)), In(2, Kept(7))>>)]

(* 1 core_lower.c                                                          *)
patch_core_frontier_batch_m33 ==
  [base |-> <<<<1, 1>>>>,
   steps |-> Each(<<In(1, Kept(1)), In(1, Kept(2))>>)]

(* 1 core_lower.c                                                          *)
patch_core_frontier_batch_m34 ==
  [base |-> <<<<1>>>>,
   steps |-> Rewrite(1, <<Kept(1)>>)]

(* 1 core_lower.c                                                          *)
patch_core_frontier_batch_m35 ==
  [base |-> <<<<1>>>>,
   steps |-> Rewrite(1, <<Kept(1)>>)]

(* 1 core_ir.h; 2 core_ir.c; 3 core_lower.c; 4 core_codegen.c              *)
patch_core_frontier_batch_m36 ==
  [base |-> <<<<1>>, <<1, 1>>, <<1>>, <<1, 1, 1>>>>,
   steps |-> Each(<<In(1, Moved(1)), In(2, Moved(1)), In(2, Moved(2)),
              In(3, Kept(1)), In(4, Kept(1)), In(4, Moved(2)),
              In(4, Moved(3))>>)]

(* 1 core_lower.c                                                          *)
patch_core_frontier_batch_m38 ==
  [base |-> <<<<1, 1>>>>,
   steps |-> Each(<<In(1, Moved(1)), In(1, Moved(2))>>)]

(* 1 core_ir.c                                                             *)
patch_core_frontier_batch_m41 ==
  [base |-> <<<<1>>>>,
   steps |-> Rewrite(1, <<Moved(1)>>)]

(* 1 core_lower.c                                                          *)
patch_core_frontier_batch_m42 ==
  [base |-> <<<<1>>>>,
   steps |-> Rewrite(1, <<Moved(1)>>)]

(* 1 core_lower.c                                                          *)
patch_core_frontier_batch_m43 ==
  [base |-> <<<<1, 1, 1>>>>,
   steps |-> Each(<<In(1, Moved(1)), In(1, Moved(2)), In(1, Moved(3))>>)]

(* 1 core_ir.h; 2 core_ir.c; 3 core_codegen.c; 4 core_lower.c              *)
patch_core_frontier_batch_m44 ==
  [base |-> <<<<1, 1>>, <<1, 1>>, <<1, 1>>, <<1, 1, 1, 1, 1, 1, 1, 1, 1, 1>>>>,
   steps |-> Each(<<In(1, Moved(1)), In(1, Moved(2)), In(2, Moved(1)),
              In(2, Moved(2)), In(3, Moved(1)), In(3, Moved(2)),
              In(4, Moved(1)), In(4, Kept(2)), In(4, Kept(3)), In(4, Moved(4)),
              In(4, Moved(5)), In(4, Moved(6)), In(4, Moved(7)),
              In(4, Moved(8)), In(4, Moved(9)), In(4, Kept(10))>>)]

(* 1 core_lower.c                                                          *)
patch_core_frontier_batch_m45 ==
  [base |-> <<<<1, 1, 1, 1, 1, 1, 1, 1>>>>,
   steps |-> Each(<<In(1, Moved(1)), In(1, Moved(2)), In(1, Moved(3)),
              In(1, Moved(4)), In(1, Kept(5)), In(1, Moved(6)),
              In(1, Moved(7)), In(1, Moved(8))>>)]

(* 1 core_lower.c                                                          *)
patch_core_frontier_batch_n ==
  [base |-> <<<<1>>>>,
   steps |-> Rewrite(1, <<Kept(1)>>)]

(* 1 core_lower.c                                                          *)
patch_core_frontier_batch_o ==
  [base |-> <<<<1>>>>,
   steps |-> Rewrite(1, <<Moved(1)>>)]

(* 1 core_lower.c                                                          *)
patch_core_frontier_batch_p ==
  [base |-> <<<<1>>>>,
   steps |-> Rewrite(1, <<Kept(1)>>)]

(* 1 core_lower.c                                                          *)
patch_core_frontier_batch_q ==
  [base |-> <<<<1, 0>>>>,
   steps |-> <<Load(1), Skip(1, 1, 1), Goto(3), Put(1, Edit(1, {1}, {2})),
              Save(1), Quit, Some(1, 2)>>]

(* 1 core_lower.c                                                          *)
patch_core_frontier_batch_r ==
  [base |-> <<<<1, 0>>>>,
   steps |-> <<Load(1), Skip(1, 1, 1), Goto(3), Put(1, Edit(1, {1}, {2})),
              Save(1), Quit, Some(1, 2)>>]

(* 1 core_lower.c                                                          *)
patch_core_frontier_batch_s ==
  [base |-> <<<<0, 1, 1>>>>,
   steps |-> <<Load(1), Stop(1, 1), Some(1, 2), Some(1, 3),
              Put(1, Edit(2, {2}, {1})), Put(1, Moved(3)), Save(1)>>]

(* 1 core_lower.c                                                          *)
patch_core_frontier_batch_t ==
  [base |-> <<<<0, 1>>>>,
   steps |-> <<Load(1), Stop(1, 1), Some(1, 2), Put(1, Edit(2, {2}, {1})),
              Save(1)>>]

(* 1 core_lower.c                                                          *)
patch_core_frontier_batch_v ==
  [base |-> <<<<0, 1>>>>,
   steps |-> <<Load(1), Stop(1, 1), Some(1, 2), Put(1, Edit(2, {2}, {1})),
              Save(1)>>]

(* 1 core_lower.c                                                          *)
patch_core_frontier_batch_w ==
  [base |-> <<<<1, 0>>>>,
   steps |-> <<Load(1), Skip(1, 1, 1), Goto(3), Put(1, Edit(1, {1}, {2})),
              Save(1), Quit, Some(1, 2)>>]

(* 1 core_lower.c                                                          *)
patch_core_frontier_batch_y ==
  [base |-> <<<<1, 0>>>>,
   steps |-> <<Load(1), Skip(1, 1, 1), Goto(3), Put(1, Edit(1, {1}, {2})),
              Save(1), Quit, Some(1, 2)>>]

(* Defect: the script does not look for its own text.                      *)
patch_core_frontier_m49_unseen ==
  [base |-> <<<<0, 1>>>>,
   steps |-> <<Load(1), Need(1, 2), Put(1, Edit(2, {}, {1})), Save(1)>>]

(* 1 core_lower.c                                                          *)
patch_core_frontier_m49_forward ==
  [base |-> <<<<0, 1>>>>,
   steps |-> <<Load(1), Stop(1, 1), Need(1, 2), Put(1, Edit(2, {}, {1})),
              Save(1)>>]

(* 1 core_lower.c                                                          *)
patch_core_frontier_m50b_void_statement_expression ==
  [base |-> <<<<0, 1, 1>>>>,
   steps |-> <<Load(1), Stop(1, 1)>>
      \o Swaps(1, <<Edit(2, {2}, {1}), Moved(3)>>)
      \o <<Save(1)>>]

(* 1 core_lower.c                                                          *)
patch_core_frontier_m53_void_conditional ==
  [base |-> <<<<0, 1>>>>,
   steps |-> <<Load(1), Stop(1, 1), Need(1, 2), Put(1, Edit(2, {}, {1})),
              Save(1)>>]

(* 1 core_lower.c                                                          *)
patch_core_frontier_m54_void_conditional_statement ==
  [base |-> <<<<0, 1>>>>,
   steps |-> <<Load(1), Stop(1, 1), Need(1, 2), Put(1, Edit(2, {2}, {1})),
              Save(1)>>]

(* 1 core_lower.c                                                          *)
patch_core_frontier_m55_scalar_conditional_conversion ==
  [base |-> <<<<0, 1, 1, 1>>>>,
   steps |-> <<Load(1), Stop(1, 1)>>
      \o Swaps(1, <<Edit(2, {2}, {1}), Moved(3), Moved(4)>>)
      \o <<Save(1)>>]

(* 1 core_lower.c                                                          *)
patch_core_frontier_m56_prefix_update ==
  [base |-> <<<<0, 1, 1, 1, 1, 1, 1>>>>,
   steps |-> <<Load(1), Stop(1, 1)>>
      \o Swaps(1, <<Moved(2), Moved(3), Moved(4), Edit(5, {5}, {1}), Moved(6),
           Moved(7)>>)
      \o <<Save(1)>>]

(* 1 core_lower.c                                                          *)
patch_core_frontier_m57_constant_conditional ==
  [base |-> <<<<0, 1>>>>,
   steps |-> <<Load(1), Stop(1, 1), Need(1, 2), Put(1, Edit(2, {}, {1})),
              Save(1)>>]

(* 1 core_lower.c                                                          *)
patch_core_frontier_m58_logical_or ==
  [base |-> <<<<0, 1>>>>,
   steps |-> <<Load(1), Stop(1, 1), Need(1, 2), Put(1, Edit(2, {2}, {1})),
              Save(1)>>]

(* 1 core_lower.c                                                          *)
patch_core_frontier_m59_empty_scalar_input_barrier ==
  [base |-> <<<<0, 1>>>>,
   steps |-> <<Load(1), Stop(1, 1), Need(1, 2), Put(1, Edit(2, {}, {1})),
              Save(1)>>]

(* 1 core_lower.c                                                          *)
patch_core_frontier_m60_pointer_conditional ==
  [base |-> <<<<0, 1>>>>,
   steps |-> <<Load(1), Stop(1, 1), Need(1, 2), Put(1, Edit(2, {2}, {1})),
              Save(1)>>]

(* 1 core_lower.c                                                          *)
patch_core_frontier_m61_immediate_only_asm ==
  [base |-> <<<<0, 1, 1, 1>>>>,
   steps |-> <<Load(1), Stop(1, 1)>>
      \o Swaps(1, <<Moved(2), Edit(3, {}, {1}), Kept(4)>>)
      \o <<Save(1)>>]

(* 1 core_lower.c                                                          *)
patch_core_frontier_m62_pointer_return_conversion ==
  [base |-> <<<<0, 1>>>>,
   steps |-> <<Load(1), Stop(1, 1), Need(1, 2), Put(1, Edit(2, {2}, {1})),
              Save(1)>>]

(* 1 core_lower.c                                                          *)
patch_core_frontier_m63_qualified_scalar_update ==
  [base |-> <<<<0, 1, 1>>>>,
   steps |-> <<Load(1), Stop(1, 1)>>
      \o Swaps(1, <<Moved(2), Edit(3, {3}, {1})>>)
      \o <<Save(1)>>]

(* 1 core_ir.h; 2 core_ir.c; 3 core_lower.c; 4 core_codegen.c              *)
patch_core_frontier_m64_local_label_address_original ==
  [base |-> <<<<0, 1, 1>>, <<0, 1, 1>>, <<0, 1, 1, 1, 1, 1, 1, 1, 1, 1>>, <<0,
           1, 1, 1, 1, 1>>>>,
   steps |-> <<Load(1), Skip(1, 1, 5)>>
      \o Swaps(1, <<Edit(2, {2}, {1}), Moved(3)>>)
      \o <<Save(1), Load(2), Skip(2, 1, 5)>>
      \o Swaps(2, <<Edit(2, {}, {1}), Kept(3)>>)
      \o <<Save(2), Load(3), Skip(3, 1, 19)>>
      \o Swaps(3, <<Edit(2, {2}, {1}), Moved(3), Moved(4), Moved(5), Moved(6),
           Moved(7), Moved(8), Moved(9), Moved(10)>>)
      \o <<Save(3), Load(4), Stop(4, 1)>>
      \o Swaps(4, <<Edit(2, {}, {1}), Moved(3), Moved(4), Kept(5), Moved(6)>>)
      \o <<Save(4)>>]

(* 1 core_lower.c                                                          *)
patch_core_frontier_m65_assignment_expression ==
  [base |-> <<<<0, 1>>>>,
   steps |-> <<Load(1), Stop(1, 1), Need(1, 2), Put(1, Edit(2, {2}, {1})),
              Save(1)>>]

(* 1 core_lower.c                                                          *)
patch_core_frontier_m66_subscript_index_value_type ==
  [base |-> <<<<0, 1, 1>>>>,
   steps |-> <<Load(1), Stop(1, 1)>>
      \o Swaps(1, <<Edit(2, {2}, {1}), Moved(3)>>)
      \o <<Save(1)>>]

(* 1 core_ir.h; 2 core_ir.c; 3 core_lower.c; 4 core_codegen.c              *)
patch_core_frontier_m67_structured_inline_asm ==
  [base |-> <<<<0, 1, 1, 1>>, <<0, 1, 1>>, <<0, 1, 1>>, <<0, 1, 1, 1, 1>>>>,
   steps |-> <<Load(1), Skip(1, 1, 7)>>
      \o Swaps(1, <<Edit(2, {2}, {1}), Moved(3), Moved(4)>>)
      \o <<Save(1), Load(2), Skip(2, 1, 5)>>
      \o Swaps(2, <<Edit(2, {}, {1}), Kept(3)>>)
      \o <<Save(2), Load(3), Skip(3, 1, 5)>>
      \o Swaps(3, <<Edit(2, {}, {1}), Kept(3)>>)
      \o <<Save(3), Load(4), Stop(4, 1)>>
      \o Swaps(4, <<Edit(2, {}, {1}), Moved(3), Kept(4), Moved(5)>>)
      \o <<Save(4)>>]

(* 1 core_lower.c; 2 core_codegen.c                                        *)
patch_core_frontier_m68_structured_inline_asm_optional_inputs ==
  [base |-> <<<<0, 1>>, <<0, 1, 1, 1>>>>,
   steps |-> EachUnless(<<Unless(1, 1, Edit(2, {2}, {1}))>>)
      \o <<Load(2), Stop(2, 1)>>
      \o Swaps(2, <<Edit(2, {2}, {1}), Moved(3), Moved(4)>>)
      \o <<Save(2)>>]

(* 1 core_lower.c                                                          *)
patch_core_frontier_m71_legacy_array_object_subscript ==
  [base |-> <<<<0, 1>>>>,
   steps |-> <<Load(1), Stop(1, 1), Need(1, 2), Put(1, Edit(2, {2}, {1})),
              Save(1)>>]

(* 1 core_lower.c                                                          *)
patch_core_frontier_m72_nested_break_target ==
  [base |-> <<<<0, 1, 1, 1, 1, 1, 1, 1, 1>>>>,
   steps |-> <<Load(1), Stop(1, 1)>>
      \o Swaps(1, <<Edit(2, {2}, {1}), Kept(3), Moved(4), Moved(5), Moved(6),
           Moved(7), Moved(8), Moved(9)>>)
      \o <<Save(1)>>]

(* 1 core_lower.c                                                          *)
patch_core_frontier_m73_comma_expression ==
  [base |-> <<<<0, 1>>>>,
   steps |-> <<Load(1), Stop(1, 1), Need(1, 2), Put(1, Edit(2, {}, {1})),
              Save(1)>>]

(* 1 core_lower.c; 2 core_ir.c; 3 core_codegen.c                           *)
patch_core_frontier_m74_global_record_address ==
  [base |-> <<<<0, 1>>, <<0, 1>>, <<0, 1>>>>,
   steps |-> EachUnless(<<Unless(1, 1, Edit(2, {2}, {1})),
              Unless(2, 1, Edit(2, {2}, {1}))>>)
      \o <<Load(3), Stop(3, 1), Need(3, 2), Put(3, Edit(2, {2}, {1})),
           Save(3)>>]

(* 1 core_ir.h; 2 core_ir.c; 3 core_lower.c; 4 core_codegen.c              *)
patch_core_frontier_m83_indirect_call ==
  [base |-> <<<<0, 1, 1, 1, 1, 1, 1, 1>>, <<0, 1, 1, 1, 1, 1, 1, 1, 1>>, <<0,
           1, 1>>, <<0, 1, 1, 1, 1>>>>,
   steps |-> <<Load(1), Skip(1, 1, 15)>>
      \o Swaps(1, <<Moved(2), Moved(3), Edit(4, {4}, {1}), Edit(5, {5}, {1}),
           Kept(6), Moved(7), Kept(8)>>)
      \o <<Save(1), Load(2), Skip(2, 1, 17)>>
      \o Swaps(2, <<Moved(2), Moved(3), Moved(4), Edit(5, {}, {1}), Moved(6),
           Kept(7), Kept(8), Moved(9)>>)
      \o <<Save(2), Load(3), Skip(3, 1, 5)>>
      \o Swaps(3, <<Edit(2, {}, {1}), Moved(3)>>)
      \o <<Save(3), Load(4), Stop(4, 1)>>
      \o Swaps(4, <<Moved(2), Kept(3), Kept(4), Moved(5)>>)
      \o <<Save(4)>>]

(* 1 core_lower.c                                                          *)
patch_core_frontier_m83b_call_statement_dispatch ==
  [base |-> <<<<0, 1>>>>,
   steps |-> <<Load(1), Stop(1, 1), Need(1, 2), Put(1, Edit(2, {2}, {1})),
              Save(1)>>]

(* 1 core_lower.c                                                          *)
patch_core_frontier_m84_pointer_loop_condition ==
  [base |-> <<<<0, 1, 1, 1>>>>,
   steps |-> <<Load(1), Stop(1, 1)>>
      \o Swaps(1, <<Moved(2), Moved(3), Edit(4, {4}, {1})>>)
      \o <<Save(1)>>]

(* 1 core_ir.c                                                             *)
patch_core_frontier_m85b_record_callee_verifier ==
  [base |-> <<<<0, 1>>>>,
   steps |-> <<Load(1), Stop(1, 1), Need(1, 2), Put(1, Edit(2, {2}, {1})),
              Save(1)>>]

(* 1 core_lower.c                                                          *)
patch_core_frontier_m86b_record_assignment_expression ==
  [base |-> <<<<0, 1>>>>,
   steps |-> <<Load(1), Stop(1, 1), Need(1, 2), Put(1, Edit(2, {}, {1})),
              Save(1)>>]

(* 1 core_lower.c                                                          *)
patch_core_frontier_m87_immediate_asm_trace ==
  [base |-> <<<<0, 1>>>>,
   steps |-> <<Load(1), Stop(1, 1), Need(1, 2), Put(1, Edit(2, {}, {1})),
              Save(1)>>]

(* 1 core_lower.c                                                          *)
patch_core_frontier_m88_record_compound_literal ==
  [base |-> <<<<0, 1>>>>,
   steps |-> <<Load(1), Stop(1, 1), Need(1, 2), Put(1, Edit(2, {}, {1})),
              Save(1)>>]

(* 1 core_ir.h; 2 core_ir.c; 3 core_lower.c; 4 core_codegen.c              *)
patch_core_frontier_m91_builtin_unreachable ==
  [base |-> <<<<0, 1>>, <<0, 1, 1, 1>>, <<0, 1, 1>>, <<0, 1>>>>,
   steps |-> EachUnless(<<Unless(1, 1, Edit(2, {2}, {1}))>>)
      \o <<Load(2), Skip(2, 1, 7)>>
      \o Swaps(2, <<Kept(2), Kept(3), Edit(4, {}, {1})>>)
      \o <<Save(2), Load(3), Skip(3, 1, 5)>>
      \o Swaps(3, <<Edit(2, {}, {1}), Moved(3)>>)
      \o <<Save(3), Load(4), Stop(4, 1), Need(4, 2), Put(4, Edit(2, {}, {1})),
           Save(4)>>]

(* 1 core_lower.c                                                          *)
patch_core_frontier_m92_indirect_call_detail ==
  [base |-> <<<<0, 1, 1, 1, 1, 0, 1, 0, 1, 1, 1>>>>,
   steps |-> <<Load(1), Skip(1, 1, 8)>>
      \o Swaps(1, <<Edit(2, {2}, {1}), Edit(3, {3}, {1}), Edit(4, {4}, {1}),
           Edit(5, {5}, {1})>>)
      \o <<Skip(1, 6, 2), Need(1, 7), Put(1, Edit(7, {}, {6})), Skip(1, 8, 6)>>
      \o Swaps(1, <<Moved(9), Edit(10, {10}, {8}), Moved(11)>>)
      \o <<Save(1)>>]

(* 1 core_lower.c; 2 core_codegen.c                                        *)
patch_core_futex_structured_asm ==
  [base |-> <<<<1>>, <<1>>>>,
   steps |-> Each(<<In(1, Kept(1)), In(2, Kept(1))>>)]

(* 1 core_lower.c                                                          *)
patch_core_indirect_call_final_block ==
  [base |-> <<<<1>>>>,
   steps |-> Rewrite(1, <<Moved(1)>>)]

(* 1 core_lower.c; 2 core_codegen.c                                        *)
patch_core_pareto_top35 ==
  [base |-> <<<<1, 1, 1, 1, 1>>, <<1, 1, 1, 1, 1>>>>,
   steps |-> Each(<<In(1, Kept(1)), In(1, Kept(2)), In(1, Moved(3)),
              In(1, Moved(4)), In(1, Kept(5)), In(2, Moved(1)),
              In(2, Moved(2)), In(2, Moved(3)), In(2, Moved(4)),
              In(2, Moved(5))>>)]

(* 1 core_lower.c                                                          *)
patch_core_verifier_fast_trace ==
  [base |-> <<<<0, 1>>>>,
   steps |-> <<Load(1), Skip(1, 1, 2), Need(1, 2), Put(1, Edit(2, {2}, {1})),
              Save(1)>>]

(* 1 corpus_replay.py                                                      *)
patch_linux_replay_live_progress ==
  [base |-> <<<<0, 1, 0, 1, 0, 1>>>>,
   steps |-> <<Load(1), Skip(1, 1, 2), Need(1, 2), Put(1, Edit(2, {2}, {1})),
              Skip(1, 3, 2), Need(1, 4), Put(1, Edit(4, {4}, {3})),
              Skip(1, 5, 2), Need(1, 6), Put(1, Edit(6, {6}, {5})), Save(1)>>]

PatchFrontierScripts ==
  {m105_fixed_register_core, m106_address_diagnostic,
    m106_fixed_call_diagnostic, m106_materialized_local_array,
    m107_structured_memory_output_asm, patch_core_frontier_batch_a,
    patch_core_frontier_batch_b, patch_core_frontier_batch_e,
    patch_core_frontier_batch_f, patch_core_frontier_batch_g,
    patch_core_frontier_batch_h, patch_core_frontier_batch_i,
    patch_core_frontier_batch_j, patch_core_frontier_batch_k,
    patch_core_frontier_batch_l_base, patch_core_frontier_batch_m,
    patch_core_frontier_batch_m31, patch_core_frontier_batch_m31b_fixups,
    patch_core_frontier_batch_m32, patch_core_frontier_batch_m33,
    patch_core_frontier_batch_m34, patch_core_frontier_batch_m35,
    patch_core_frontier_batch_m36, patch_core_frontier_batch_m38,
    patch_core_frontier_batch_m41, patch_core_frontier_batch_m42,
    patch_core_frontier_batch_m43, patch_core_frontier_batch_m44,
    patch_core_frontier_batch_m45, patch_core_frontier_batch_n,
    patch_core_frontier_batch_o, patch_core_frontier_batch_p,
    patch_core_frontier_batch_q, patch_core_frontier_batch_r,
    patch_core_frontier_batch_s, patch_core_frontier_batch_t,
    patch_core_frontier_batch_v, patch_core_frontier_batch_w,
    patch_core_frontier_batch_y, patch_core_frontier_m49_forward,
    patch_core_frontier_m50b_void_statement_expression,
    patch_core_frontier_m53_void_conditional,
    patch_core_frontier_m54_void_conditional_statement,
    patch_core_frontier_m55_scalar_conditional_conversion,
    patch_core_frontier_m56_prefix_update,
    patch_core_frontier_m57_constant_conditional,
    patch_core_frontier_m58_logical_or,
    patch_core_frontier_m59_empty_scalar_input_barrier,
    patch_core_frontier_m60_pointer_conditional,
    patch_core_frontier_m61_immediate_only_asm,
    patch_core_frontier_m62_pointer_return_conversion,
    patch_core_frontier_m63_qualified_scalar_update,
    patch_core_frontier_m64_local_label_address_original,
    patch_core_frontier_m65_assignment_expression,
    patch_core_frontier_m66_subscript_index_value_type,
    patch_core_frontier_m67_structured_inline_asm,
    patch_core_frontier_m68_structured_inline_asm_optional_inputs,
    patch_core_frontier_m71_legacy_array_object_subscript,
    patch_core_frontier_m72_nested_break_target,
    patch_core_frontier_m73_comma_expression,
    patch_core_frontier_m74_global_record_address,
    patch_core_frontier_m83_indirect_call,
    patch_core_frontier_m83b_call_statement_dispatch,
    patch_core_frontier_m84_pointer_loop_condition,
    patch_core_frontier_m85b_record_callee_verifier,
    patch_core_frontier_m86b_record_assignment_expression,
    patch_core_frontier_m87_immediate_asm_trace,
    patch_core_frontier_m88_record_compound_literal,
    patch_core_frontier_m91_builtin_unreachable,
    patch_core_frontier_m92_indirect_call_detail,
    patch_core_futex_structured_asm, patch_core_indirect_call_final_block,
    patch_core_pareto_top35, patch_core_verifier_fast_trace,
    patch_linux_replay_live_progress}
=============================================================================

----------------------------- MODULE PatchPr77 ------------------------------
(***************************************************************************)
(* Tools/dev/pr76-* and pr77-*, the GNU C front-end patches.  Each         *)
(* definition is one script: the tree it is written for (of each file, how *)
(* often each literal occurs) and its steps.  Literals are numbered in the *)
(* order in which the script first looks for them in the file.             *)
(***************************************************************************)
EXTENDS PatchSteps

(* 1 lexer.c                                                               *)
pr76_preprocessed_line_markers ==
  [base |-> <<<<1, 1>>>>,
   steps |-> Rewrite(1, <<Kept(1), Moved(2)>>)]

(* 1 parser_function.c; 2 parser_internal.h; 3 parser_statement.c          *)
pr77_block_scope_extern_functions ==
  [base |-> <<<<1, 1, 1, 1, 1, 1, 1, 1, 1, 1>>, <<1>>, <<1, 1>>>>,
   steps |-> Each(<<In(1, Moved(1)), In(1, Moved(2))>>)
      \o <<Load(1), Put(1, Every(Moved(3))), Put(1, Every(Moved(4))),
           Put(1, Every(Moved(5))), Put(1, Every(Moved(6))),
           Put(1, Every(Moved(7))), Put(1, Every(Moved(8))), Save(1)>>
      \o Rewrite(1, <<Kept(9), Moved(10)>>)
      \o Rewrite(2, <<Kept(1)>>)
      \o Rewrite(3, <<Kept(1), Kept(2)>>)]

(* 1 parser_expression.c                                                   *)
pr77_builtin_constant_p ==
  [base |-> <<<<1, 1>>>>,
   steps |-> Rewrite(1, <<Kept(1), Kept(2)>>)]

(* 1 parser_internal.h; 2 parser_typedef.c; 3 parser_type.c                *)
pr77_enum_tag_type_references ==
  [base |-> <<<<1, 1, 1>>, <<1, 1, 1>>, <<1>>>>,
   steps |-> Each(<<In(1, Kept(1)), In(1, Kept(2)), In(1, Kept(3))>>)
      \o Rewrite(2, <<Kept(1), Moved(2), Moved(3)>>)
      \o Rewrite(3, <<Kept(1)>>)]

(* 1 parser_function.c                                                     *)
pr77_function_linkage_inheritance ==
  [base |-> <<<<1>>>>,
   steps |-> Rewrite(1, <<Moved(1)>>)]

(* 1 parser_expression.c                                                   *)
pr77_gnu_compiletime_selection_builtins ==
  [base |-> <<<<1, 1>>>>,
   steps |-> Rewrite(1, <<Kept(1), Kept(2)>>)]

(* 1 parser_function.c                                                     *)
pr77_gnu_const_function_attribute ==
  [base |-> <<<<1>>>>,
   steps |-> Rewrite(1, <<Moved(1)>>)]

(* 1 ast.c; 2 layout.c                                                     *)
pr77_gnu_empty_records ==
  [base |-> <<<<1>>, <<1, 1, 1, 1>>>>,
   steps |-> Each(<<In(1, Moved(1)), In(2, Moved(1)), In(2, Moved(2)),
              In(2, Moved(3)), In(2, Moved(4))>>)]

(* 1 parser_function.c                                                     *)
pr77_gnu_extension_prefix ==
  [base |-> <<<<1, 1>>>>,
   steps |-> Rewrite(1, <<Kept(1), Moved(2)>>)]

(* 1 parser_function.c                                                     *)
pr77_gnu_format_cold_function_attributes ==
  [base |-> <<<<1, 1, 1, 1, 1>>>>,
   steps |-> Rewrite(1, <<Kept(1), Moved(2), Moved(3), Moved(4), Moved(5)>>)]

(* 1 codegen_statement.c                                                   *)
pr77_gnu_inline_asm_escape_fix ==
  [base |-> <<<<1>>>>,
   steps |-> Rewrite(1, <<Moved(1)>>)]

(* 1 ast.h; 2 ast.c; 3 parser_internal.h; 4 parser_string.c; 5             *)
(* parser_statement.c; 6 ast_verifier.c; 7 codegen_statement.c             *)
pr77_gnu_inline_asm ==
  [base |-> <<<<1, 1, 1, 1, 1, 1, 1, 1>>, <<1, 1, 1>>, <<1>>, <<1, 1>>, <<1, 1,
           1>>, <<1, 1>>, <<1, 1>>>>,
   steps |-> Each(<<In(1, Kept(1)), In(1, Kept(2)), In(1, Moved(3)),
              In(1, Moved(4)), In(1, Kept(5)), In(1, Kept(6)), In(1, Kept(7)),
              In(1, Kept(8)), In(2, Kept(1)), In(2, Moved(2)),
              In(2, Kept(3))>>)
      \o <<Load(2), Put(2, Kept(0)), Save(2)>>
      \o Each(<<In(3, Kept(1)), In(4, Moved(1)), In(4, Kept(2))>>)
      \o <<Load(5), Need(5, 1), Put(5, Kept(1)), Put(5, Moved(2)), Need(5, 3),
           Put(5, Kept(3)), Save(5)>>
      \o Each(<<In(6, Kept(1)), In(6, Kept(2)), In(7, Moved(1)),
           In(7, Moved(2))>>)]

(* 1 parser_expression.c                                                   *)
pr77_gnu_overflow_builtins_span_fix ==
  [base |-> <<<<1>>>>,
   steps |-> Rewrite(1, <<Moved(1)>>)]

(* 1 parser_function.c                                                     *)
pr77_gnu_prefix_function_attributes ==
  [base |-> <<<<1, 1, 1, 1>>>>,
   steps |-> Rewrite(1, <<Moved(1), Kept(2), Kept(3), Moved(4)>>)]

(* 1 lexer.c                                                               *)
pr77_gnu_signed_keyword ==
  [base |-> <<<<1>>>>,
   steps |-> Rewrite(1, <<Moved(1)>>)]

(* 1 ast.h; 2 parser_internal.h; 3 parser_statement.c; 4                   *)
(* parser_expression.c; 5 cast_normalization.c; 6 ast_verifier.c; 7        *)
(* codegen_expression.c                                                    *)
pr77_gnu_statement_expressions ==
  [base |-> <<<<1, 1>>, <<1>>, <<1>>, <<1>>, <<1>>, <<1>>, <<1>>>>,
   steps |-> Each(<<In(1, Moved(1)), In(1, Kept(2)), In(2, Kept(1)),
              In(3, Kept(1)), In(4, Moved(1)), In(5, Kept(1)), In(6, Kept(1)),
              In(7, Kept(1))>>)]

(* 1 parser_typedef.c                                                      *)
pr77_gnu_typedef_redundant_aligned ==
  [base |-> <<<<1, 1>>>>,
   steps |-> Rewrite(1, <<Kept(1), Kept(2)>>)]

(* 1 parser_expression.c; 2 ast_verifier.c; 3 codegen_expression.c         *)
pr77_gnu_void_pointer_arithmetic ==
  [base |-> <<<<1, 1, 1>>, <<1, 1>>, <<1>>>>,
   steps |-> Rewrite(1, <<Kept(1), Moved(2), Moved(3)>>)
      \o Rewrite(2, <<Kept(1), Moved(2)>>)
      \o Rewrite(3, <<Moved(1)>>)]

(* 1 parser_function.c                                                     *)
pr77_gnu_warn_unused_result ==
  [base |-> <<<<1>>>>,
   steps |-> Rewrite(1, <<Moved(1)>>)]

(* 1 ast.h; 2 parser_internal.h; 3 parser_type.c; 4 parser_statement.c     *)
pr77_register_storage_class ==
  [base |-> <<<<1>>, <<1>>, <<0, 1, 1>>, <<1, 1, 1, 1>>>>,
   steps |-> Each(<<In(1, Moved(1)), In(2, Kept(1))>>)
      \o <<Load(3), Skip(3, 1, 1), Put(3, Edit(2, {}, {1})), Need(3, 3),
           Put(3, Kept(3)), Save(3)>>
      \o Rewrite(4, <<Moved(1), Moved(2), Kept(3), Moved(4)>>)]

(* 1 codegen_statement.c                                                   *)
pr77_rv64_integer_aggregate_return_escape_fix ==
  [base |-> <<<<1, 1>>>>,
   steps |-> Rewrite(1, <<Moved(1), Moved(2)>>)]

(* 1 parser_type.c                                                         *)
pr77_type_name_lookahead_fix ==
  [base |-> <<<<1, 1>>>>,
   steps |-> Rewrite(1, <<Moved(1), Moved(2)>>)]

PatchPr77Scripts ==
  {pr76_preprocessed_line_markers, pr77_block_scope_extern_functions,
    pr77_builtin_constant_p, pr77_enum_tag_type_references,
    pr77_function_linkage_inheritance, pr77_gnu_compiletime_selection_builtins,
    pr77_gnu_const_function_attribute, pr77_gnu_empty_records,
    pr77_gnu_extension_prefix, pr77_gnu_format_cold_function_attributes,
    pr77_gnu_inline_asm_escape_fix, pr77_gnu_inline_asm,
    pr77_gnu_overflow_builtins_span_fix, pr77_gnu_prefix_function_attributes,
    pr77_gnu_signed_keyword, pr77_gnu_statement_expressions,
    pr77_gnu_typedef_redundant_aligned, pr77_gnu_void_pointer_arithmetic,
    pr77_gnu_warn_unused_result, pr77_register_storage_class,
    pr77_rv64_integer_aggregate_return_escape_fix,
    pr77_type_name_lookahead_fix}
=============================================================================

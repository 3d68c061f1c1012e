----------------------------- MODULE PatchPr75 ------------------------------
(***************************************************************************)
(* Tools/dev/pr75-*, the C language front-end patches.  Each definition is *)
(* one script: the tree it is written for (of each file, how often each    *)
(* literal occurs) and its steps.  Literals are numbered in the order in   *)
(* which the script first looks for them in the file.                      *)
(***************************************************************************)
EXTENDS PatchSteps

(* 1 parser_type.c                                                         *)
pr75_anonymous_record_type_specifiers ==
  [base |-> <<<<1>>>>,
   steps |-> Rewrite(1, <<Moved(1)>>)]

(* 1 parser_core.c                                                         *)
pr75_array_bound_casts ==
  [base |-> <<<<1, 1, 1>>>>,
   steps |-> Rewrite(1, <<Kept(1), Kept(2), Moved(3)>>)]

(* 1 parser_core.c                                                         *)
pr75_array_bound_enum ==
  [base |-> <<<<1>>>>,
   steps |-> Rewrite(1, <<Moved(1)>>)]

(* 1 parser_internal.h; 2 parser_string.c; 3 parser_core.c                 *)
pr75_array_bound_sizeof_string ==
  [base |-> <<<<1>>, <<1>>, <<1>>>>,
   steps |-> Each(<<In(1, Kept(1)), In(2, Kept(1)), In(3, Moved(1))>>)]

(* 1 parser_core.c                                                         *)
pr75_array_bound_sizeof ==
  [base |-> <<<<1>>>>,
   steps |-> Rewrite(1, <<Moved(1)>>)]

(* 1 parser_expression.c; 2 ast_verifier.c; 3 codegen_expression.c         *)
pr75_bitwise_and_assignment_expression ==
  [base |-> <<<<1, 1>>, <<1>>, <<1, 1>>>>,
   steps |-> Each(<<In(1, Moved(1)), In(1, Moved(2)), In(2, Moved(1)),
              In(3, Moved(1)), In(3, Moved(2))>>)]

(* 1 parser_expression.c                                                   *)
pr75_builtin_expect ==
  [base |-> <<<<1, 1>>>>,
   steps |-> Each(<<In(1, Kept(1)), In(1, Kept(2))>>)]

(* 1 parser_type.c                                                         *)
pr75_builtin_va_list ==
  [base |-> <<<<1, 1, 1>>>>,
   steps |-> Rewrite(1, <<Kept(1), Kept(2), Kept(3)>>)]

(* 1 parser_expression.c                                                   *)
pr75_cast_type_classifier ==
  [base |-> <<<<1>>>>,
   steps |-> Rewrite(1, <<Moved(1)>>)]

(* 1 parser_expression.c                                                   *)
pr75_cast_type_name_classification ==
  [base |-> <<<<1, 1>>>>,
   steps |-> Each(<<In(1, Moved(1)), In(1, Moved(2))>>)]

(* 1 ast.h; 2 parser_expression.c; 3 ast_verifier.c; 4                     *)
(* codegen_expression.c                                                    *)
pr75_comma_operator ==
  [base |-> <<<<1>>, <<1, 1, 1>>, <<1, 1>>, <<1, 1>>>>,
   steps |-> Each(<<In(1, Moved(1)), In(2, Kept(1)), In(2, Moved(2)),
              In(2, Kept(3)), In(3, Moved(1)), In(3, Moved(2)), In(4, Kept(1)),
              In(4, Moved(2))>>)]

(* 1 type.h; 2 type.c; 3 parser_expression.c; 4 ast_verifier.c             *)
pr75_conditional_pointer_qualifiers ==
  [base |-> <<<<1>>, <<1>>, <<1, 1>>, <<1, 1>>>>,
   steps |-> Each(<<In(1, Kept(1)), In(2, Kept(1))>>)
      \o <<Load(3), Some(3, 1), Some(3, 2), Put(3, Kept(1)), Save(3), Load(4),
           Some(4, 1), Some(4, 2), Put(4, Kept(1)), Save(4)>>]

(* 1 parser_internal.h; 2 parser_core.c; 3 parser_typedef.c                *)
pr75_enum_constant_expressions ==
  [base |-> <<<<1>>, <<1>>, <<1>>>>,
   steps |-> Each(<<In(1, Kept(1)), In(2, Moved(1)), In(3, Moved(1))>>)]

(* 1 parser_typedef.c                                                      *)
pr75_enum_typedef ==
  [base |-> <<<<1, 1>>>>,
   steps |-> Rewrite(1, <<Moved(1), Moved(2)>>)]

(* 1 parser_function.c                                                     *)
pr75_extern_function_declarations ==
  [base |-> <<<<1, 1, 1, 1, 1>>>>,
   steps |-> Each(<<In(1, Kept(1)), In(1, Moved(2)), In(1, Moved(3)),
              In(1, Kept(4)), In(1, Moved(5))>>)]

(* 1 parser_function.c                                                     *)
pr75_external_pointer_array_initializers ==
  [base |-> <<<<1, 1>>>>,
   steps |-> Rewrite(1, <<Moved(1), Moved(2)>>)]

(* 1 parser_expression.c; 2 ast_verifier.c; 3 codegen_expression.c         *)
pr75_floating_compound_assignments ==
  [base |-> <<<<1>>, <<1>>, <<1>>>>,
   steps |-> Each(<<In(1, Moved(1)), In(2, Moved(1)), In(3, Moved(1))>>)]

(* 1 parser_statement.c                                                    *)
pr75_for_comma_initializers ==
  [base |-> <<<<1, 1>>>>,
   steps |-> Rewrite(1, <<Moved(1), Moved(2)>>)]

(* 1 parser_statement.c                                                    *)
pr75_for_expression_initializers ==
  [base |-> <<<<1>>>>,
   steps |-> Rewrite(1, <<Moved(1)>>)]

(* 1 parser_expression.c; 2 ast_verifier.c; 3 codegen_expression.c         *)
pr75_function_address_expressions ==
  [base |-> <<<<1>>, <<1>>, <<1>>>>,
   steps |-> Each(<<In(1, Moved(1)), In(2, Moved(1)), In(3, Moved(1))>>)]

(* 1 parser_postfix.c; 2 ast_verifier.c; 3 codegen_expression.c            *)
pr75_function_designator_calls ==
  [base |-> <<<<1>>, <<1>>, <<1, 1>>>>,
   steps |-> Each(<<In(1, Moved(1)), In(2, Moved(1)), In(3, Moved(1)),
              In(3, Moved(2))>>)]

(* 1 ast.h; 2 ast_function.c; 3 parser_function.c; 4 codegen_function.c    *)
pr75_gnu_declaration_visibility ==
  [base |-> <<<<1, 1, 1>>, << >>, <<1, 1, 1, 1, 1, 1>>, <<1>>>>,
   steps |-> Each(<<In(1, Kept(1)), In(1, Moved(2)), In(1, Kept(3))>>)
      \o <<Load(2), Put(2, Kept(0)), Save(2)>>
      \o Each(<<In(3, Kept(1)), In(3, Kept(2)), In(3, Moved(3)),
           In(3, Kept(4)), In(3, Moved(5)), In(3, Moved(6)), In(4, Moved(1))>>)]

(* 1 parser_type.c                                                         *)
pr75_gnu_extension_marker ==
  [base |-> <<<<1, 1, 1>>>>,
   steps |-> Each(<<In(1, Kept(1)), In(1, Kept(2)), In(1, Moved(3))>>)]

(* 1 ast.h; 2 ast.c; 3 ast_function.c; 4 parser_function.c; 5              *)
(* codegen_expression.c; 6 codegen_function.c                              *)
pr75_gnu_function_asm_labels ==
  [base |-> <<<<1, 1>>, <<1>>, <<1>>, <<1, 1, 1, 1, 1, 1>>, <<1, 1>>, <<2, 1,
           1, 1, 2>>>>,
   steps |-> Each(<<In(1, Kept(1)), In(1, Kept(2)), In(2, Moved(1)),
              In(3, Kept(1))>>)
      \o <<Load(3), Put(3, Kept(0)), Save(3)>>
      \o Each(<<In(4, Kept(1)), In(4, Kept(2)), In(4, Moved(3)),
           In(4, Moved(4)), In(4, Kept(5)), In(4, Kept(6)), In(5, Moved(1)),
           In(5, Moved(2))>>)
      \o <<Load(6), Refuse(6, 1, {0, 1}), Put(6, Every(Moved(1)))>>
      \o Swaps(6, <<Moved(2), Moved(3), Moved(4)>>)
      \o <<Refuse(6, 5, {0, 1}), Put(6, Every(Moved(5))), Save(6)>>]

(* 1 parser_function.c                                                     *)
pr75_gnu_function_attributes ==
  [base |-> <<<<1, 1, 1>>>>,
   steps |-> Rewrite(1, <<Kept(1), Moved(2), Kept(3)>>)]

(* 1 ast_verifier.c                                                        *)
pr75_incomplete_array_verifier ==
  [base |-> <<<<1, 1>>>>,
   steps |-> Rewrite(1, <<Kept(1), Moved(2)>>)]

(* 1 parser_core.c                                                         *)
pr75_integer_constant_bitwise ==
  [base |-> <<<<1, 1, 1, 1, 1>>>>,
   steps |-> Rewrite(1, <<Moved(1), Moved(2), Moved(3), Kept(4), Moved(5)>>)]

(* 1 parser_expression.c; 2 ast_verifier.c; 3 codegen_expression.c         *)
pr75_mixed_double_arithmetic ==
  [base |-> <<<<1>>, <<1>>, <<1, 1, 1>>>>,
   steps |-> Each(<<In(1, Moved(1)), In(2, Moved(1)), In(3, Moved(1)),
              In(3, Moved(2)), In(3, Moved(3))>>)]

(* 1 ast.h; 2 parser_expression.c; 3 ast_verifier.c; 4                     *)
(* codegen_expression.c                                                    *)
pr75_parenthesized_comma_expression ==
  [base |-> <<<<1>>, <<1>>, <<1, 1>>, <<1, 1>>>>,
   steps |-> Each(<<In(1, Moved(1)), In(2, Moved(1)), In(3, Moved(1)),
              In(3, Moved(2)), In(4, Moved(1)), In(4, Moved(2))>>)]

(* 1 parser_statement.c                                                    *)
pr75_pointer_compound_subtraction ==
  [base |-> <<<<1>>>>,
   steps |-> Rewrite(1, <<Moved(1)>>)]

(* 1 type.c; 2 cast_normalization.c; 3 ast_verifier.c; 4                   *)
(* codegen_expression.c                                                    *)
pr75_pointer_integer_casts ==
  [base |-> <<<<1>>, <<1>>, <<1>>, <<1>>>>,
   steps |-> Each(<<In(1, Moved(1)), In(2, Moved(1)), In(3, Moved(1)),
              In(4, Moved(1))>>)]

(* 1 parser_expression.c; 2 ast_verifier.c; 3 codegen_expression.c         *)
pr75_pointer_subtract_assignment ==
  [base |-> <<<<1, 1, 1>>, <<1, 1>>, <<1, 1, 1, 1>>>>,
   steps |-> Each(<<In(1, Moved(1)), In(1, Moved(2)), In(1, Moved(3)),
              In(2, Moved(1)), In(2, Moved(2)), In(3, Moved(1)),
              In(3, Moved(2)), In(3, Moved(3)), In(3, Moved(4))>>)]

(* 1 type.h; 2 type.c; 3 ast_verifier.c; 4 parser_type.c                   *)
pr75_pointer_volatile_qualifier ==
  [base |-> <<<<1>>, <<1, 1, 1, 1, 1, 1, 1, 1>>, <<1>>, <<1>>>>,
   steps |-> Each(<<In(1, Moved(1)), In(2, Moved(1)), In(2, Moved(2)),
              In(2, Moved(3)), In(2, Moved(4)), In(2, Moved(5)),
              In(2, Moved(6)), In(2, Moved(7)), In(2, Moved(8)),
              In(3, Moved(1)), In(4, Moved(1))>>)]

(* 1 ast.h; 2 parser_expression.c; 3 ast_verifier.c; 4                     *)
(* codegen_expression.c                                                    *)
pr75_prefix_update_expressions ==
  [base |-> <<<<1>>, <<1, 1>>, <<1, 1>>, <<1, 1, 1, 1>>>>,
   steps |-> Each(<<In(1, Kept(1)), In(2, Moved(1)), In(2, Moved(2)),
              In(3, Moved(1)), In(3, Moved(2)), In(4, Moved(1)),
              In(4, Moved(2)), In(4, Moved(3)), In(4, Moved(4))>>)]

(* 1 ast.h; 2 parser_record.c; 3 parser_member.c; 4 ast_verifier.c; 5      *)
(* codegen_expression.c                                                    *)
pr75_record_array_identity ==
  [base |-> <<<<1>>, <<1, 1, 1>>, <<1>>, <<1>>, <<1>>>>,
   steps |-> Each(<<In(1, Moved(1)), In(2, Moved(1)), In(2, Moved(2)),
              In(2, Moved(3)), In(3, Moved(1)), In(4, Moved(1)),
              In(5, Moved(1))>>)]

(* 1 parser_expression.c; 2 ast_verifier.c; 3 codegen_expression.c         *)
pr75_record_assignment_expressions ==
  [base |-> <<<<1>>, <<1>>, <<1>>>>,
   steps |-> Each(<<In(1, Moved(1)), In(2, Moved(1)), In(3, Moved(1))>>)]

(* 1 ast.h; 2 parser_record.c; 3 layout.c; 4 parser_core.c                 *)
pr75_record_field_alignment ==
  [base |-> <<<<1>>, <<1, 1, 1, 1, 1>>, <<1, 1, 1>>, <<1, 1, 1, 1, 1>>>>,
   steps |-> Each(<<In(1, Moved(1)), In(2, Kept(1)), In(2, Moved(2)),
              In(2, Moved(3)), In(2, Kept(4)), In(2, Moved(5)),
              In(3, Moved(1)), In(3, Moved(2)), In(3, Moved(3))>>)
      \o <<Load(4), Need(4, 1), Need(4, 2), Put(4, Kept(1)), Put(4, Kept(2))>>
      \o Swaps(4, <<Moved(3), Moved(4), Moved(5)>>)
      \o <<Save(4)>>]

(* 1 parser_record.c                                                       *)
pr75_record_forward_declarations ==
  [base |-> <<<<1>>>>,
   steps |-> Rewrite(1, <<Moved(1)>>)]

(* 1 parser_record.c                                                       *)
pr75_record_multidimensional_arrays ==
  [base |-> <<<<1>>>>,
   steps |-> Rewrite(1, <<Moved(1)>>)]

(* 1 parser_function.c                                                     *)
pr75_record_top_level_dispatch ==
  [base |-> <<<<1, 1>>>>,
   steps |-> Each(<<In(1, Kept(1)), In(1, Moved(2))>>)]

(* 1 parser_record.c                                                       *)
pr75_record_typedef_array_fields ==
  [base |-> <<<<1, 1>>>>,
   steps |-> Each(<<In(1, Moved(1)), In(1, Moved(2))>>)]

(* 1 token.h; 2 token.c; 3 lexer.c; 4 parser_expression.c; 5               *)
(* ast_verifier.c; 6 codegen_expression.c                                  *)
pr75_remainder_assignment ==
  [base |-> <<<<1>>, <<1>>, <<1>>, <<1, 1>>, <<1>>, <<1>>>>,
   steps |-> Each(<<In(1, Kept(1)), In(2, Kept(1)), In(3, Moved(1)),
              In(4, Moved(1)), In(4, Moved(2)), In(5, Moved(1)),
              In(6, Moved(1))>>)]

(* 1 parser_type.c                                                         *)
pr75_restrict_qualifier ==
  [base |-> <<<<1>>>>,
   steps |-> Rewrite(1, <<Moved(1)>>)]

(* 1 type.h; 2 type.c; 3 parser_type.c                                     *)
pr75_signed_char ==
  [base |-> <<<<1>>, <<1>>, <<1>>>>,
   steps |-> Each(<<In(1, Moved(1)), In(2, Kept(1)), In(3, Moved(1))>>)]

(* 1 ast.h; 2 ast.c; 3 parser_function.c; 4 parser_typedef.c; 5            *)
(* parser_record.c; 6 parser_expression.c; 7 parser_postfix.c; 8           *)
(* cast_normalization.c; 9 ast_verifier.c; 10 codegen_support.c; 11        *)
(* codegen_function.c; 12 codegen_expression.c                             *)
pr75_stack_arguments ==
  [base |-> <<<<0, 1, 1, 2>>, <<2, 1, 1, 2>>, <<1, 1, 1, 1>>, <<1>>, <<1>>,
           <<1, 1>>, <<1>>, <<1, 1>>, <<1, 1>>, <<1, 1>>, <<1, 1>>, <<1, 1, 1,
           1, 1, 1, 1, 1>>>>,
   steps |-> <<Load(1), Skip(1, 1, 2)>>
      \o Swaps(1, <<Every(Edit(2, {}, {1})), Every(Moved(3))>>)
      \o <<Refuse(1, 4, {0, 1}), Put(1, Every(Moved(4))), Save(1), Load(2),
           Refuse(2, 1, {0, 1}), Put(2, Every(Moved(1))), Need(2, 2),
           Put(2, Every(Moved(2))), Put(2, Every(Moved(3))),
           Refuse(2, 4, {0, 1}), Put(2, Every(Moved(4))), Save(2)>>
      \o Rewrite(3, <<Every(Moved(1)), Every(Moved(2)), Every(Moved(3)),
           Every(Moved(4))>>)
      \o Each(<<In(4, Every(Moved(1))), In(5, Every(Moved(1)))>>)
      \o <<Load(6), Need(6, 1), Put(6, Every(Moved(1))),
           Put(6, Every(Moved(2))), Save(6), Load(7), Put(7, Every(Moved(1))),
           Save(7), Load(8), Put(8, Every(Moved(1))), Put(8, Every(Moved(2))),
           Save(8), Load(9), Put(9, Every(Moved(1))), Put(9, Every(Moved(2))),
           Save(9)>>
      \o Rewrite(10, <<Every(Moved(1)), Every(Moved(2))>>)
      \o Rewrite(11, <<Every(Moved(1)), Every(Moved(2))>>)
      \o <<Load(12), Need(12, 1), Put(12, Every(Kept(1))),
           Put(12, Every(Moved(2))), Put(12, Every(Moved(3))),
           Put(12, Every(Moved(4)))>>
      \o Swaps(12, <<Every(Kept(5)), Every(Moved(6)), Every(Moved(7)),
           Every(Moved(8))>>)
      \o <<Save(12)>>]

(* 1 parser_global.c                                                       *)
pr75_static_inferred_char_arrays ==
  [base |-> <<<<1, 1>>>>,
   steps |-> Each(<<In(1, Kept(1)), In(1, Moved(2))>>)]

(* 1 parser_statement.c                                                    *)
pr75_static_local_fixed_array_initializers ==
  [base |-> <<<<1, 1>>>>,
   steps |-> Rewrite(1, <<Moved(1), Moved(2)>>)]

(* 1 parser_internal.h; 2 parser_global.c; 3 parser_statement.c            *)
pr75_static_local_scalars ==
  [base |-> <<<<1>>, <<1, 1>>, <<1, 1, 1>>>>,
   steps |-> Rewrite(1, <<Kept(1)>>)
      \o <<Load(2), Need(2, 1), Put(2, Moved(1)), Put(2, Every(Kept(2))),
           Save(2), Load(3), Some(3, 1), Some(3, 2), Some(3, 3),
           Put(3, Kept(2)), Save(3)>>]

(* 1 parser_global.c; 2 codegen_function.c                                 *)
pr75_static_record_array_initializers ==
  [base |-> <<<<1, 1, 1>>, <<1, 1, 1>>>>,
   steps |-> Rewrite(1, <<Kept(1), Kept(2), Moved(3)>>)
      \o Rewrite(2, <<Kept(1), Moved(2), Moved(3)>>)]

(* 1 parser_global.c; 2 codegen_function.c                                 *)
pr75_static_record_arrays ==
  [base |-> <<<<1, 1, 1>>, <<1, 1, 1>>>>,
   steps |-> Rewrite(1, <<Kept(1)>>)
      \o Rewrite(1, <<Kept(2), Moved(3)>>)
      \o Rewrite(2, <<Kept(1), Moved(2), Moved(3)>>)]

(* 1 codegen_function.c                                                    *)
pr75_static_record_compat ==
  [base |-> <<<<1, 1>>>>,
   steps |-> Rewrite(1, <<Kept(1), Moved(2)>>)]

(* 1 parser_internal.h; 2 parser_expression.c; 3 parser_statement.c        *)
pr75_top_level_comma_conditions ==
  [base |-> <<<<1>>, <<1>>, <<2, 1, 1, 1>>>>,
   steps |-> Each(<<In(1, Kept(1)), In(2, Kept(1))>>)
      \o <<Load(3), Refuse(3, 1, {0, 1}), Put(3, Every(Moved(1)))>>
      \o Swaps(3, <<Moved(2), Moved(3), Moved(4)>>)
      \o <<Save(3)>>]

(* 1 parser_statement.c                                                    *)
pr75_union_local_declaration ==
  [base |-> <<<<1>>>>,
   steps |-> Rewrite(1, <<Moved(1)>>)]

(* 1 parser_internal.h; 2 parser_constant.c; 3 parser_expression.c         *)
pr75_unsigned_64_literals ==
  [base |-> <<<<1>>, <<1>>, <<1>>>>,
   steps |-> Each(<<In(1, Kept(1)), In(2, Kept(1)), In(3, Kept(1))>>)]

(* 1 ast.h; 2 ast_global.c; 3 parser_function.c; 4 codegen_function.c      *)
pr75_visible_extern_arrays ==
  [base |-> <<<<1, 1>>, << >>, <<1, 1>>, <<1>>>>,
   steps |-> Each(<<In(1, Moved(1)), In(1, Kept(2))>>)
      \o <<Load(2), Put(2, Kept(0)), Save(2)>>
      \o Each(<<In(3, Kept(1)), In(3, Moved(2)), In(4, Moved(1))>>)]

(* 1 ast.h; 2 parser_internal.h; 3 parser_core.c; 4 parser_record.c; 5     *)
(* layout.c                                                                *)
pr75_zero_length_record_arrays ==
  [base |-> <<<<1>>, <<1>>, <<1, 1, 2>>, <<1, 1, 1, 1>>, <<1>>>>,
   steps |-> Each(<<In(1, Moved(1)), In(2, Kept(1))>>)
      \o <<Load(3), Some(3, 1), Some(3, 2), Put(3, Edit(2, {}, {2})), Save(3)>>
      \o Each(<<In(4, Kept(1)), In(4, Kept(2)), In(4, Moved(3)),
           In(4, Kept(4)), In(5, Moved(1))>>)
      \o <<Load(3), Refuse(3, 3, {0, 1}), Put(3, Every(Moved(3))), Save(3)>>]

PatchPr75Scripts ==
  {pr75_anonymous_record_type_specifiers, pr75_array_bound_casts,
    pr75_array_bound_enum, pr75_array_bound_sizeof_string,
    pr75_array_bound_sizeof, pr75_bitwise_and_assignment_expression,
    pr75_builtin_expect, pr75_builtin_va_list, pr75_cast_type_classifier,
    pr75_cast_type_name_classification, pr75_comma_operator,
    pr75_conditional_pointer_qualifiers, pr75_enum_constant_expressions,
    pr75_enum_typedef, pr75_extern_function_declarations,
    pr75_external_pointer_array_initializers,
    pr75_floating_compound_assignments, pr75_for_comma_initializers,
    pr75_for_expression_initializers, pr75_function_address_expressions,
    pr75_function_designator_calls, pr75_gnu_declaration_visibility,
    pr75_gnu_extension_marker, pr75_gnu_function_asm_labels,
    pr75_gnu_function_attributes, pr75_incomplete_array_verifier,
    pr75_integer_constant_bitwise, pr75_mixed_double_arithmetic,
    pr75_parenthesized_comma_expression, pr75_pointer_compound_subtraction,
    pr75_pointer_integer_casts, pr75_pointer_subtract_assignment,
    pr75_pointer_volatile_qualifier, pr75_prefix_update_expressions,
    pr75_record_array_identity, pr75_record_assignment_expressions,
    pr75_record_field_alignment, pr75_record_forward_declarations,
    pr75_record_multidimensional_arrays, pr75_record_top_level_dispatch,
    pr75_record_typedef_array_fields, pr75_remainder_assignment,
    pr75_restrict_qualifier, pr75_signed_char, pr75_stack_arguments,
    pr75_static_inferred_char_arrays,
    pr75_static_local_fixed_array_initializers, pr75_static_local_scalars,
    pr75_static_record_array_initializers, pr75_static_record_arrays,
    pr75_static_record_compat, pr75_top_level_comma_conditions,
    pr75_union_local_declaration, pr75_unsigned_64_literals,
    pr75_visible_extern_arrays, pr75_zero_length_record_arrays}
=============================================================================

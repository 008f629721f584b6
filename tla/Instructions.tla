---------------------------- MODULE Instructions ----------------------------
(* The instruction set of the register machine, family by family.  An opcode  *)
(* is a triple of a type, an operator and a form; the form says where the     *)
(* operands are: registers, immediates in the instruction word, or parameter  *)
(* words that follow it.                                                      *)
EXTENDS Naturals, Sequences

IntTypes == {"i32", "i64"}
Divs == {"div_s", "div_u"}
Rems == {"rem_s", "rem_u"}
Bitwise3 == {"and", "or", "xor"}
Shifts == {"shl", "shr_u", "shr_s", "rotl", "rotr"}
Orders == {"lt_s", "lt_u", "le_s", "le_u", "gt_s", "gt_u", "ge_s", "ge_u"}
FloatOrders == {"eq", "ne", "lt", "le", "gt", "ge"}

Ops(ty, ops, forms) == {ty} \X ops \X forms

-----------------------------------------------------------------------------
(* Numeric instructions: a result register, and in the form                   *)
(*   rr         two registers,              unary      one register,          *)
(*   imm16      a register and a constant,  imm16_lhs  a constant first,      *)
(*   by         a shift amount below the width, not zero,                     *)
(*   sign       a sign.                                                       *)

i32_cmp == Ops("i32", {"eq", "ne", "lt_s", "lt_u", "gt_s", "gt_u"}, {"rr", "imm16"})
i32_cmp_or_eq == Ops("i32", {"le_s", "le_u", "ge_s", "ge_u"}, {"rr", "imm16"})
i64_cmp == Ops("i64", {"eq", "ne", "lt_s", "lt_u", "gt_s", "gt_u"}, {"rr", "imm16"})
i64_cmp_or_eq == Ops("i64", {"le_s", "le_u", "ge_s", "ge_u"}, {"rr", "imm16"})
float_cmp == Ops("f32", FloatOrders, {"rr"}) \cup Ops("f64", FloatOrders, {"rr"})

i32_arith == Ops("i32", {"clz", "ctz", "popcnt"}, {"unary"})
             \cup Ops("i32", {"add", "mul"}, {"rr", "imm16"})
             \cup Ops("i32", {"sub"}, {"rr", "imm16_lhs"})
i32_div == Ops("i32", Divs, {"rr", "imm16", "imm16_lhs"})
i32_rem == Ops("i32", Rems, {"rr", "imm16", "imm16_lhs"})
i32_bits == Ops("i32", Bitwise3, {"rr", "imm16"})
            \cup Ops("i32", {"and_eqz", "or_eqz", "xor_eqz"}, {"rr", "imm16"})
i32_shifts == Ops("i32", Shifts, {"rr", "by", "imm16_lhs"})

i64_arith == Ops("i64", {"clz", "ctz", "popcnt"}, {"unary"})
             \cup Ops("i64", {"add", "mul"}, {"rr", "imm16"})
             \cup Ops("i64", {"sub"}, {"rr", "imm16_lhs"})
i64_div == Ops("i64", Divs, {"rr", "imm16", "imm16_lhs"})
i64_rem == Ops("i64", Rems, {"rr", "imm16", "imm16_lhs"})
i64_bits == Ops("i64", Bitwise3, {"rr", "imm16"})
i64_shifts == Ops("i64", Shifts, {"rr", "by", "imm16_lhs"})

extends == Ops("i64", {"i32_wrap_i64", "i64_extend8_s", "i64_extend16_s",
                       "i64_extend32_s"}, {"unary"})
           \cup Ops("i32", {"i32_extend8_s", "i32_extend16_s"}, {"unary"})

FloatUnaries == {"abs", "neg", "ceil", "floor", "trunc", "nearest", "sqrt"}
FloatBinaries == {"add", "sub", "mul", "div", "min", "max", "copysign"}
f32_arith == Ops("f32", FloatUnaries, {"unary"}) \cup Ops("f32", FloatBinaries, {"rr"})
             \cup {<<"f32", "copysign", "sign">>}
f64_arith == Ops("f64", FloatUnaries, {"unary"}) \cup Ops("f64", FloatBinaries, {"rr"})
             \cup {<<"f64", "copysign", "sign">>}

Truncs == {"i32_trunc_s", "i32_trunc_u", "i64_trunc_s", "i64_trunc_u"}
TruncSats == {"i32_trunc_sat_s", "i32_trunc_sat_u", "i64_trunc_sat_s", "i64_trunc_sat_u"}
truncs == {"f32", "f64"} \X (Truncs \cup TruncSats) \X {"unary"}
converts == Ops("f64", {"f32_demote_f64"}, {"unary"})
            \cup Ops("f32", {"f64_promote_f32"}, {"unary"})
            \cup Ops("i32", {"f32_convert_i32_s", "f32_convert_i32_u",
                             "f64_convert_i32_s", "f64_convert_i32_u"}, {"unary"})
            \cup Ops("i64", {"f32_convert_i64_s", "f32_convert_i64_u",
                             "f64_convert_i64_s", "f64_convert_i64_u"}, {"unary"})

Numeric == i32_cmp \cup i32_cmp_or_eq \cup i64_cmp \cup i64_cmp_or_eq \cup float_cmp
           \cup i32_arith \cup i32_div \cup i32_rem \cup i32_bits \cup i32_shifts
           \cup i64_arith \cup i64_div \cup i64_rem \cup i64_bits \cup i64_shifts
           \cup extends \cup f32_arith \cup f64_arith \cup truncs \cup converts

\* The 16-bit constants that are unsigned: Const16<u32>, Const16<NonZeroU64> and so on.
UnsignedImm == Ops("i32", {"lt_u", "le_u", "gt_u", "ge_u", "div_u", "rem_u"},
                   {"imm16", "imm16_lhs"})
               \cup Ops("i64", {"lt_u", "le_u", "gt_u", "ge_u", "div_u", "rem_u"},
                        {"imm16", "imm16_lhs"})

-----------------------------------------------------------------------------
(* Branches: a condition on two registers, or a register and a constant, and  *)
(* an offset of 16 bits; the fallback has its comparator and a wide offset in *)
(* a register.                                                                *)

Eqz3 == {"and_eqz", "or_eqz", "xor_eqz"}
branch_i32_bits == Ops("i32", Bitwise3 \cup Eqz3, {"branch", "branch_imm"})
branch_i32_signed == Ops("i32", {"eq", "ne", "lt_s", "lt_u", "le_s"}, {"branch", "branch_imm"})
branch_i32_rest == Ops("i32", {"le_u", "gt_s", "gt_u", "ge_s", "ge_u"}, {"branch", "branch_imm"})
branch_i64_signed == Ops("i64", {"eq", "ne", "lt_s", "lt_u", "le_s"}, {"branch", "branch_imm"})
branch_i64_rest == Ops("i64", {"le_u", "gt_s", "gt_u", "ge_s", "ge_u"}, {"branch", "branch_imm"})
branch_f32 == Ops("f32", FloatOrders, {"branch"})
branch_f64 == Ops("f64", FloatOrders, {"branch"})
branch_cmp_fallback == <<"any", "cmp", "fallback">>

-----------------------------------------------------------------------------
(* Loads and stores.  In the form                                             *)
(*   word       the memory index; register_and_imm32 with the offset follows, *)
(*   word_imm   the memory index; imm16_and_imm32 with the offset follows,    *)
(*   offset16   the pointer's register and an offset, for memory 0,           *)
(*   at         a constant address; memory_index follows for another memory.  *)

LoadForms == {"word", "at", "offset16"}
load_numbers == {"i32", "i64", "f32"} \X {"load"} \X LoadForms
load_f64_i32_8 == Ops("f64", {"load"}, LoadForms) \cup Ops("i32", {"load8_s", "load8_u"}, LoadForms)
load_i32_16_i64_8_s == Ops("i32", {"load16_s", "load16_u"}, LoadForms)
                       \cup Ops("i64", {"load8_s"}, LoadForms)
load_i64_8_u_16 == Ops("i64", {"load8_u", "load16_s", "load16_u"}, LoadForms)
load_i64_32 == Ops("i64", {"load32_s", "load32_u"}, LoadForms)

StoreForms == {"word", "word_imm", "offset16", "offset16_imm", "at", "at_imm"}
store_i32 == Ops("i32", {"store"}, StoreForms)
store_i32_8 == Ops("i32", {"store8"}, StoreForms)
store_i32_16 == Ops("i32", {"store16"}, StoreForms)
store_i64 == Ops("i64", {"store"}, StoreForms)
store_i64_8 == Ops("i64", {"store8"}, StoreForms)
store_i64_16 == Ops("i64", {"store16"}, StoreForms)
store_i64_32 == Ops("i64", {"store32"}, StoreForms)
store_floats == {"f32", "f64"} \X {"store"} \X {"word", "offset16", "at"}

-----------------------------------------------------------------------------
(* References, globals, tables, memories and segments.  The form is the set of operands   *)
(* that are constants in the instruction word.                                *)

Forms(entity, op, consts) == {entity} \X {op} \X SUBSET consts
global_ops == {<<"ref", "func", {}>>, <<"global", "get", {}>>, <<"global", "set", {}>>,
               <<"global", "set", {"i32imm16"}>>, <<"global", "set", {"i64imm16"}>>}
table_access == Forms("table", "get", {"imm"}) \cup {<<"table", "size", {}>>}
                \cup Forms("table", "set", {"at"})
table_copy == Forms("table", "copy", {"to", "from", "exact"})
table_init == Forms("table", "init", {"to", "from", "exact"})
table_fill == Forms("table", "fill", {"at", "exact"})
table_grow == Forms("table", "grow", {"imm"})
segment_drops == {<<"elem", "drop", {}>>, <<"data", "drop", {}>>}
memory_growth == {<<"memory", "size", {}>>} \cup Forms("memory", "grow", {"by"})
memory_copy == Forms("memory", "copy", {"to", "from", "exact"})
memory_fill == Forms("memory", "fill", {"at", "imm", "exact"})
memory_init == Forms("memory", "init", {"to", "from", "exact"})

-----------------------------------------------------------------------------
(* Moving values: copies within a frame, returns to the caller, and the       *)
(* branch tables whose targets copy their parameters.  An opcode is a pair of *)
(* a family and a form.                                                       *)

copies == {"copy"} \X {"reg", "2", "imm32", "i64imm32", "f64imm32", "span", "span_non_overlapping",
                       "many", "many_non_overlapping"}
returns == {"return"} \X {"none", "reg", "reg2", "reg3", "imm32", "i64imm32", "f64imm32", "span", "many"}
conditional_returns ==
    {"return_nez"} \X {"none", "reg", "reg2", "imm32", "i64imm32", "f64imm32", "span", "many"}
branch_tables == {"branch_table"} \X {"0", "1", "2", "3", "span", "many"}
branch == <<"branch", "always">>

\* Parameter words, never executed.
index_words == {"table_index", "memory_index", "data_index", "elem_index"}
const_words == {"const32", "i64const32", "f64const32"}
target_words == {"branch_table_target", "branch_table_target_non_overlapping"}
imm_words == {"imm16_and_imm32", "register_and_imm32"}
register_words == {"register_span", "register", "register2", "register3", "register_list"}
call_words == {"call_indirect_params", "call_indirect_params_imm16"}
=============================================================================

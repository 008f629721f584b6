--------------------------- MODULE NumericVisitor ---------------------------
(* The numeric operators as FuncTranslator's visitor hands them to its        *)
(* translate_* methods: for each operator the method, the opcode used when    *)
(* the operands change places, and the cases it decides without an            *)
(* instruction.  A row's field                                                *)
(*   tr    is the translate method,                                           *)
(*   same  what the operator is when both operands are one register,          *)
(*   rhs   what it is for a constant right operand, as pairs of the constant  *)
(*         and the answer,                                                    *)
(*   other what it is for every other constant right operand, if decided,     *)
(*   lhs   the pairs for a constant left operand,                             *)
(*   rev   the opcode for a small constant left operand.                      *)
(* An answer is a constant, the register operand itself, or the sum with the  *)
(* negated constant that stands for a difference.                             *)
EXTENDS UntypedVal, TLC

\* Tables put together; no operator is in two of them.
f ++ g == [op \in DOMAIN f \cup DOMAIN g |-> IF op \in DOMAIN f THEN f[op] ELSE g[op]]

Is(v) == {[k |-> "const", v |-> v]}
Operand == {[k |-> "operand"]}
AddNegated == {[k |-> "add_negated"]}

Row(tr, rev, same, rhs, lhs) ==
    [tr |-> tr, rev |-> rev, same |-> same, rhs |-> rhs, other |-> {}, lhs |-> lhs]
Plain(tr, op) == Row(tr, op, {}, {}, {})

\* A comparison that is `always` for equal operands and at the edge of the type.
Order(rev, always, rhs, lhs) ==
    Row("binary", rev, Is(Bool(always)), {<<rhs, Is(Bool(always))>>},
        {<<lhs, Is(Bool(always))>>})

Equality(op, always) == Row("commutative", op, Is(Bool(always)), {}, {})

-----------------------------------------------------------------------------
(* Integer comparisons.  eqz pushes the constant zero and visits eq. *)

i32_equality == [eq |-> Equality("eq", TRUE), ne |-> Equality("ne", FALSE)]

i32_lt_gt ==
    [lt_s |-> Order("gt_s", FALSE, SMin("i32"), SMax("i32")),
     lt_u |-> Order("gt_u", FALSE, 0, UMax("i32")),
     gt_s |-> Order("lt_s", FALSE, SMax("i32"), SMin("i32")),
     gt_u |-> Order("lt_u", FALSE, UMax("i32"), 0)]

i32_le_ge ==
    [le_s |-> Order("ge_s", TRUE, SMax("i32"), SMin("i32")),
     le_u |-> Order("ge_u", TRUE, UMax("i32"), 0),
     ge_s |-> Order("le_s", TRUE, SMin("i32"), SMax("i32")),
     ge_u |-> Order("le_u", TRUE, 0, UMax("i32"))]

i64_equality == [eq |-> Equality("eq", TRUE), ne |-> Equality("ne", FALSE)]

i64_lt_gt ==
    [lt_s |-> Order("gt_s", FALSE, SMin("i64"), SMax("i64")),
     lt_u |-> Order("gt_u", FALSE, 0, UMax("i64")),
     gt_s |-> Order("lt_s", FALSE, SMax("i64"), SMin("i64")),
     gt_u |-> Order("lt_u", FALSE, UMax("i64"), 0)]

i64_le_ge ==
    [le_s |-> Order("ge_s", TRUE, SMax("i64"), SMin("i64")),
     le_u |-> Order("ge_u", TRUE, UMax("i64"), 0),
     ge_s |-> Order("le_s", TRUE, SMin("i64"), SMax("i64")),
     ge_u |-> Order("le_u", TRUE, 0, UMax("i64"))]

-----------------------------------------------------------------------------
(* Integer arithmetic *)

i32_arithmetic ==
    [clz |-> Plain("unary", "clz"), ctz |-> Plain("unary", "ctz"),
     popcnt |-> Plain("unary", "popcnt"),
     add |-> Row("commutative", "add", {}, {<<0, Operand>>}, {}),
     sub |-> [Row("binary", "sub", Is(0), {<<0, Operand>>}, {}) EXCEPT !.other = AddNegated],
     mul |-> Row("commutative", "mul", {}, {<<0, Is(0)>>, <<1, Operand>>}, {})]

\* Mutant: only x % 1 is decided, x % -1 is left to the instruction.
i32_divrem_not_minus_one ==
    [div_s |-> Row("divrem", "div_s", {}, {<<1, Operand>>}, {}),
     div_u |-> Row("divrem", "div_u", {}, {<<1, Operand>>}, {}),
     rem_s |-> Row("divrem", "rem_s", {}, {<<1, Is(0)>>}, {}),
     rem_u |-> Row("divrem", "rem_u", {}, {<<1, Is(0)>>}, {})]

i32_divrem ==
    [div_s |-> Row("divrem", "div_s", {}, {<<1, Operand>>}, {}),
     div_u |-> Row("divrem", "div_u", {}, {<<1, Operand>>}, {}),
     rem_s |-> Row("divrem", "rem_s", {}, {<<1, Is(0)>>, <<MinusOne("i32"), Is(0)>>}, {}),
     rem_u |-> Row("divrem", "rem_u", {}, {<<1, Is(0)>>}, {})]

i32_bitwise ==
    [and |-> Row("commutative", "and", Operand,
                 {<<MinusOne("i32"), Operand>>, <<0, Is(0)>>}, {}),
     or  |-> Row("commutative", "or", Operand,
                 {<<MinusOne("i32"), Is(MinusOne("i32"))>>, <<0, Operand>>}, {}),
     xor |-> Row("commutative", "xor", Is(0), {<<0, Operand>>}, {})]

MinusOneStays(op, ty) ==
    Row("shift", op, {}, {}, {<<MinusOne(ty), Is(MinusOne(ty))>>})

i32_shift ==
    [shl |-> Plain("shift", "shl"), shr_u |-> Plain("shift", "shr_u"),
     shr_s |-> MinusOneStays("shr_s", "i32"),
     rotl |-> MinusOneStays("rotl", "i32"), rotr |-> MinusOneStays("rotr", "i32")]

i64_arithmetic ==
    [clz |-> Plain("unary", "clz"), ctz |-> Plain("unary", "ctz"),
     popcnt |-> Plain("unary", "popcnt"),
     add |-> Row("commutative", "add", {}, {<<0, Operand>>}, {}),
     sub |-> [Row("binary", "sub", Is(0), {<<0, Operand>>}, {}) EXCEPT !.other = AddNegated],
     mul |-> Row("commutative", "mul", {}, {<<0, Is(0)>>, <<1, Operand>>}, {})]

i64_divrem ==
    [div_s |-> Row("divrem", "div_s", {}, {<<1, Operand>>}, {}),
     div_u |-> Row("divrem", "div_u", {}, {<<1, Operand>>}, {}),
     rem_s |-> Row("divrem", "rem_s", {}, {<<1, Is(0)>>, <<MinusOne("i64"), Is(0)>>}, {}),
     rem_u |-> Row("divrem", "rem_u", {}, {<<1, Is(0)>>}, {})]

i64_bitwise ==
    [and |-> Row("commutative", "and", Operand,
                 {<<MinusOne("i64"), Operand>>, <<0, Is(0)>>}, {}),
     or  |-> Row("commutative", "or", Operand,
                 {<<MinusOne("i64"), Is(MinusOne("i64"))>>, <<0, Operand>>}, {}),
     xor |-> Row("commutative", "xor", Is(0), {<<0, Operand>>}, {})]

i64_shift ==
    [shl |-> Plain("shift", "shl"), shr_u |-> Plain("shift", "shr_u"),
     shr_s |-> MinusOneStays("shr_s", "i64"),
     rotl |-> MinusOneStays("rotl", "i64"), rotr |-> MinusOneStays("rotr", "i64")]

-----------------------------------------------------------------------------
(* Floats *)

NaNs == {Float(s, NAN) : s \in {0, 1}}
ForNaN(b) == {<<x, Is(Bool(b))>> : x \in NaNs}
PosInf == Float(0, INF)
NegInf == Float(1, INF)

f32_compare ==
    [eq |-> Row("fcommutative", "eq", {}, ForNaN(FALSE), {}),
     ne |-> Row("fcommutative", "ne", {}, ForNaN(TRUE), {}),
     lt |-> Row("fbinary", "lt", Is(0), ForNaN(FALSE) \cup {<<NegInf, Is(0)>>},
                                        ForNaN(FALSE) \cup {<<PosInf, Is(0)>>}),
     gt |-> Row("fbinary", "gt", Is(0), ForNaN(FALSE) \cup {<<PosInf, Is(0)>>},
                                        ForNaN(FALSE) \cup {<<NegInf, Is(0)>>}),
     le |-> Row("fbinary", "le", {}, ForNaN(FALSE), ForNaN(FALSE)),
     ge |-> Row("fbinary", "ge", {}, ForNaN(FALSE), ForNaN(FALSE))]

f64_compare ==
    [eq |-> Row("fcommutative", "eq", {}, ForNaN(FALSE), {}),
     ne |-> Row("fcommutative", "ne", {}, ForNaN(TRUE), {}),
     lt |-> Row("fbinary", "lt", Is(0), ForNaN(FALSE) \cup {<<NegInf, Is(0)>>},
                                        ForNaN(FALSE) \cup {<<PosInf, Is(0)>>}),
     gt |-> Row("fbinary", "gt", Is(0), ForNaN(FALSE) \cup {<<PosInf, Is(0)>>},
                                        ForNaN(FALSE) \cup {<<NegInf, Is(0)>>}),
     le |-> Row("fbinary", "le", {}, ForNaN(FALSE), ForNaN(FALSE)),
     ge |-> Row("fbinary", "ge", {}, ForNaN(FALSE), ForNaN(FALSE))]

FloatUnary == {"abs", "neg", "ceil", "floor", "trunc", "nearest", "sqrt"}

f32_arithmetic ==
    [op \in FloatUnary |-> Plain("unary", op)] ++
    [add |-> Plain("fcommutative", "add"), sub |-> Plain("fbinary", "sub"),
     mul |-> Plain("fcommutative", "mul"), div |-> Plain("fbinary", "div"),
     min |-> Row("fcommutative", "min", {}, {<<PosInf, Operand>>}, {}),
     max |-> Row("fcommutative", "max", {}, {<<NegInf, Operand>>}, {}),
     copysign |-> Plain("copysign", "copysign")]

f64_arithmetic ==
    [op \in FloatUnary |-> Plain("unary", op)] ++
    [add |-> Plain("fcommutative", "add"), sub |-> Plain("fbinary", "sub"),
     mul |-> Plain("fcommutative", "mul"), div |-> Plain("fbinary", "div"),
     min |-> Row("fcommutative", "min", {}, {<<PosInf, Operand>>}, {}),
     max |-> Row("fcommutative", "max", {}, {<<NegInf, Operand>>}, {}),
     copysign |-> Plain("copysign", "copysign")]

-----------------------------------------------------------------------------
(* Conversions, by the type of the operand; rev names the opcode that is      *)
(* emitted: the sign extension of an i32 is that of the low bits of an i64.   *)

conversions ==
    [i32 |-> [i64_extend_i32_s |-> Plain("unary", "i64_extend32_s"),
              i64_extend_i32_u |-> Plain("keep", "none"),
              f32_convert_i32_s |-> Plain("unary", "f32_convert_i32_s"),
              f32_convert_i32_u |-> Plain("unary", "f32_convert_i32_u"),
              f64_convert_i32_s |-> Plain("unary", "f64_convert_i32_s"),
              f64_convert_i32_u |-> Plain("unary", "f64_convert_i32_u"),
              f32_reinterpret_i32 |-> Plain("keep", "none")],
     i64 |-> [i32_wrap_i64 |-> Plain("unary", "i32_wrap_i64"),
              f32_convert_i64_s |-> Plain("unary", "f32_convert_i64_s"),
              f32_convert_i64_u |-> Plain("unary", "f32_convert_i64_u"),
              f64_convert_i64_s |-> Plain("unary", "f64_convert_i64_s"),
              f64_convert_i64_u |-> Plain("unary", "f64_convert_i64_u"),
              f64_reinterpret_i64 |-> Plain("keep", "none")],
     f32 |-> [f64_promote_f32 |-> Plain("unary", "f64_promote_f32"),
              i32_reinterpret_f32 |-> Plain("keep", "none")]
             ++ [op \in {"i32_trunc_s", "i32_trunc_u", "i64_trunc_s", "i64_trunc_u"}
                     |-> Plain("fallible", op)],
     f64 |-> [f32_demote_f64 |-> Plain("unary", "f32_demote_f64"),
              i64_reinterpret_f64 |-> Plain("keep", "none")]
             ++ [op \in {"i32_trunc_s", "i32_trunc_u", "i64_trunc_s", "i64_trunc_u"}
                     |-> Plain("fallible", op)]]

TruncSat == {"i32_trunc_sat_s", "i32_trunc_sat_u", "i64_trunc_sat_s", "i64_trunc_sat_u"}

extensions ==
    [i32 |-> [op \in {"i32_extend8_s", "i32_extend16_s"} |-> Plain("unary", op)],
     i64 |-> [op \in {"i64_extend8_s", "i64_extend16_s", "i64_extend32_s"}
                  |-> Plain("unary", op)],
     f32 |-> [op \in TruncSat |-> Plain("unary", op)],
     f64 |-> [op \in TruncSat |-> Plain("unary", op)]]

-----------------------------------------------------------------------------
Rows ==
    [i32 |-> i32_equality ++ i32_lt_gt ++ i32_le_ge ++ i32_arithmetic ++ i32_divrem
             ++ i32_bitwise ++ i32_shift ++ conversions.i32 ++ extensions.i32,
     i64 |-> i64_equality ++ i64_lt_gt ++ i64_le_ge ++ i64_arithmetic ++ i64_divrem
             ++ i64_bitwise ++ i64_shift ++ conversions.i64 ++ extensions.i64,
     f32 |-> f32_compare ++ f32_arithmetic ++ conversions.f32 ++ extensions.f32,
     f64 |-> f64_compare ++ f64_arithmetic ++ conversions.f64 ++ extensions.f64]

Types == {"i32", "i64", "f32", "f64"}
=============================================================================

------------------------- MODULE NumericTranslation -------------------------
(* One numeric operator on its way through Wasmi: the translator pops the     *)
(* operands' providers and decides, folds or emits one instruction; the       *)
(* executor, running freely or stepped by the debugger, executes what was     *)
(* emitted.  The operands are registers or constants in every combination.    *)
EXTENDS NumericVisitor, Instructions, WasmNumerics

CONSTANTS Samples     \* by type, the operand values of binary operators

ASSUME SamplesAssumption == \A ty \in IntTypes : Samples[ty] \subseteq 0 .. UMax(ty)

VARIABLES op,         \* type and name of the Wasm operator
          row,        \* what the visitor hands the translate method for it
          args,       \* the operands' providers
          regs,       \* what the two registers hold
          out,        \* what the translator left: nothing yet, a provider, a trap
                      \* or an instruction
          res         \* what the executor made of the instruction
vars == <<op, row, args, regs, out, res>>

NotYet == [k |-> "none"]
Reg(r) == [k |-> "reg", r |-> r]
Const(v) == [k |-> "const", v |-> v]
Trapped(code) == [k |-> "trap", code |-> code]
Instr(ty, o, form, a, b) ==
    [k |-> "instr", opcode |-> <<ty, o, form>>, a |-> a, b |-> b]

Unary == {"unary", "fallible", "keep"}

Providers(v, w) == {<<Reg(1), Reg(2)>>, <<Reg(1), Const(w)>>, <<Const(v), Reg(2)>>,
                    <<Const(v), Const(w)>>}
                   \cup (IF v = w THEN {<<Reg(1), Reg(1)>>} ELSE {})
Values(ty) == IF ty \in IntType THEN 0 .. UMax(ty) ELSE Floats(ty)

Init == /\ \E ty \in Types : \E o \in DOMAIN Rows[ty] :
              /\ op = <<ty, o>> /\ row = Rows[ty][o]
              /\ IF row.tr \in Unary
                 THEN \E v \in Values(ty) : /\ regs = <<v, v>>
                                            /\ args \in {<<Reg(1)>>, <<Const(v)>>}
                 ELSE \E v, w \in Samples[ty] : /\ regs = <<v, w>>
                                                /\ args \in Providers(v, w)
        /\ out = NotYet /\ res = NotYet

-----------------------------------------------------------------------------
(* Immediates *)

IsReg(p) == p.k = "reg"
IsConst(p) == p.k = "const"

\* Mutant: the constant is cut to 16 bits without looking at its range.
Fits_unchecked(opcode, v) == TRUE

\* Const16::try_from: the constant fits 16 bits, signed or not by the opcode.
Fits(opcode, v) ==
    IF opcode \in UnsignedImm THEN v <= UMax("i16")
    ELSE -SMin("i16") <= Signed(opcode[1], v) /\ Signed(opcode[1], v) <= SMax("i16")
Imm(n) == [k |-> "imm", v |-> n]
EncodeImm16(v) == Imm(Wrap("i16", v))

\* T::from(Const16<T>)
DecodeImm16(opcode, imm) ==
    IF opcode \in UnsignedImm THEN imm.v ELSE Wrap(opcode[1], Signed("i16", imm.v))

\* ShiftAmount::new: the signed remainder; zero is no shift at all.
ShiftAmount(ty, v) == Rem(Signed(ty, v), Width[ty])

-----------------------------------------------------------------------------
(* The translator's helpers: each gives what is left for the operator *)

push_binary_instr(o, lhs, rhs) == Instr(op[1], o, "rr", lhs, rhs)

try_push_binary_instr_imm16(o, lhs, v) ==
    IF Fits(<<op[1], o, "imm16">>, v)
    THEN {Instr(op[1], o, "imm16", lhs, EncodeImm16(v))} ELSE {}

\* The instruction's own operands are a constant and a register, except that a
\* comparison has changed places and names its register first.
try_push_binary_instr_imm16_rev(o, v, rhs) ==
    IF o \in Orders
    THEN try_push_binary_instr_imm16(o, rhs, v)
    ELSE IF Fits(<<op[1], o, "imm16_lhs">>, v)
         THEN {Instr(op[1], o, "imm16_lhs", EncodeImm16(v), rhs)} ELSE {}

\* A function local constant register holds what does not fit the instruction.
push_binary_instr_imm(o, lhs, v) == Instr(op[1], o, "rr", lhs, Const(v))
push_binary_instr_imm_rev(o, v, rhs) == Instr(op[1], o, "rr", Const(v), rhs)

\* TypedVal's methods: those of UntypedVal, on constants.
consteval == IF args[1].k = "const" THEN binary(op[1], op[2], args[1].v, args[2].v) ELSE Ok(0)
push_binary_consteval == Const(consteval.val)
ConstOrTrap(r) == IF r.ok THEN Const(r.val) ELSE Trapped(r.code)

\* A difference with a constant is a sum with the negated one.
AddNegatedTo(reg, v) ==
    LET neg == Wrap(op[1], -v)
        imm == try_push_binary_instr_imm16("add", reg, neg)
    IN IF imm # {} THEN CHOOSE i \in imm : TRUE ELSE push_binary_instr_imm("add", reg, neg)

\* What an answer of the visitor's table leaves, reg being the register operand.
Answered(answers, reg, v) ==
    {IF x.k = "const" THEN Const(x.v) ELSE IF x.k = "operand" THEN reg ELSE AddNegatedTo(reg, v) :
        x \in answers}
Opt(table, v) == UNION {pair[2] : pair \in {p \in table : p[1] = v}}

\* The first of the alternatives that applies.
First(alternatives) ==
    LET i == CHOOSE i \in DOMAIN alternatives :
                /\ alternatives[i] # {}
                /\ \A j \in 1 .. i - 1 : alternatives[j] = {}
    IN CHOOSE x \in alternatives[i] : TRUE

RegReg == First(<< IF args[1] = args[2] THEN Answered(row.same, args[1], 0) ELSE {},
                        {push_binary_instr(op[2], args[1], args[2])} >>)
RegImm(reg, v) ==
    First(<< Answered(Opt(row.rhs, v), reg, v),
             Answered(row.other, reg, v),
             try_push_binary_instr_imm16(op[2], reg, v),
             {push_binary_instr_imm(op[2], reg, v)} >>)

-----------------------------------------------------------------------------
(* The translate methods *)

Translate(tr) == out = NotYet /\ row.tr = tr /\ UNCHANGED <<op, row, args, regs, res>>
Both(p(_), q(_)) == p(args[1]) /\ q(args[2])

translate_binary ==
    /\ Translate("binary")
    /\ \/ Both(IsReg, IsReg) /\ out' = RegReg
       \/ Both(IsReg, IsConst) /\ out' = RegImm(args[1], args[2].v)
       \/ /\ Both(IsConst, IsReg)
          /\ out' = First(<< Answered(Opt(row.lhs, args[1].v), args[2], args[1].v),
                             try_push_binary_instr_imm16_rev(row.rev, args[1].v, args[2]),
                             {push_binary_instr_imm_rev(op[2], args[1].v, args[2])} >>)
       \/ Both(IsConst, IsConst) /\ out' = push_binary_consteval

PropagateNaN(v) == IF is_nan(v) THEN {Const(v)} ELSE {}

translate_fbinary ==
    /\ Translate("fbinary")
    /\ \/ Both(IsReg, IsReg) /\ out' = RegReg
       \/ /\ Both(IsReg, IsConst)
          /\ out' = First(<< Answered(Opt(row.rhs, args[2].v), args[1], 0),
                             PropagateNaN(args[2].v),
                             {push_binary_instr_imm(op[2], args[1], args[2].v)} >>)
       \/ /\ Both(IsConst, IsReg)
          /\ out' = First(<< Answered(Opt(row.lhs, args[1].v), args[2], 0),
                             PropagateNaN(args[1].v),
                             {push_binary_instr_imm_rev(op[2], args[1].v, args[2])} >>)
       \/ Both(IsConst, IsConst) /\ out' = push_binary_consteval

translate_fcopysign ==
    /\ Translate("copysign")
    /\ \/ /\ Both(IsReg, IsReg)
          /\ out' = IF args[1] = args[2] THEN args[1]
                    ELSE push_binary_instr("copysign", args[1], args[2])
       \/ /\ Both(IsReg, IsConst)
          /\ out' = Instr(op[1], "copysign", "sign", args[1], Imm(args[2].v.s))
       \/ /\ Both(IsConst, IsReg)
          /\ out' = push_binary_instr_imm_rev("copysign", args[1].v, args[2])
       \/ Both(IsConst, IsConst) /\ out' = push_binary_consteval

translate_binary_commutative ==
    /\ Translate("commutative")
    /\ \/ Both(IsReg, IsReg) /\ out' = RegReg
       \/ Both(IsReg, IsConst) /\ out' = RegImm(args[1], args[2].v)
       \/ Both(IsConst, IsReg) /\ out' = RegImm(args[2], args[1].v)
       \/ Both(IsConst, IsConst) /\ out' = push_binary_consteval

FloatRegImm(reg, v) == First(<< Answered(Opt(row.rhs, v), reg, 0), PropagateNaN(v),
                                {push_binary_instr_imm(op[2], reg, v)} >>)

translate_fbinary_commutative ==
    /\ Translate("fcommutative")
    /\ \/ Both(IsReg, IsReg) /\ out' = RegReg
       \/ Both(IsReg, IsConst) /\ out' = FloatRegImm(args[1], args[2].v)
       \/ Both(IsConst, IsReg) /\ out' = FloatRegImm(args[2], args[1].v)
       \/ Both(IsConst, IsConst) /\ out' = push_binary_consteval

translate_shift ==
    /\ Translate("shift")
    /\ \/ Both(IsReg, IsReg) /\ out' = push_binary_instr(op[2], args[1], args[2])
       \/ /\ Both(IsReg, IsConst)
          /\ out' = LET k == ShiftAmount(op[1], args[2].v)
                    IN IF k = 0 THEN args[1]
                       ELSE Instr(op[1], op[2], "by", args[1], Imm(k))
       \/ /\ Both(IsConst, IsReg)
          /\ out' = First(<< Answered(Opt(row.lhs, args[1].v), args[2], 0),
                             IF args[1].v = 0 THEN {args[1]} ELSE {},
                             try_push_binary_instr_imm16_rev(op[2], args[1].v, args[2]),
                             {push_binary_instr_imm_rev(op[2], args[1].v, args[2])} >>)
       \/ Both(IsConst, IsConst) /\ out' = push_binary_consteval

translate_divrem ==
    /\ Translate("divrem")
    /\ \/ Both(IsReg, IsReg) /\ out' = RegReg
       \/ /\ Both(IsReg, IsConst)
          /\ out' = IF args[2].v = 0 THEN Trapped("IntegerDivisionByZero")
                    ELSE RegImm(args[1], args[2].v)
       \/ /\ Both(IsConst, IsReg)
          /\ out' = First(<< try_push_binary_instr_imm16_rev(op[2], args[1].v, args[2]),
                             {push_binary_instr_imm_rev(op[2], args[1].v, args[2])} >>)
       \/ Both(IsConst, IsConst) /\ out' = ConstOrTrap(consteval)

\* The operator of a unary method, on a value of type ty.
unary(ty, o, v) ==
    CASE o \in {"clz", "ctz", "popcnt"} -> Ok(count(ty, o, v))
      [] o \in FloatUnary -> Ok(funary(o, v))
      [] o \in Truncs -> trunc(ty, o, v)
      [] o \in TruncSats -> trunc_sat(o, v)
      [] OTHER -> conversion(ty, o, v)

\* i64.extend_i32_s is the instruction that extends the low half of an i64.
EmitType == IF op[2] = "i64_extend_i32_s" THEN "i64" ELSE op[1]

translate_unary ==
    /\ Translate("unary")
    /\ out' = IF IsReg(args[1]) THEN Instr(EmitType, row.rev, "unary", args[1], args[1])
                                ELSE Const(unary(op[1], op[2], args[1].v).val)

translate_unary_fallible ==
    /\ Translate("fallible")
    /\ out' = IF IsReg(args[1]) THEN Instr(op[1], row.rev, "unary", args[1], args[1])
                                ELSE ConstOrTrap(unary(op[1], op[2], args[1].v))

\* Only the type of the provider changes: the cell already has the right bits.
translate_reinterpret == Translate("keep") /\ out' = args[1]

-----------------------------------------------------------------------------
(* The executor.  Running and stepping have a match of their own each, whose  *)
(* arms name the method of the opcode. *)

execute_i32_compare_arms == i32_cmp \cup i32_cmp_or_eq
execute_compare_arms == i64_cmp \cup i64_cmp_or_eq \cup float_cmp
execute_i32_arms == i32_arith \cup i32_div \cup i32_rem \cup i32_bits \cup i32_shifts
execute_i64_arms == i64_arith \cup i64_div \cup i64_rem \cup i64_bits \cup i64_shifts \cup extends
execute_float_arms == f32_arith \cup f64_arith \cup truncs \cup converts

execute_instr_i32_compare_arms == i32_cmp \cup i32_cmp_or_eq
execute_instr_compare_arms == i64_cmp \cup i64_cmp_or_eq \cup float_cmp
execute_instr_i32_arms == i32_arith \cup i32_div \cup i32_rem \cup i32_bits \cup i32_shifts
execute_instr_i64_arms ==
    i64_arith \cup i64_div \cup i64_rem \cup i64_bits \cup i64_shifts \cup extends
execute_instr_float_arms == f32_arith \cup f64_arith \cup truncs \cup converts

execute == execute_i32_compare_arms \cup execute_compare_arms \cup execute_i32_arms
           \cup execute_i64_arms \cup execute_float_arms
execute_instr == execute_instr_i32_compare_arms \cup execute_instr_compare_arms
                 \cup execute_instr_i32_arms \cup execute_instr_i64_arms
                 \cup execute_instr_float_arms

\* An instruction that either match lacks stops the run.
Arms == execute \cap execute_instr

\* The opcodes of each macro: the generic method their methods call.
impl_binary ==
    (IntTypes \X ({"add", "sub", "mul"} \cup Bitwise3 \cup Shifts) \X {"rr"})
    \cup Ops("i32", {"and_eqz", "or_eqz", "xor_eqz"}, {"rr"})
    \cup ({"f32", "f64"} \X FloatBinaries \X {"rr"})
impl_binary_imm16 ==
    (IntTypes \X ({"add", "mul"} \cup Bitwise3) \X {"imm16"})
    \cup Ops("i32", {"and_eqz", "or_eqz", "xor_eqz"}, {"imm16"})
impl_shift_by == IntTypes \X Shifts \X {"by"}
impl_binary_imm16_lhs == IntTypes \X ({"sub"} \cup Shifts) \X {"imm16_lhs"}
impl_fallible_binary == IntTypes \X (Divs \cup Rems) \X {"rr"}
impl_divrem_s_imm16_rhs == IntTypes \X {"div_s", "rem_s"} \X {"imm16"}
impl_divrem_u_imm16_rhs == IntTypes \X {"div_u", "rem_u"} \X {"imm16"}
impl_fallible_binary_imm16_lhs == IntTypes \X (Divs \cup Rems) \X {"imm16_lhs"}
impl_copysign_imm == {<<"f32", "copysign", "sign">>, <<"f64", "copysign", "sign">>}
impl_comparison == (IntTypes \X (Orders \cup {"eq", "ne"}) \X {"rr"})
                   \cup ({"f32", "f64"} \X FloatOrders \X {"rr"})
impl_comparison_imm16 == IntTypes \X (Orders \cup {"eq", "ne"}) \X {"imm16"}
impl_unary == (IntTypes \X {"clz", "ctz", "popcnt"} \X {"unary"})
              \cup ({"f32", "f64"} \X FloatUnaries \X {"unary"})
impl_conversion == ({"f32", "f64"} \X TruncSats \X {"unary"}) \cup extends \cup converts
impl_fallible_conversion == {"f32", "f64"} \X Truncs \X {"unary"}

get_register(p) == IF p.k = "reg" THEN regs[p.r] ELSE p.v

Dispatch(opcodes) ==
    /\ out.k = "instr" /\ res = NotYet
    /\ out.opcode \in Arms /\ out.opcode \in opcodes
    /\ UNCHANGED <<op, row, args, regs, out>>
Operation(a, b) == binary(out.opcode[1], out.opcode[2], a, b)

execute_unary ==
    /\ Dispatch(impl_unary) \/ Dispatch(impl_conversion)
    /\ res' = unary(out.opcode[1], out.opcode[2], get_register(out.a))

try_execute_unary ==
    /\ Dispatch(impl_fallible_conversion)
    /\ res' = unary(out.opcode[1], out.opcode[2], get_register(out.a))

execute_binary ==
    /\ Dispatch(impl_binary) \/ Dispatch(impl_comparison)
    /\ res' = Operation(get_register(out.a), get_register(out.b))

execute_binary_imm16 ==
    /\ Dispatch(impl_binary_imm16) \/ Dispatch(impl_comparison_imm16)
    /\ res' = Operation(get_register(out.a), DecodeImm16(out.opcode, out.b))

execute_binary_imm16_lhs ==
    /\ Dispatch(impl_binary_imm16_lhs)
    /\ res' = Operation(DecodeImm16(out.opcode, out.a), get_register(out.b))

\* The amount was reduced when it was encoded and is masked again here.
execute_shift_by ==
    /\ Dispatch(impl_shift_by)
    /\ res' = Operation(get_register(out.a), Wrap(out.opcode[1], out.b.v))

try_execute_binary ==
    /\ Dispatch(impl_fallible_binary)
    /\ res' = Operation(get_register(out.a), get_register(out.b))

\* DivRemExt: checked_div and checked_rem refuse MIN by -1 alike, and there is
\* no test for a zero divisor, which NonZero excludes.
DivRemExt_s(ty, o, a, b) ==
    IF Signed(ty, b) = -1 /\ a = SMin(ty) THEN Trap("IntegerOverflow")
                                          ELSE divrem(ty, o, a, b)

try_execute_divrem_imm16_rhs ==
    /\ Dispatch(impl_divrem_s_imm16_rhs)
    /\ res' = DivRemExt_s(out.opcode[1], out.opcode[2], get_register(out.a),
                          DecodeImm16(out.opcode, out.b))

execute_divrem_imm16_rhs ==
    /\ Dispatch(impl_divrem_u_imm16_rhs)
    /\ res' = divrem(out.opcode[1], out.opcode[2], get_register(out.a),
                     DecodeImm16(out.opcode, out.b))

try_execute_binary_imm16_lhs ==
    /\ Dispatch(impl_fallible_binary_imm16_lhs)
    /\ res' = Operation(DecodeImm16(out.opcode, out.a), get_register(out.b))

\* The sign becomes 1.0 or -1.0.
execute_copysign_imm ==
    /\ Dispatch(impl_copysign_imm)
    /\ res' = Operation(get_register(out.a), Float(out.b.v, 2))

-----------------------------------------------------------------------------
Finished == out # NotYet /\ (out.k = "instr" => res # NotYet)
Done == Finished /\ UNCHANGED vars

Next == \/ translate_binary \/ translate_fbinary \/ translate_fcopysign
        \/ translate_binary_commutative \/ translate_fbinary_commutative
        \/ translate_shift \/ translate_divrem
        \/ translate_unary \/ translate_unary_fallible \/ translate_reinterpret
        \/ execute_unary \/ try_execute_unary \/ execute_binary \/ execute_binary_imm16
        \/ execute_binary_imm16_lhs \/ execute_shift_by \/ try_execute_binary
        \/ try_execute_divrem_imm16_rhs \/ execute_divrem_imm16_rhs
        \/ try_execute_binary_imm16_lhs \/ execute_copysign_imm
        \/ Done

Spec == Init /\ [][Next]_vars /\ WF_vars(Next)

-----------------------------------------------------------------------------
Outcome == CASE out.k = "const" -> Ok(out.v)
             [] out.k = "reg"   -> Ok(regs[out.r])
             [] out.k = "trap"  -> Trap(out.code)
             [] out.k = "instr" -> res

\* Wasm leaves the sign and the payload of a NaN open, except where an operator
\* works on the bits.
SameValue(x, y) ==
    \/ x = y
    \/ /\ op[1] \notin IntType /\ row.tr \in {"fbinary", "fcommutative", "unary"}
       /\ op[2] \in FloatOps \ {"abs", "neg", "eq", "ne", "lt", "gt", "le", "ge"}
       /\ x.ok /\ y.ok /\ is_nan(x.val) /\ is_nan(y.val)

\* Folding, forwarding an operand, small constants, changed places and the
\* divisions specialised for constants all give the value, or the trap, that
\* WebAssembly gives the operator.
SameResult ==
    Finished => SameValue(Outcome, Wasm(op[1], op[2], regs[1], regs[2]))

\* The constants that unsafe code takes for non-zero without a test are not zero:
\* the divisor of a division specialised for a constant, whose encoding keeps the
\* low 16 bits only, and the amount of a shift that was not dropped.
UncheckedNonZero ==
    /\ (out.k = "instr" /\ out.opcode \in impl_divrem_s_imm16_rhs \cup impl_divrem_u_imm16_rhs)
           => DecodeImm16(out.opcode, out.b) # 0
    /\ (out.k = "instr" /\ out.opcode \in impl_shift_by)
           => out.b.v % Width[out.opcode[1]] # 0
=============================================================================

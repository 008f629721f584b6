---------------------------- MODULE WasmNumerics ----------------------------
(* What WebAssembly says its numeric operators compute, written from the      *)
(* meaning of the result and not from a way to compute it: a quotient is the  *)
(* number that leaves a small remainder, a shift moves bit positions, a       *)
(* truncation stays within one of its operand.  NumericTranslation shows that *)
(* the translated code computes the same.                                     *)
EXTENDS UntypedVal

Bit(v, i) == (v \div 2^i) % 2
SumOver(S, f(_)) == MapThenSumSet(f, S)
Weight(ty, sign, i) ==
    IF sign = "s" /\ i = Width[ty] - 1 THEN -(2^i) ELSE 2^i
Value(ty, sign, v) ==
    SumOver(0 .. Width[ty] - 1, LAMBDA i : Bit(v, i) * Weight(ty, sign, i))
Pattern(ty, bit(_)) == SumOver({i \in 0 .. Width[ty] - 1 : bit(i)}, LAMBDA i : 2^i)
Represents(ty, n) == CHOOSE v \in 0 .. UMax(ty) : (v - n) % 2^Width[ty] = 0
SignOf(op) == IF op \in {"lt_s", "gt_s", "le_s", "ge_s", "div_s", "rem_s"} THEN "s" ELSE "u"

WasmCompare(rel, a, b) ==
    Bool(CASE rel = "eq" -> a = b [] rel = "ne" -> a # b
           [] rel \in {"lt_s", "lt_u", "lt"} -> a < b
           [] rel \in {"gt_s", "gt_u", "gt"} -> b < a
           [] rel \in {"le_s", "le_u", "le"} -> ~(b < a)
           [] rel \in {"ge_s", "ge_u", "ge"} -> ~(a < b))

\* q and r with a = q * b + r, |r| < |b| and r of the sign of a.
WasmDivide(ty, sign, a, b) ==
    LET n == Value(ty, sign, a)  d == Value(ty, sign, b)
        lim == 2^Width[ty]
        q == CHOOSE q \in -lim .. lim :
                LET r == n - q * d IN Abs(r) < Abs(d) /\ (r = 0 \/ (r < 0) = (n < 0))
    IN <<q, n - q * d>>

WasmDivRem(ty, op, a, b) ==
    LET qr == WasmDivide(ty, SignOf(op), a, b)
    IN IF b = 0 THEN Trap("IntegerDivisionByZero")
       ELSE IF op \in {"rem_s", "rem_u"} THEN Ok(Represents(ty, qr[2]))
       ELSE IF op = "div_s" /\ qr[1] = 2^(Width[ty] - 1) THEN Trap("IntegerOverflow")
       ELSE Ok(Represents(ty, qr[1]))

WasmShift(ty, op, a, b) ==
    LET N == Width[ty]
        k == b % N
    IN Pattern(ty, LAMBDA i :
         CASE op = "shl"   -> i >= k /\ Bit(a, i - k) = 1
           [] op = "shr_u" -> i + k < N /\ Bit(a, i + k) = 1
           [] op = "shr_s" -> Bit(a, IF i + k < N THEN i + k ELSE N - 1) = 1
           [] op = "rotl"  -> Bit(a, (i - k) % N) = 1
           [] op = "rotr"  -> Bit(a, (i + k) % N) = 1)

WasmBitwise(ty, op, a, b) ==
    Pattern(ty, LAMBDA i : CASE op = "and" -> Bit(a, i) + Bit(b, i) = 2
                             [] op = "or"  -> Bit(a, i) + Bit(b, i) >= 1
                             [] op = "xor" -> Bit(a, i) + Bit(b, i) = 1)

WasmInt(ty, op, a, b) ==
    CASE op \in {"eq", "ne", "lt_s", "lt_u", "gt_s", "gt_u", "le_s", "le_u", "ge_s", "ge_u"}
           -> Ok(WasmCompare(op, Value(ty, SignOf(op), a), Value(ty, SignOf(op), b)))
      [] op = "add" -> Ok(Represents(ty, a + b))
      [] op = "sub" -> Ok(Represents(ty, a - b))
      [] op = "mul" -> Ok(Represents(ty, a * b))
      [] op \in {"div_s", "div_u", "rem_s", "rem_u"} -> WasmDivRem(ty, op, a, b)
      [] op \in {"shl", "shr_s", "shr_u", "rotl", "rotr"} -> Ok(WasmShift(ty, op, a, b))
      [] op \in {"and", "or", "xor"} -> Ok(WasmBitwise(ty, op, a, b))
      [] op = "clz" -> Ok(Cardinality({n \in 1 .. Width[ty] : a < 2^(Width[ty] - n)}))
      [] op = "ctz" -> Ok(Cardinality({n \in 1 .. Width[ty] : a % 2^n = 0}))
      [] op = "popcnt" -> Ok(SumOver(0 .. Width[ty] - 1, LAMBDA i : Bit(a, i)))

-----------------------------------------------------------------------------
(* Floats.  Any NaN stands for every NaN where Wasm leaves the choice open.   *)

WasmExtremum(op, a, b) ==
    IF is_nan(a) \/ is_nan(b) THEN Float(0, NAN)
    ELSE CHOOSE x \in {a, b} : \A y \in {a, b} :
            LET before == IF op = "min" THEN <<x, y>> ELSE <<y, x>>
            IN \/ Real(before[1]) < Real(before[2])
               \/ Real(before[1]) = Real(before[2]) /\ before[1].s >= before[2].s

WasmFloat(op, a, b) ==
    CASE op \in {"eq", "ne", "lt", "gt", "le", "ge"} ->
           Ok(IF is_nan(a) \/ is_nan(b) THEN Bool(op = "ne")
                                        ELSE WasmCompare(op, Real(a), Real(b)))
      [] op \in {"min", "max"} -> Ok(WasmExtremum(op, a, b))
      [] op = "copysign" -> Ok([a EXCEPT !.s = b.s])
      [] op = "abs" -> Ok([a EXCEPT !.s = 0])
      [] op = "neg" -> Ok([a EXCEPT !.s = 1 - a.s])
      [] op \in {"add", "sub", "mul", "div"} -> Ok(fterm(op, a, b))
      [] OTHER -> Ok(IF is_nan(a) THEN Float(0, NAN) ELSE [op |-> op, args |-> {a}])

\* The integer next to x on the side of zero, if the type has it.
WasmTrunc(into, sign, saturate, x) ==
    LET range == {Value(into, sign, v) : v \in 0 .. UMax(into)}
        near  == {n \in range : 2 * Abs(n) <= x.m /\ x.m < 2 * Abs(n) + 2
                                /\ (n = 0 \/ (n < 0) = (x.s = 1))}
        far   == IF x.s = 1 THEN Min(range) ELSE Max(range)
    IN IF is_nan(x) THEN IF saturate THEN Ok(0) ELSE Trap("BadConversionToInteger")
       ELSE IF near # {} THEN Ok(Represents(into, CHOOSE n \in near : TRUE))
       ELSE IF saturate THEN Ok(Represents(into, far)) ELSE Trap("IntegerOverflow")

WasmConvert(ty, op, a) ==
    CASE op = "i32_wrap_i64" -> Ok(Represents("i32", a))
      [] op = "i64_extend_i32_u" -> Ok(a)
      [] op = "i64_extend_i32_s" -> Ok(Represents("i64", Value("i32", "s", a)))
      [] op = "i32_extend8_s" -> Ok(Represents("i32", Value("i8", "s", a)))
      [] op = "i32_extend16_s" -> Ok(Represents("i32", Value("i16", "s", a)))
      [] op = "i64_extend8_s" -> Ok(Represents("i64", Value("i8", "s", a)))
      [] op = "i64_extend16_s" -> Ok(Represents("i64", Value("i16", "s", a)))
      [] op = "i64_extend32_s" -> Ok(Represents("i64", Value("i32", "s", a)))
      [] op = "i32_trunc_s" -> WasmTrunc("i32", "s", FALSE, a)
      [] op = "i32_trunc_u" -> WasmTrunc("i32", "u", FALSE, a)
      [] op = "i64_trunc_s" -> WasmTrunc("i64", "s", FALSE, a)
      [] op = "i64_trunc_u" -> WasmTrunc("i64", "u", FALSE, a)
      [] op = "i32_trunc_sat_s" -> WasmTrunc("i32", "s", TRUE, a)
      [] op = "i32_trunc_sat_u" -> WasmTrunc("i32", "u", TRUE, a)
      [] op = "i64_trunc_sat_s" -> WasmTrunc("i64", "s", TRUE, a)
      [] op = "i64_trunc_sat_u" -> WasmTrunc("i64", "u", TRUE, a)
      [] op \in {"f32_reinterpret_i32", "f64_reinterpret_i64",
                 "i32_reinterpret_f32", "i64_reinterpret_f64"} -> Ok(a)
      [] OTHER -> Ok([op |-> op, args |-> {a}])

IntOps == {"eq", "ne", "lt_s", "lt_u", "gt_s", "gt_u", "le_s", "le_u", "ge_s", "ge_u",
           "add", "sub", "mul", "div_s", "div_u", "rem_s", "rem_u", "and", "or", "xor",
           "shl", "shr_s", "shr_u", "rotl", "rotr", "clz", "ctz", "popcnt"}
FloatOps == {"eq", "ne", "lt", "gt", "le", "ge", "add", "sub", "mul", "div", "min", "max",
             "copysign", "abs", "neg", "ceil", "floor", "trunc", "nearest", "sqrt"}

\* The result of operator op of type ty; a unary operator ignores b.
Wasm(ty, op, a, b) ==
    IF ty \in IntType /\ op \in IntOps THEN WasmInt(ty, op, a, b)
    ELSE IF ty \notin IntType /\ op \in FloatOps THEN WasmFloat(op, a, b)
    ELSE WasmConvert(ty, op, a)
=============================================================================

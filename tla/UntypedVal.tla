----------------------------- MODULE UntypedVal -----------------------------
(* The operations on values of crates/core: what UntypedVal computes for each *)
(* numeric Wasm operator, at small widths.  An integer is its bit pattern, a  *)
(* number below 2^Width[ty], as the cell of the value stack holds it: a value *)
(* of type i32 has no bit above its width.  A float is a sign and a magnitude *)
(* in half units, with an infinity and a NaN above all of them; what the      *)
(* hardware computes (sums, roots, roundings to float) stays a term.          *)
EXTENDS Integers, FiniteSets, Sequences, FiniteSetsExt

CONSTANTS Width,       \* bits of i8, i16, i32 and i64
          Magnitudes   \* the finite magnitudes of f32 and of f64, in half units

ASSUME WidthAssumption ==
    /\ \A ty \in {"i8", "i16", "i32", "i64"} : Width[ty] \in Nat \ {0}
    /\ Width["i8"] < Width["i16"] /\ Width["i16"] < Width["i32"]
    /\ Width["i32"] < Width["i64"]

\* What the proofs use of powers of two, which no prover knows.
ASSUME PowerAssumption ==
    /\ \A ty \in {"i8", "i16", "i32", "i64"} :
          2^(Width[ty] - 1) > 0 /\ 2^Width[ty] = 2 * 2^(Width[ty] - 1)
    /\ \A narrow, wide \in {"i8", "i16", "i32", "i64"} :
          Width[narrow] <= Width[wide] => /\ 2^(Width[narrow] - 1) <= 2^(Width[wide] - 1)
                                          /\ 2^Width[wide] % 2^Width[narrow] = 0
    /\ \A i \in 0 .. Width["i64"] : 2^i > 0
    /\ \A ty \in {"i8", "i16", "i32", "i64"} :
          \A i \in Width[ty] .. Width["i64"] : 2^Width[ty] <= 2^i

-----------------------------------------------------------------------------
(* Bit patterns *)

Wrap(ty, n) == n % 2^Width[ty]
Signed(ty, v) == IF v < 2^(Width[ty] - 1) THEN v ELSE v - 2^Width[ty]
UMax(ty) == 2^Width[ty] - 1
SMax(ty) == 2^(Width[ty] - 1) - 1
SMin(ty) == 2^(Width[ty] - 1)          \* the pattern of the least signed value
MinusOne(ty) == UMax(ty)
Bits(v) == {i \in 0 .. Width["i64"] : (v \div 2^i) % 2 = 1}
FromBits(S) == MapThenSumSet(LAMBDA i : 2^i, S)
Bool(b) == IF b THEN 1 ELSE 0

\* The value the operator reads: signed or unsigned, by its suffix.
Read(ty, sign, v) == IF sign = "s" THEN Signed(ty, v) ELSE v

\* Quotient and remainder that truncate towards zero, as the hardware's do.
Abs(n) == IF n < 0 THEN -n ELSE n
Quot(a, b) == LET q == Abs(a) \div Abs(b) IN IF (a < 0) = (b < 0) THEN q ELSE -q
Rem(a, b) == a - b * Quot(a, b)

Ok(v) == [ok |-> TRUE, val |-> v]
Trap(code) == [ok |-> FALSE, code |-> code]

-----------------------------------------------------------------------------
(* Integers *)

arithmetic(ty, op, a, b) ==
    Wrap(ty, CASE op = "add" -> a + b
               [] op = "sub" -> a - b
               [] op = "mul" -> a * b)

\* overflowing_div: the one quotient that does not fit is MIN / -1.
div(ty, sign, a, b) ==
    IF b = 0 THEN Trap("IntegerDivisionByZero")
    ELSE LET q == Quot(Read(ty, sign, a), Read(ty, sign, b))
         IN IF sign = "s" /\ q > SMax(ty) THEN Trap("IntegerOverflow")
                                          ELSE Ok(Wrap(ty, q))

\* wrapping_rem: MIN % -1 is 0 and no trap.
rem(ty, sign, a, b) ==
    IF b = 0 THEN Trap("IntegerDivisionByZero")
    ELSE Ok(Wrap(ty, Rem(Read(ty, sign, a), Read(ty, sign, b))))

divrem(ty, op, a, b) ==
    CASE op = "div_s" -> div(ty, "s", a, b) [] op = "div_u" -> div(ty, "u", a, b)
      [] op = "rem_s" -> rem(ty, "s", a, b) [] op = "rem_u" -> rem(ty, "u", a, b)

bitwise(op, a, b) ==
    FromBits(CASE op = "and" -> Bits(a) \cap Bits(b)
               [] op = "or"  -> Bits(a) \cup Bits(b)
               [] op = "xor" -> (Bits(a) \cup Bits(b)) \ (Bits(a) \cap Bits(b)))

\* The shift amount is masked to the width.
shift(ty, op, a, b) ==
    LET k == b % Width[ty]
    IN CASE op = "shl"   -> Wrap(ty, a * 2^k)
         [] op = "shr_s" -> Wrap(ty, Signed(ty, a) \div 2^k)
         [] op = "shr_u" -> a \div 2^k

rotate_left(ty, a, k) == Wrap(ty, a * 2^k) + a \div 2^(Width[ty] - k)

rotate(ty, op, a, b) ==
    LET k == b % Width[ty]
    IN IF op = "rotl" THEN rotate_left(ty, a, k)
       ELSE rotate_left(ty, a, (Width[ty] - k) % Width[ty])

\* leading_zeros, trailing_zeros and count_ones of the Rust core library.
count(ty, op, a) ==
    LET ones == Bits(a)
    IN CASE op = "clz"    -> IF ones = {} THEN Width[ty] ELSE Width[ty] - 1 - Max(ones)
         [] op = "ctz"    -> IF ones = {} THEN Width[ty] ELSE Min(ones)
         [] op = "popcnt" -> Cardinality(ones)

\* (self as $from_type) as Self: the low bits of the cell, sign extended.
sign_extend_from(from, ty, a) == Wrap(ty, Signed(from, Wrap(from, a)))

-----------------------------------------------------------------------------
(* Floats *)

INF == 100000
NAN == INF + 1
Float(s, m) == [s |-> s, m |-> m]
Floats(ty) == {Float(s, m) : s \in {0, 1}, m \in Magnitudes[ty] \cup {INF, NAN}}
is_nan(x) == IF "m" \in DOMAIN x THEN x.m = NAN ELSE FALSE
is_infinite(x) == x.m = INF
Real(x) == IF x.s = 1 THEN -x.m ELSE x.m

fcompare(op, a, b) ==
    IF is_nan(a) \/ is_nan(b) THEN op = "ne"
    ELSE CASE op = "eq" -> Real(a) = Real(b)  [] op = "ne" -> Real(a) # Real(b)
           [] op = "lt" -> Real(a) < Real(b)  [] op = "gt" -> Real(a) > Real(b)
           [] op = "le" -> Real(a) <= Real(b) [] op = "ge" -> Real(a) >= Real(b)

\* Hardware arithmetic: a NaN operand makes a NaN, anything else is a term; the
\* operands of a commutative operator are a set.
fterm(op, a, b) ==
    IF is_nan(a) \/ is_nan(b) THEN Float(0, NAN)
    ELSE [op |-> op, args |-> IF op \in {"add", "mul"} THEN {a, b} ELSE <<a, b>>]

fmin(a, b) ==
    IF fcompare("lt", a, b) THEN a
    ELSE IF fcompare("lt", b, a) THEN b
    ELSE IF fcompare("eq", a, b) THEN (IF a.s = 1 /\ b.s = 0 THEN a ELSE b)
    ELSE fterm("add", a, b)

fmax(a, b) ==
    IF fcompare("gt", a, b) THEN a
    ELSE IF fcompare("gt", b, a) THEN b
    ELSE IF fcompare("eq", a, b) THEN (IF a.s = 0 /\ b.s = 1 THEN a ELSE b)
    ELSE fterm("add", a, b)

fbinary(op, a, b) ==
    CASE op = "min" -> fmin(a, b)
      [] op = "max" -> fmax(a, b)
      [] op = "copysign" -> Float(b.s, a.m)
      [] OTHER -> fterm(op, a, b)

funary(op, a) ==
    CASE op = "abs" -> Float(0, a.m)
      [] op = "neg" -> Float(1 - a.s, a.m)
      [] OTHER -> IF is_nan(a) THEN Float(0, NAN) ELSE [op |-> op, args |-> {a}]

-----------------------------------------------------------------------------
(* Conversions *)

TruncBounds(from, into, sign) ==
    LET reals == {m : m \in Magnitudes[from]} \cup {-m : m \in Magnitudes[from]}
    IN IF sign = "u" THEN <<-2, 2 * (UMax(into) + 1)>>
       ELSE << IF from = "f64" /\ into = "i32"
               THEN -2 * (SMin(into) + 1)
               ELSE Max({r \in reals : r < -2 * SMin(into)}),
               2 * (SMax(into) + 1) >>

try_truncate_into(from, into, sign, x) ==
    LET bounds == TruncBounds(from, into, sign)
    IN IF is_nan(x) THEN Trap("BadConversionToInteger")
       ELSE IF Real(x) <= bounds[1] \/ Real(x) >= bounds[2] THEN Trap("IntegerOverflow")
       ELSE Ok(Wrap(into, Quot(Real(x), 2)))

\* The cast `as` of Rust saturates, which decides the finite values out of range.
truncate_saturate_into(into, sign, x) ==
    LET lo == IF sign = "u" THEN 0 ELSE -SMin(into)
        hi == IF sign = "u" THEN UMax(into) ELSE SMax(into)
        n  == Quot(Real(x), 2)
    IN Wrap(into, IF is_nan(x) THEN 0
                  ELSE IF is_infinite(x) THEN (IF x.s = 0 THEN hi ELSE lo)
                  ELSE IF n < lo THEN lo ELSE IF n > hi THEN hi ELSE n)

-----------------------------------------------------------------------------
(* The methods of UntypedVal, by the operator's type and name *)

equality(op, a, b) == Bool(IF op = "eq" THEN a = b ELSE a # b)

less(ty, op, a, b) ==
    Bool(CASE op = "lt_s" -> Signed(ty, a) < Signed(ty, b)
           [] op = "lt_u" -> a < b
           [] op = "le_s" -> Signed(ty, a) <= Signed(ty, b)
           [] op = "le_u" -> a <= b)

greater(ty, op, a, b) ==
    Bool(CASE op = "gt_s" -> Signed(ty, a) > Signed(ty, b)
           [] op = "gt_u" -> a > b
           [] op = "ge_s" -> Signed(ty, a) >= Signed(ty, b)
           [] op = "ge_u" -> a >= b)

IntType == {"i32", "i64"}

\* execute_binary and try_execute_binary with the operation of the method.
binary(ty, op, a, b) ==
    IF ty \notin IntType
    THEN Ok(IF op \in {"eq", "ne", "lt", "gt", "le", "ge"} THEN Bool(fcompare(op, a, b))
                                                           ELSE fbinary(op, a, b))
    ELSE CASE op \in {"eq", "ne"} -> Ok(equality(op, a, b))
           [] op \in {"lt_s", "lt_u", "le_s", "le_u"} -> Ok(less(ty, op, a, b))
           [] op \in {"gt_s", "gt_u", "ge_s", "ge_u"} -> Ok(greater(ty, op, a, b))
           [] op \in {"add", "sub", "mul"} -> Ok(arithmetic(ty, op, a, b))
           [] op \in {"div_s", "div_u", "rem_s", "rem_u"} -> divrem(ty, op, a, b)
           [] op \in {"and", "or", "xor"} -> Ok(bitwise(op, a, b))
           [] op \in {"shl", "shr_s", "shr_u"} -> Ok(shift(ty, op, a, b))
           [] op \in {"rotl", "rotr"} -> Ok(rotate(ty, op, a, b))

\* execute_unary and try_execute_unary; ty is the type of the operand.
conversion(ty, op, a) ==
    CASE op = "i32_wrap_i64" -> Ok(Wrap("i32", a))
      [] op = "i32_extend8_s" -> Ok(sign_extend_from("i8", "i32", a))
      [] op = "i32_extend16_s" -> Ok(sign_extend_from("i16", "i32", a))
      [] op = "i64_extend8_s" -> Ok(sign_extend_from("i8", "i64", a))
      [] op = "i64_extend16_s" -> Ok(sign_extend_from("i16", "i64", a))
      [] op = "i64_extend32_s" -> Ok(sign_extend_from("i32", "i64", a))
      [] op = "i64_extend_i32_s" -> Ok(Wrap("i64", Signed("i32", a)))
      [] OTHER -> Ok([op |-> op, args |-> {a}])     \* casts to float

trunc(ty, op, a) ==
    CASE op = "i32_trunc_s" -> try_truncate_into(ty, "i32", "s", a)
      [] op = "i32_trunc_u" -> try_truncate_into(ty, "i32", "u", a)
      [] op = "i64_trunc_s" -> try_truncate_into(ty, "i64", "s", a)
      [] op = "i64_trunc_u" -> try_truncate_into(ty, "i64", "u", a)

trunc_sat(op, a) ==
    CASE op = "i32_trunc_sat_s" -> Ok(truncate_saturate_into("i32", "s", a))
      [] op = "i32_trunc_sat_u" -> Ok(truncate_saturate_into("i32", "u", a))
      [] op = "i64_trunc_sat_s" -> Ok(truncate_saturate_into("i64", "s", a))
      [] op = "i64_trunc_sat_u" -> Ok(truncate_saturate_into("i64", "u", a))
=============================================================================

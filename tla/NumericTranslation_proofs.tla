---------------------- MODULE NumericTranslation_proofs ----------------------
(* The constants that unsafe code takes for non-zero are not zero, whatever   *)
(* the widths, the operands and the optimisations that applied.               *)
(* And a comparison with the branch on its result does what Wasm does, fused  *)
(* into one instruction or not.                                               *)
EXTENDS BranchEncoding, SequenceTheorems, TLAPS

-----------------------------------------------------------------------------
(* Numbers *)

\* Powers of two, as the proofs use them.
LEMMA Powers ==
    ASSUME NEW ty \in IntTypes
    PROVE  /\ 2^Width[ty] \in Nat /\ 2^(Width[ty] - 1) \in Nat
           /\ 2^Width["i16"] \in Nat /\ 2^(Width["i16"] - 1) \in Nat
           /\ 2^(Width["i16"] - 1) > 0 /\ 2^Width["i16"] = 2 * 2^(Width["i16"] - 1)
           /\ 2^Width[ty] = 2 * 2^(Width[ty] - 1) /\ 2^(Width["i16"] - 1) <= 2^(Width[ty] - 1)
           /\ 2^Width[ty] % 2^Width["i16"] = 0
  <1> DEFINE H(t) == 2^(Width[t] - 1)
             P(t) == 2^Width[t]
  <1>1. \A t \in {"i8", "i16", "i32", "i64"} : P(t) \in Int /\ H(t) \in Int
    BY WidthAssumption
  <1>2. \A t \in {"i8", "i16", "i32", "i64"} : H(t) > 0 /\ P(t) = 2 * H(t)
    BY PowerAssumption
  <1>3. \A t \in {"i32", "i64"} : H("i16") <= H(t) /\ P(t) % P("i16") = 0
    <2>1. \A t \in {"i32", "i64"} : Width["i16"] <= Width[t] BY WidthAssumption
    <2> QED BY <2>1, PowerAssumption
  <1> HIDE DEF H, P
  <1>4. ty \in {"i32", "i64"} BY DEF IntTypes
  <1>5. /\ P(ty) \in Nat /\ H(ty) \in Nat /\ P("i16") \in Nat /\ H("i16") \in Nat
        /\ H("i16") > 0 /\ P("i16") = 2 * H("i16") /\ P(ty) = 2 * H(ty) /\ H("i16") <= H(ty)
        /\ P(ty) % P("i16") = 0
    BY <1>1, <1>2, <1>3, <1>4
  <1> QED BY <1>5 DEF H, P

\* Remainders of what is close to the modulus, or to a multiple of it.
LEMMA SmallMod == ASSUME NEW a \in Int, NEW m \in Nat, 0 <= a, a < m PROVE a % m = a
  OBVIOUS

\* Below zero, the remainder goes around once.
LEMMA NegativeMod ==
    ASSUME NEW a \in Int, NEW m \in Nat, 0 - m <= a, a < 0 PROVE a % m = a + m
  OBVIOUS

\* A product with a positive factor is at least the other one.
LEMMA Product == ASSUME NEW k \in Int, NEW m \in Nat, k >= 1 PROVE k * m >= m
  OBVIOUS

\* Quotient and remainder.
LEMMA DivMod ==
    ASSUME NEW a \in Int, NEW m \in Nat, m > 0
    PROVE  /\ a \div m \in Int /\ a % m \in Int /\ 0 <= a % m /\ a % m < m
           /\ a = m * (a \div m) + (a % m)
  <1>1. a = m * (a \div m) + (a % m) /\ a \div m \in Int OBVIOUS
  <1>2. a % m \in Int /\ 0 <= a % m /\ a % m < m OBVIOUS
  <1> QED BY <1>1, <1>2

\* A multiple of the modulus does not count.
LEMMA MultipleMod ==
    ASSUME NEW q \in Int, NEW m \in Nat, m > 0, q % m = 0,
           NEW s \in Int, 0 - m <= s, s < 0
    PROVE  (q + s) % m = s + m
  <1>1. PICK k \in Int : q = k * m
    <2>1. q = m * (q \div m) + (q % m) /\ q \div m \in Int OBVIOUS
    <2> QED BY <2>1
  <1> DEFINE d == (q + s) \div m
             r == (q + s) % m
  <1>2. d \in Int /\ r \in Int /\ q + s = m * d + r /\ 0 <= r /\ r < m OBVIOUS
  <1> HIDE DEF d, r
  <1>3. (k - 1 - d) * m = r - (s + m) BY <1>1, <1>2
  <1>4. k - 1 - d < 1
    <2>1. SUFFICES ASSUME k - 1 - d >= 1 PROVE FALSE BY <1>2
    <2>2. (k - 1 - d) * m >= m BY <1>2, <2>1, Product
    <2> QED BY <1>2, <1>3, <2>2
  <1>5. d - (k - 1) < 1
    <2>1. SUFFICES ASSUME d - (k - 1) >= 1 PROVE FALSE BY <1>2
    <2>2. (d - (k - 1)) * m >= m BY <1>2, <2>1, Product
    <2>3. (d - (k - 1)) * m = 0 - (k - 1 - d) * m BY <1>2
    <2> QED BY <1>2, <1>3, <2>2, <2>3
  <1>6. k - 1 - d = 0 BY <1>2, <1>4, <1>5
  <1>7. r = s + m BY <1>2, <1>3, <1>6
  <1> QED BY <1>7 DEF r

\* A constant that fits the instruction is not zero after its trip through the
\* 16 bits if it was not zero before.
LEMMA ImmediateNonZero ==
    ASSUME NEW ty \in IntTypes, NEW o, NEW v \in 0 .. UMax(ty), v # 0,
           NEW opcode, opcode = <<ty, o, "imm16">>, Fits(opcode, v)
    PROVE  DecodeImm16(opcode, EncodeImm16(v)) # 0
  <1> DEFINE Q == 2^Width[ty]
             K == 2^(Width[ty] - 1)
             P == 2^Width["i16"]
             H == 2^(Width["i16"] - 1)
  <1>1. /\ Q \in Nat /\ K \in Nat /\ P \in Nat /\ H \in Nat /\ H > 0 /\ P = 2 * H
        /\ Q = 2 * K /\ H <= K /\ Q % P = 0
    BY Powers
  <1>2. v \in 0 .. Q - 1 BY DEF UMax
  <1>3. EncodeImm16(v).v = v % P BY DEF EncodeImm16, Imm, Wrap
  <1>4. opcode[1] = ty OBVIOUS
  <1>5. CASE opcode \in UnsignedImm
    <2>1. DecodeImm16(opcode, EncodeImm16(v)) = v % P BY <1>3, <1>5 DEF DecodeImm16
    <2>2. v <= P - 1 BY <1>5 DEF Fits, UMax
    <2> HIDE DEF P, Q
    <2>3. v % P = v BY <1>1, <1>2, <2>2, SmallMod
    <2> QED BY <2>1, <2>3
  <1>6. CASE opcode \notin UnsignedImm
    <2>1. PICK s, w, t : /\ s = Signed(ty, v) /\ w = v % P /\ t = Signed("i16", w) OBVIOUS
    <2>2. DecodeImm16(opcode, EncodeImm16(v)) = t % Q
      BY <1>3, <1>4, <1>6, <2>1 DEF DecodeImm16, Wrap
    <2>3. s = (IF v < K THEN v ELSE v - Q) /\ t = IF w < H THEN w ELSE w - P
      BY <2>1 DEF Signed
    <2>4. -H <= s /\ s <= H - 1 BY <1>4, <1>6, <2>1 DEF Fits, SMin, SMax
    <2> HIDE DEF P, Q, H, K
    <2>5. v \in 1 .. Q - 1 BY <1>1, <1>2
    <2>6. 0 - H <= s
      <3>1. s \in Int BY <1>1, <1>2, <2>3
      <3> QED BY <1>1, <2>4, <3>1
    <2>7. w = v % P BY <2>1
    <2>8. CASE v < K
      <3>1. v < P /\ v < H BY <1>1, <2>3, <2>4, <2>5, <2>8
      <3>2. w = v BY <1>1, <2>5, <2>7, <3>1, SmallMod
      <3>3. t = v BY <2>3, <3>1, <3>2
      <3>4. v % Q = v BY <1>1, <2>5, SmallMod
      <3> QED BY <2>2, <2>5, <3>3, <3>4
    <2>9. CASE ~(v < K)
      <3>1. s \in Int /\ s = v - Q /\ s < 0 /\ v = Q + s BY <1>1, <2>3, <2>5, <2>9
      <3>2. 0 - P <= s /\ 0 - Q <= s BY <1>1, <2>5, <2>6, <3>1
      <3>3. (Q + s) % P = s + P
        <4>1. P > 0 /\ Q \in Int BY <1>1
        <4> QED BY <1>1, <3>1, <3>2, <4>1, MultipleMod
      <3>4. w = s + P BY <2>7, <3>1, <3>3
      <3>5. t = s BY <1>1, <2>3, <2>6, <3>1, <3>4
      <3>6. s % Q = s + Q BY <1>1, <3>1, <3>2, NegativeMod
      <3> QED BY <1>1, <2>2, <2>5, <3>1, <3>5, <3>6
    <2> QED BY <2>8, <2>9
  <1> QED BY <1>5, <1>6

\* The remainder that truncates stays below the width: if it is not zero, no
\* masking makes it zero.
LEMMA ShiftNonZero ==
    ASSUME NEW ty \in IntTypes, NEW v \in 0 .. UMax(ty), ShiftAmount(ty, v) # 0
    PROVE  ShiftAmount(ty, v) % Width[ty] # 0
  <1>1. PICK a, w : a = Signed(ty, v) /\ w = Width[ty] OBVIOUS
  <1>2. w \in Nat /\ w > 0 BY <1>1, WidthAssumption DEF IntTypes
  <1>3. v \in Int BY Powers DEF UMax
  <1>4. a \in Int BY <1>1, <1>3, Powers DEF Signed
  <1>5. ShiftAmount(ty, v) = a - w * Quot(a, w) BY <1>1 DEF ShiftAmount, Rem
  <1>6. CASE a >= 0
    <2>1. Abs(a) = a /\ Abs(w) = w BY <1>2, <1>4, <1>6 DEF Abs
    <2>2. (a < 0) = (w < 0) BY <1>2, <1>4, <1>6
    <2>3. Quot(a, w) = a \div w BY <2>1, <2>2 DEF Quot
    <2>4. PICK d \in Int, r \in Int :
             d = a \div w /\ r = a % w /\ 0 <= r /\ r < w /\ a = w * d + r
      BY <1>2, <1>4, DivMod
    <2>5. ShiftAmount(ty, v) = r
      <3>1. ShiftAmount(ty, v) = a - w * d BY <1>5, <2>3, <2>4
      <3> QED BY <1>2, <1>4, <2>4, <3>1
    <2>6. r % w = r BY <1>2, <2>4, SmallMod
    <2> QED BY <1>1, <2>5, <2>6
  <1>7. CASE a < 0
    <2>1. PICK b \in Nat : b = -a BY <1>4, <1>7
    <2>2. Abs(a) = b /\ Abs(w) = w BY <1>2, <1>7, <2>1 DEF Abs
    <2>3. ~((a < 0) = (w < 0)) BY <1>2, <1>4, <1>7
    <2>4. Quot(a, w) = -(b \div w) BY <2>2, <2>3 DEF Quot
    <2>5. PICK d \in Int, r \in Int :
             d = b \div w /\ r = b % w /\ 0 <= r /\ r < w /\ b = w * d + r
      <3>1. b \in Int BY <2>1
      <3> QED BY <1>2, <3>1, DivMod
    <2>6. ShiftAmount(ty, v) = -r
      <3>1. ShiftAmount(ty, v) = a - w * (-d) BY <1>5, <2>4, <2>5
      <3> QED BY <1>2, <1>4, <2>1, <2>5, <3>1
    <2>7. PICK k \in Int : k = -r /\ 0 - w < k /\ k <= 0 BY <1>2, <2>5
    <2>8. k # 0 BY <2>6, <2>7
    <2>9. k % w = k + w BY <1>2, <2>7, <2>8, NegativeMod
    <2> QED BY <1>1, <1>2, <2>6, <2>7, <2>9
  <1> QED BY <1>4, <1>6, <1>7

-----------------------------------------------------------------------------
(* What the translator leaves *)

\* What unsafe code may take for granted of one result of the translator.
NonZeros(x) ==
    /\ (x.k = "instr" /\ x.opcode \in impl_divrem_s_imm16_rhs \cup impl_divrem_u_imm16_rhs)
           => DecodeImm16(x.opcode, x.b) # 0
    /\ (x.k = "instr" /\ x.opcode \in impl_shift_by) => x.b.v % Width[x.opcode[1]] # 0

\* The visitor's table sends every integer division to translate_divrem.
LEMMA DivRemRow ==
    ASSUME NEW ty \in IntTypes, NEW o \in Divs \cup Rems PROVE Rows[ty][o].tr = "divrem"
  <1>1. \A f, g : o \notin DOMAIN f /\ o \in DOMAIN g =>
                     (f ++ g)[o] = g[o] /\ o \in DOMAIN (f ++ g)
    BY DEF ++
  <1>2. \A f, g : o \in DOMAIN f => (f ++ g)[o] = f[o] /\ o \in DOMAIN (f ++ g)
    BY DEF ++
  <1>3. \A f, g : o \notin DOMAIN f /\ o \notin DOMAIN g => o \notin DOMAIN (f ++ g)
    BY DEF ++
  <1>4. CASE ty = "i32"
    <2>1. o \notin DOMAIN i32_equality /\ o \notin DOMAIN i32_lt_gt
      BY DEF Divs, Rems, i32_equality, i32_lt_gt
    <2>2. o \notin DOMAIN i32_le_ge /\ o \notin DOMAIN i32_arithmetic
      BY DEF Divs, Rems, i32_le_ge, i32_arithmetic
    <2>3. o \in DOMAIN i32_divrem /\ i32_divrem[o].tr = "divrem"
      BY DEF Divs, Rems, i32_divrem, Row
    <2> DEFINE front == i32_equality ++ i32_lt_gt ++ i32_le_ge ++ i32_arithmetic
               upTo == front ++ i32_divrem
    <2>4. o \notin DOMAIN front BY <1>3, <2>1, <2>2
    <2> HIDE DEF front
    <2>5. upTo[o] = i32_divrem[o] /\ o \in DOMAIN upTo BY <1>1, <2>3, <2>4
    <2> HIDE DEF upTo
    <2>6. (upTo ++ i32_bitwise ++ i32_shift ++ conversions.i32 ++ extensions.i32)[o] = upTo[o]
      BY <1>2, <2>5
    <2> QED BY <1>4, <2>3, <2>5, <2>6 DEF Rows, upTo, front
  <1>5. CASE ty = "i64"
    <2>1. o \notin DOMAIN i64_equality /\ o \notin DOMAIN i64_lt_gt
      BY DEF Divs, Rems, i64_equality, i64_lt_gt
    <2>2. o \notin DOMAIN i64_le_ge /\ o \notin DOMAIN i64_arithmetic
      BY DEF Divs, Rems, i64_le_ge, i64_arithmetic
    <2>3. o \in DOMAIN i64_divrem /\ i64_divrem[o].tr = "divrem"
      BY DEF Divs, Rems, i64_divrem, Row
    <2> DEFINE front == i64_equality ++ i64_lt_gt ++ i64_le_ge ++ i64_arithmetic
               upTo == front ++ i64_divrem
    <2>4. o \notin DOMAIN front BY <1>3, <2>1, <2>2
    <2> HIDE DEF front
    <2>5. upTo[o] = i64_divrem[o] /\ o \in DOMAIN upTo BY <1>1, <2>3, <2>4
    <2> HIDE DEF upTo
    <2>6. (upTo ++ i64_bitwise ++ i64_shift ++ conversions.i64 ++ extensions.i64)[o] = upTo[o]
      BY <1>2, <2>5
    <2> QED BY <1>5, <2>3, <2>5, <2>6 DEF Rows, upTo, front
  <1> QED BY <1>4, <1>5 DEF IntTypes

\* The first alternative that applies is one of them.
LEMMA FirstOf ==
    ASSUME NEW A, NEW n \in Nat, n \in 1 .. 4, DOMAIN A = 1 .. n, A[n] # {}
    PROVE  \E i \in 1 .. n : First(A) \in A[i]
  <1>1. \E i \in DOMAIN A : A[i] # {} /\ \A j \in 1 .. i - 1 : A[j] = {}
    <2>1. CASE A[1] # {}
      <3>1. 1 \in DOMAIN A /\ 1 .. 1 - 1 = {} OBVIOUS
      <3> QED BY <2>1, <3>1
    <2>2. CASE n >= 2 /\ A[1] = {} /\ A[2] # {}
      <3>1. 2 \in DOMAIN A /\ 1 .. 2 - 1 = {1} BY <2>2
      <3> QED BY <2>2, <3>1
    <2>3. CASE n >= 3 /\ A[1] = {} /\ A[2] = {} /\ A[3] # {}
      <3>1. 3 \in DOMAIN A /\ 1 .. 3 - 1 = {1, 2} BY <2>3
      <3> QED BY <2>3, <3>1
    <2>4. CASE n = 4 /\ A[1] = {} /\ A[2] = {} /\ A[3] = {}
      <3>1. 4 \in DOMAIN A /\ 1 .. 4 - 1 = {1, 2, 3} BY <2>4
      <3> QED BY <2>4, <3>1
    <2> QED BY <2>1, <2>2, <2>3, <2>4
  <1> DEFINE i == CHOOSE i \in DOMAIN A : A[i] # {} /\ \A j \in 1 .. i - 1 : A[j] = {}
  <1>2. i \in 1 .. n /\ A[i] # {} BY <1>1
  <1>3. First(A) = CHOOSE x \in A[i] : TRUE BY DEF First
  <1> HIDE DEF i
  <1> QED BY <1>2, <1>3

\* Only an instruction can break the promise, and only one of two forms.
LEMMA Harmless ==
    ASSUME NEW x,
           x.k # "instr" \/ \E ty, o, form, a, b : /\ x = Instr(ty, o, form, a, b)
                                                   /\ form \notin {"imm16", "by"}
    PROVE  NonZeros(x)
  <1>1. CASE x.k # "instr" BY <1>1 DEF NonZeros
  <1>2. CASE \E ty, o, form, a, b : x = Instr(ty, o, form, a, b) /\ form \notin {"imm16", "by"}
    <2>1. PICK ty, o, form, a, b : x = Instr(ty, o, form, a, b) /\ form \notin {"imm16", "by"}
      BY <1>2
    <2>2. x.opcode = <<ty, o, form>> BY <2>1 DEF Instr
    <2> QED BY <2>1, <2>2 DEF NonZeros, impl_divrem_s_imm16_rhs, impl_divrem_u_imm16_rhs,
                              impl_shift_by
  <1> QED BY <1>1, <1>2

\* A 16-bit constant: of an operator that is no division, or not zero.
LEMMA SmallConstant ==
    ASSUME NEW o, NEW lhs, NEW v, NEW x \in try_push_binary_instr_imm16(o, lhs, v),
           \/ o \notin Divs \cup Rems \/ op[1] \notin IntTypes
           \/ op[1] \in IntTypes /\ v \in 0 .. UMax(op[1]) /\ v # 0
    PROVE  NonZeros(x)
  <1>1. PICK ty : ty = op[1] OBVIOUS
  <1>2. PICK opcode : opcode = <<ty, o, "imm16">> OBVIOUS
  <1>3. Fits(opcode, v) /\ x = Instr(ty, o, "imm16", lhs, EncodeImm16(v))
    BY <1>1, <1>2 DEF try_push_binary_instr_imm16
  <1>4. x.k = "instr" /\ x.opcode = opcode /\ x.b = EncodeImm16(v)
    BY <1>2, <1>3 DEF Instr
  <1>5. opcode \notin impl_shift_by BY <1>2 DEF impl_shift_by
  <1>6. CASE o \notin Divs \cup Rems \/ ty \notin IntTypes
    <2>1. opcode \notin impl_divrem_s_imm16_rhs \cup impl_divrem_u_imm16_rhs
      BY <1>2, <1>6 DEF impl_divrem_s_imm16_rhs, impl_divrem_u_imm16_rhs, Divs, Rems
    <2> QED BY <1>4, <1>5, <2>1 DEF NonZeros
  <1>7. CASE ty \in IntTypes /\ v \in 0 .. UMax(ty) /\ v # 0
    <2>1. DecodeImm16(opcode, EncodeImm16(v)) # 0 BY <1>2, <1>3, <1>7, ImmediateNonZero
    <2> QED BY <1>4, <1>5, <2>1 DEF NonZeros
  <1> QED BY <1>1, <1>6, <1>7

\* A difference that became a sum.
LEMMA Added == ASSUME NEW reg, NEW v PROVE NonZeros(AddNegatedTo(reg, v))
  <1>1. PICK neg, imm, x : /\ neg = Wrap(op[1], -v)
                           /\ imm = try_push_binary_instr_imm16("add", reg, neg)
                           /\ x = AddNegatedTo(reg, v)
    OBVIOUS
  <1>2. CASE imm # {}
    <2>1. x \in imm BY <1>1, <1>2 DEF AddNegatedTo
    <2>2. "add" \notin Divs \cup Rems BY DEF Divs, Rems
    <2> QED BY <1>1, <2>1, <2>2, SmallConstant
  <1>3. CASE imm = {}
    <2>1. x = Instr(op[1], "add", "rr", reg, Const(neg))
      BY <1>1, <1>3 DEF AddNegatedTo, push_binary_instr_imm
    <2>2. PICK ty : ty = op[1] OBVIOUS
    <2> QED BY <1>1, <2>1, <2>2, Harmless
  <1> QED BY <1>2, <1>3

\* What the visitor's table answers.
LEMMA AnswersHarmless ==
    ASSUME NEW answers, NEW reg, NEW v, reg.k # "instr", NEW x \in Answered(answers, reg, v)
    PROVE  NonZeros(x)
  <1>1. PICK y \in answers :
           x = IF y.k = "const" THEN Const(y.v) ELSE IF y.k = "operand" THEN reg
               ELSE AddNegatedTo(reg, v)
    BY DEF Answered
  <1>2. CASE y.k = "const"
    <2>1. x.k # "instr" BY <1>1, <1>2 DEF Const
    <2> QED BY <2>1, Harmless
  <1>3. CASE y.k # "const" /\ y.k = "operand" BY <1>1, <1>3, Harmless
  <1>4. CASE y.k # "const" /\ y.k # "operand" BY <1>1, <1>4, Added
  <1> QED BY <1>2, <1>3, <1>4

\* If every alternative keeps the promise, so does the first that applies.
LEMMA FirstKept ==
    ASSUME NEW A, NEW n \in 1 .. 4, DOMAIN A = 1 .. n, A[n] # {},
           \A i \in 1 .. n : \A x \in A[i] : NonZeros(x)
    PROVE  NonZeros(First(A))
  <1>1. PICK i \in 1 .. n : First(A) \in A[i] BY FirstOf
  <1> QED BY <1>1

\* Two alternatives.
LEMMA FirstOfTwo ==
    ASSUME NEW a, NEW b, b # {}, \A x \in a \cup b : NonZeros(x)
    PROVE  NonZeros(First(<<a, b>>))
  <1>1. PICK A : A = <<a, b>> OBVIOUS
  <1>2. DOMAIN A = 1 .. 2 /\ A[1] = a /\ A[2] = b BY <1>1
  <1>3. \A i \in 1 .. 2 : \A x \in A[i] : NonZeros(x)
    <2>1. 1 .. 2 = {1, 2} OBVIOUS
    <2> QED BY <1>2, <2>1
  <1>4. 2 \in 1 .. 4 OBVIOUS
  <1> QED BY <1>1, <1>2, <1>3, <1>4, FirstKept

\* Three.
LEMMA FirstOfThree ==
    ASSUME NEW a, NEW b, NEW c, c # {}, \A x \in a \cup b \cup c : NonZeros(x)
    PROVE  NonZeros(First(<<a, b, c>>))
  <1>1. PICK A : A = <<a, b, c>> OBVIOUS
  <1>2. DOMAIN A = 1 .. 3 /\ A[1] = a /\ A[2] = b /\ A[3] = c BY <1>1
  <1>3. \A i \in 1 .. 3 : \A x \in A[i] : NonZeros(x)
    <2>1. 1 .. 3 = {1, 2, 3} OBVIOUS
    <2> QED BY <1>2, <2>1
  <1>4. 3 \in 1 .. 4 OBVIOUS
  <1> QED BY <1>1, <1>2, <1>3, <1>4, FirstKept

\* Four.
LEMMA FirstOfFour ==
    ASSUME NEW a, NEW b, NEW c, NEW d, d # {}, \A x \in a \cup b \cup c \cup d : NonZeros(x)
    PROVE  NonZeros(First(<<a, b, c, d>>))
  <1>1. PICK A : A = <<a, b, c, d>> OBVIOUS
  <1>2. DOMAIN A = 1 .. 4 /\ A[1] = a /\ A[2] = b /\ A[3] = c /\ A[4] = d BY <1>1
  <1>3. \A i \in 1 .. 4 : \A x \in A[i] : NonZeros(x)
    <2>1. 1 .. 4 = {1, 2, 3, 4} OBVIOUS
    <2> QED BY <1>2, <2>1
  <1>4. 4 \in 1 .. 4 OBVIOUS
  <1> QED BY <1>1, <1>2, <1>3, <1>4, FirstKept

\* Two registers.
LEMMA RegRegKept == ASSUME IsReg(args[1]) PROVE NonZeros(RegReg)
  <1>1. PICK a1, a2, ty, o, answers : /\ a1 = args[1] /\ a2 = args[2] /\ ty = op[1] /\ o = op[2]
                                      /\ answers = row.same
    OBVIOUS
  <1>2. PICK same, instr : /\ same = IF a1 = a2 THEN Answered(answers, a1, 0) ELSE {}
                           /\ instr = Instr(ty, o, "rr", a1, a2)
    OBVIOUS
  <1>3. RegReg = First(<<same, {instr}>>) BY <1>1, <1>2 DEF RegReg, push_binary_instr
  <1>4. a1.k # "instr" BY <1>1 DEF IsReg
  <1>5. \A x \in same : NonZeros(x) BY <1>2, <1>4, AnswersHarmless
  <1>6. NonZeros(instr) BY <1>2, Harmless
  <1>7. \A x \in same \cup {instr} : NonZeros(x) BY <1>5, <1>6
  <1> QED BY <1>3, <1>7, FirstOfTwo

\* A register and a constant, which is not zero if it divides.
LEMMA RegImmKept ==
    ASSUME NEW reg, NEW v, reg.k # "instr",
           \/ op[2] \notin Divs \cup Rems \/ op[1] \notin IntTypes
           \/ op[1] \in IntTypes /\ v \in 0 .. UMax(op[1]) /\ v # 0
    PROVE  NonZeros(RegImm(reg, v))
  <1>1. PICK ty, o : ty = op[1] /\ o = op[2] OBVIOUS
  <1>2. PICK known, other, imm : /\ known = Answered(Opt(row.rhs, v), reg, v)
                                 /\ other = Answered(row.other, reg, v)
                                 /\ imm = try_push_binary_instr_imm16(o, reg, v)
    OBVIOUS
  <1>3. PICK instr : instr = Instr(ty, o, "rr", reg, Const(v)) OBVIOUS
  <1>4. RegImm(reg, v) = First(<<known, other, imm, {instr}>>)
    BY <1>1, <1>2, <1>3 DEF RegImm, push_binary_instr_imm
  <1>5. PICK s, t : s = Opt(row.rhs, v) /\ t = row.other OBVIOUS
  <1>6. \A x \in known : NonZeros(x) BY <1>2, <1>5, AnswersHarmless
  <1>7. \A x \in other : NonZeros(x) BY <1>2, <1>5, AnswersHarmless
  <1>8. \A x \in imm : NonZeros(x) BY <1>1, <1>2, SmallConstant
  <1>9. NonZeros(instr) BY <1>3, Harmless
  <1>10. \A x \in known \cup other \cup imm \cup {instr} : NonZeros(x)
    BY <1>6, <1>7, <1>8, <1>9
  <1> QED BY <1>4, <1>10, FirstOfFour

\* A constant on the left: a division by a register, or a comparison that has
\* changed places.
LEMMA ReversedKept ==
    ASSUME NEW o, NEW v, NEW rhs, NEW x \in try_push_binary_instr_imm16_rev(o, v, rhs)
    PROVE  NonZeros(x)
  <1>1. CASE o \in Orders
    <2>1. o \notin Divs \cup Rems BY <1>1 DEF Orders, Divs, Rems
    <2>2. x \in try_push_binary_instr_imm16(o, rhs, v)
      BY <1>1 DEF try_push_binary_instr_imm16_rev
    <2> QED BY <2>1, <2>2, SmallConstant
  <1>2. CASE o \notin Orders
    <2>1. PICK ty : ty = op[1] OBVIOUS
    <2>2. x = Instr(ty, o, "imm16_lhs", EncodeImm16(v), rhs)
      BY <1>2, <2>1 DEF try_push_binary_instr_imm16_rev
    <2> QED BY <2>2, Harmless
  <1> QED BY <1>1, <1>2

-----------------------------------------------------------------------------
(* The invariant and the steps *)

\* Divisions come to translate_divrem, operands are providers, constants have the operator's type, and
\* what was left so far keeps the promise.
VisitInv ==
    /\ (op[1] \in IntTypes /\ op[2] \in Divs \cup Rems) => row.tr = "divrem"
    /\ (op[1] \in IntTypes /\ row.tr \notin Unary /\ IsConst(args[2])) =>
           args[2].v \in 0 .. UMax(op[1])
    /\ IsReg(args[1]) \/ IsConst(args[1])
    /\ NonZeros(out)

\* Nothing is left yet.
LEMMA InitVisit == Init => VisitInv
  <1> SUFFICES ASSUME Init PROVE VisitInv OBVIOUS
  <1>1. PICK ty \in Types : \E o \in DOMAIN Rows[ty] :
              /\ op = <<ty, o>> /\ row = Rows[ty][o]
              /\ IF row.tr \in Unary
                 THEN \E v \in Values(ty) : /\ regs = <<v, v>>
                                            /\ args \in {<<Reg(1)>>, <<Const(v)>>}
                 ELSE \E v, w \in Samples[ty] : /\ regs = <<v, w>>
                                                /\ args \in Providers(v, w)
    BY DEF Init
  <1>2. PICK o : /\ op = <<ty, o>> /\ row = Rows[ty][o]
                 /\ row.tr \notin Unary =>
                        \E v, w \in Samples[ty] : args \in Providers(v, w)
    BY <1>1
  <1>3. op[1] = ty /\ op[2] = o BY <1>2
  <1>4. (ty \in IntTypes /\ o \in Divs \cup Rems) => row.tr = "divrem" BY <1>2, DivRemRow
  <1>5. ASSUME ty \in IntTypes, row.tr \notin Unary, IsConst(args[2])
        PROVE  args[2].v \in 0 .. UMax(ty)
    <2>1. PICK v \in Samples[ty], w \in Samples[ty] : args \in Providers(v, w) BY <1>2, <1>5
    <2>2. args[2] \in {Reg(1), Reg(2), Const(w)}
      <3>1. \/ args = <<Reg(1), Reg(2)>> \/ args = <<Reg(1), Const(w)>>
            \/ args = <<Const(v), Reg(2)>> \/ args = <<Const(v), Const(w)>>
            \/ args = <<Reg(1), Reg(1)>>
        BY <2>1 DEF Providers
      <3> QED BY <3>1
    <2>3. args[2] = Const(w) BY <1>5, <2>2 DEF Reg, Const, IsConst
    <2>4. w \in 0 .. UMax(ty) BY <1>5, <2>1, SamplesAssumption
    <2> QED BY <2>3, <2>4 DEF Const
  <1>6. NonZeros(out)
    <2>1. out.k # "instr" BY DEF Init, NotYet
    <2>2. PICK x : x = out OBVIOUS
    <2> QED BY <2>1, <2>2, Harmless
  <1>7. IsReg(args[1]) \/ IsConst(args[1])
    <2>1. \E v, w, r : args \in {<<Reg(1)>>, <<Const(v)>>, <<Reg(1), r>>, <<Const(v), Reg(2)>>,
                                <<Const(v), Const(w)>>}
      BY <1>1 DEF Providers
    <2> QED BY <2>1 DEF IsReg, IsConst, Reg, Const
  <1> QED BY <1>3, <1>4, <1>5, <1>6, <1>7 DEF VisitInv

\* A translate method that leaves something that keeps the promise.
LEMMA Left ==
    ASSUME VisitInv, NEW tr, Translate(tr), NEW x, out' = x, NonZeros(x) PROVE VisitInv'
  <1>1. op' = op /\ row' = row /\ args' = args BY DEF Translate
  <1>2. NonZeros(out') OBVIOUS
  <1> QED BY <1>1, <1>2 DEF VisitInv, NonZeros, IsReg, IsConst

\* A step that leaves the result alone.
LEMMA Kept == ASSUME VisitInv, UNCHANGED <<op, row, args, out>> PROVE VisitInv'
  BY DEF VisitInv, NonZeros, IsReg, IsConst

\* Constants and traps.
LEMMA NoInstr ==
    /\ \A v : NonZeros(Const(v)) /\ \A code : NonZeros(Trapped(code))
    /\ \A r : NonZeros(ConstOrTrap(r))
    /\ \A x : IsReg(x) \/ IsConst(x) => NonZeros(x) /\ x.k # "instr"
  <1>1. \A v : Const(v).k # "instr" BY DEF Const
  <1>2. \A code : Trapped(code).k # "instr" BY DEF Trapped
  <1>3. \A x : IsReg(x) \/ IsConst(x) => x.k # "instr" BY DEF IsReg, IsConst
  <1>4. \A v : NonZeros(Const(v)) BY <1>1, Harmless
  <1>5. \A code : NonZeros(Trapped(code)) BY <1>2, Harmless
  <1>6. \A x : IsReg(x) \/ IsConst(x) => NonZeros(x) BY <1>3, Harmless
  <1> QED BY <1>3, <1>4, <1>5, <1>6 DEF ConstOrTrap

\* An instruction on registers, or on a register and a constant that has one.
LEMMA Registers ==
    /\ \A o, a, b : NonZeros(push_binary_instr(o, a, b))
    /\ \A o, a, v : NonZeros(push_binary_instr_imm(o, a, v))
    /\ \A o, v, b : NonZeros(push_binary_instr_imm_rev(o, v, b))
  <1>1. PICK ty : ty = op[1] OBVIOUS
  <1>2. \A o, a, b : NonZeros(Instr(ty, o, "rr", a, b)) BY Harmless
  <1> QED BY <1>1, <1>2 DEF push_binary_instr, push_binary_instr_imm, push_binary_instr_imm_rev

\* Operators of translate_binary and its relatives are no divisions.
NoDivision == op[2] \notin Divs \cup Rems \/ op[1] \notin IntTypes

\* translate_binary
LEMMA BinaryStep == ASSUME VisitInv, translate_binary PROVE VisitInv'
  <1>1. Translate("binary") BY DEF translate_binary
  <1>2. NoDivision BY <1>1 DEF Translate, VisitInv, NoDivision
  <1>3. NonZeros(out')
    <2>1. CASE IsReg(args[1]) /\ out' = RegReg BY <2>1, RegRegKept
    <2>2. CASE IsReg(args[1]) /\ out' = RegImm(args[1], args[2].v)
      <3>1. PICK r, v : r = args[1] /\ v = args[2].v OBVIOUS
      <3>2. r.k # "instr" BY <2>2, <3>1, NoInstr
      <3> QED BY <1>2, <2>2, <3>1, <3>2, RegImmKept DEF NoDivision
    <2>3. CASE /\ IsReg(args[2])
               /\ out' = First(<< Answered(Opt(row.lhs, args[1].v), args[2], args[1].v),
                                  try_push_binary_instr_imm16_rev(row.rev, args[1].v, args[2]),
                                  {push_binary_instr_imm_rev(op[2], args[1].v, args[2])} >>)
      <3>1. PICK v, r, o, rev, opt : /\ v = args[1].v /\ r = args[2] /\ o = op[2] /\ rev = row.rev
                                     /\ opt = Opt(row.lhs, v)
        OBVIOUS
      <3>2. PICK a, b, x : /\ a = Answered(opt, r, v) /\ b = try_push_binary_instr_imm16_rev(rev, v, r)
                           /\ x = push_binary_instr_imm_rev(o, v, r)
        OBVIOUS
      <3>3. out' = First(<<a, b, {x}>>) BY <2>3, <3>1, <3>2
      <3>4. r.k # "instr" BY <2>3, <3>1, NoInstr
      <3>5. \A y \in a : NonZeros(y) BY <3>2, <3>4, AnswersHarmless
      <3>6. \A y \in b : NonZeros(y) BY <3>2, ReversedKept
      <3>7. NonZeros(x) BY <3>2, Registers
      <3>8. \A y \in a \cup b \cup {x} : NonZeros(y) BY <3>5, <3>6, <3>7
      <3> QED BY <3>3, <3>8, FirstOfThree
    <2>4. CASE out' = push_binary_consteval BY <2>4, NoInstr DEF push_binary_consteval
    <2> QED BY <2>1, <2>2, <2>3, <2>4 DEF translate_binary, Both
  <1>4. PICK x : x = out' OBVIOUS
  <1> QED BY <1>1, <1>3, <1>4, Left

\* A constant that is a NaN is the result.
LEMMA NaNKept == \A v : \A x \in PropagateNaN(v) : NonZeros(x)
  BY NoInstr DEF PropagateNaN

\* translate_fbinary and translate_fbinary_commutative: an answer of the table,
\* a NaN or an instruction on registers.
LEMMA FloatKept ==
    ASSUME NEW pairs, NEW r, NEW v, NEW c, IsReg(r), NonZeros(c)
    PROVE  NonZeros(First(<< Answered(Opt(pairs, v), r, 0), PropagateNaN(v), {c} >>))
  <1>1. PICK opt, a, b : opt = Opt(pairs, v) /\ a = Answered(opt, r, 0) /\ b = PropagateNaN(v)
    OBVIOUS
  <1>2. \A x \in a : NonZeros(x) BY <1>1, NoInstr, AnswersHarmless
  <1>3. \A x \in b : NonZeros(x) BY <1>1, NaNKept
  <1>4. \A x \in a \cup b \cup {c} : NonZeros(x) BY <1>2, <1>3
  <1>5. NonZeros(First(<<a, b, {c}>>)) BY <1>4, FirstOfThree
  <1> QED BY <1>1, <1>5

\* translate_fbinary
LEMMA FBinaryStep == ASSUME VisitInv, translate_fbinary PROVE VisitInv'
  <1>1. Translate("fbinary") BY DEF translate_fbinary
  <1>2. NonZeros(out')
    <2>1. CASE IsReg(args[1]) /\ out' = RegReg BY <2>1, RegRegKept
    <2>2. CASE /\ IsReg(args[1])
               /\ out' = First(<< Answered(Opt(row.rhs, args[2].v), args[1], 0),
                                  PropagateNaN(args[2].v),
                                  {push_binary_instr_imm(op[2], args[1], args[2].v)} >>)
      <3>1. PICK pairs, r, v, c : /\ pairs = row.rhs /\ r = args[1] /\ v = args[2].v
                                  /\ c = push_binary_instr_imm(op[2], args[1], args[2].v)
        OBVIOUS
      <3>2. NonZeros(c) BY <3>1, Registers
      <3>3. IsReg(r) BY <2>2, <3>1
      <3>4. NonZeros(First(<< Answered(Opt(pairs, v), r, 0), PropagateNaN(v), {c} >>))
        BY <3>2, <3>3, FloatKept
      <3> QED BY <2>2, <3>1, <3>4
    <2>3. CASE /\ IsReg(args[2])
               /\ out' = First(<< Answered(Opt(row.lhs, args[1].v), args[2], 0),
                                  PropagateNaN(args[1].v),
                                  {push_binary_instr_imm_rev(op[2], args[1].v, args[2])} >>)
      <3>1. PICK pairs, r, v, c : /\ pairs = row.lhs /\ r = args[2] /\ v = args[1].v
                                  /\ c = push_binary_instr_imm_rev(op[2], args[1].v, args[2])
        OBVIOUS
      <3>2. NonZeros(c) BY <3>1, Registers
      <3>3. IsReg(r) BY <2>3, <3>1
      <3>4. NonZeros(First(<< Answered(Opt(pairs, v), r, 0), PropagateNaN(v), {c} >>))
        BY <3>2, <3>3, FloatKept
      <3> QED BY <2>3, <3>1, <3>4
    <2>4. CASE out' = push_binary_consteval BY <2>4, NoInstr DEF push_binary_consteval
    <2> QED BY <2>1, <2>2, <2>3, <2>4 DEF translate_fbinary, Both
  <1>3. PICK x : x = out' OBVIOUS
  <1> QED BY <1>1, <1>2, <1>3, Left

\* translate_fcopysign
LEMMA CopysignStep == ASSUME VisitInv, translate_fcopysign PROVE VisitInv'
  <1>1. Translate("copysign") BY DEF translate_fcopysign
  <1>2. NonZeros(out')
    <2>1. CASE IsReg(args[1]) /\ out' = args[1] BY <2>1, NoInstr
    <2>2. CASE out' = push_binary_instr("copysign", args[1], args[2]) BY <2>2, Registers
    <2>3. CASE out' = Instr(op[1], "copysign", "sign", args[1], Imm(args[2].v.s))
      <3>1. PICK ty, a, b : ty = op[1] /\ a = args[1] /\ b = Imm(args[2].v.s) OBVIOUS
      <3>2. NonZeros(Instr(ty, "copysign", "sign", a, b)) BY Harmless
      <3> QED BY <2>3, <3>1, <3>2
    <2>4. CASE out' = push_binary_instr_imm_rev("copysign", args[1].v, args[2])
      BY <2>4, Registers
    <2>5. CASE out' = push_binary_consteval BY <2>5, NoInstr DEF push_binary_consteval
    <2> QED BY <2>1, <2>2, <2>3, <2>4, <2>5 DEF translate_fcopysign, Both
  <1>3. PICK x : x = out' OBVIOUS
  <1> QED BY <1>1, <1>2, <1>3, Left

\* translate_binary_commutative
LEMMA CommutativeStep == ASSUME VisitInv, translate_binary_commutative PROVE VisitInv'
  <1>1. Translate("commutative") BY DEF translate_binary_commutative
  <1>2. NoDivision BY <1>1 DEF Translate, VisitInv, NoDivision
  <1>3. \A r, v : IsReg(r) => NonZeros(RegImm(r, v))
    BY <1>2, NoInstr, RegImmKept DEF NoDivision
  <1>4. NonZeros(out')
    BY <1>3, RegRegKept, NoInstr DEF translate_binary_commutative, Both, push_binary_consteval
  <1>5. PICK x : x = out' OBVIOUS
  <1> QED BY <1>1, <1>4, <1>5, Left

\* translate_fbinary_commutative
LEMMA FCommutativeStep == ASSUME VisitInv, translate_fbinary_commutative PROVE VisitInv'
  <1>1. Translate("fcommutative") BY DEF translate_fbinary_commutative
  <1>2. ASSUME NEW r, NEW v, IsReg(r) PROVE NonZeros(FloatRegImm(r, v))
    <2>1. PICK pairs, c : pairs = row.rhs /\ c = push_binary_instr_imm(op[2], r, v) OBVIOUS
    <2>2. NonZeros(c) BY <2>1, Registers
    <2>3. NonZeros(First(<< Answered(Opt(pairs, v), r, 0), PropagateNaN(v), {c} >>))
      BY <1>2, <2>2, FloatKept
    <2> QED BY <2>1, <2>3 DEF FloatRegImm
  <1>3. NonZeros(out')
    BY <1>2, RegRegKept, NoInstr DEF translate_fbinary_commutative, Both, push_binary_consteval
  <1>4. PICK x : x = out' OBVIOUS
  <1> QED BY <1>1, <1>3, <1>4, Left

\* translate_shift: the amount is reduced, and dropped if that leaves nothing.
LEMMA ShiftStep == ASSUME VisitInv, translate_shift PROVE VisitInv'
  <1>1. Translate("shift") BY DEF translate_shift
  <1>2. NonZeros(out')
    <2>1. CASE out' = push_binary_instr(op[2], args[1], args[2]) BY <2>1, Registers
    <2>2. CASE /\ Both(IsReg, IsConst)
               /\ out' = LET k == ShiftAmount(op[1], args[2].v)
                         IN IF k = 0 THEN args[1]
                            ELSE Instr(op[1], op[2], "by", args[1], Imm(k))
      <3>1. PICK ty, o, a, v, k, x :
               /\ ty = op[1] /\ o = op[2] /\ a = args[1] /\ v = args[2].v
               /\ k = ShiftAmount(ty, v) /\ x = out'
        OBVIOUS
      <3>2. IsReg(a) /\ x = IF k = 0 THEN a ELSE Instr(ty, o, "by", a, Imm(k))
        BY <2>2, <3>1 DEF Both
      <3>3. CASE k = 0 BY <3>1, <3>2, <3>3, NoInstr
      <3>4. CASE k # 0
        <4>1. x.k = "instr" /\ x.opcode = <<ty, o, "by">> /\ x.b.v = k
          BY <3>2, <3>4 DEF Instr, Imm
        <4>2. x.opcode \notin impl_divrem_s_imm16_rhs \cup impl_divrem_u_imm16_rhs
          BY <4>1 DEF impl_divrem_s_imm16_rhs, impl_divrem_u_imm16_rhs
        <4>3. ASSUME ty \in IntTypes PROVE k % Width[ty] # 0
          <5>1. "shift" \notin Unary BY DEF Unary
          <5>2. row.tr = "shift" BY <1>1 DEF Translate
          <5>3. v \in 0 .. UMax(ty) BY <2>2, <3>1, <4>3, <5>1, <5>2 DEF VisitInv, Both
          <5> QED BY <3>1, <3>4, <4>3, <5>3, ShiftNonZero
        <4>4. x.opcode \in impl_shift_by => ty \in IntTypes BY <4>1 DEF impl_shift_by
        <4>5. x.opcode[1] = ty BY <4>1
        <4>6. NonZeros(x) BY <4>1, <4>2, <4>3, <4>4, <4>5 DEF NonZeros
        <4> QED BY <3>1, <4>6
      <3> QED BY <3>3, <3>4
    <2>3. CASE /\ Both(IsConst, IsReg)
               /\ out' = First(<< Answered(Opt(row.lhs, args[1].v), args[2], 0),
                                  IF args[1].v = 0 THEN {args[1]} ELSE {},
                                  try_push_binary_instr_imm16_rev(op[2], args[1].v, args[2]),
                                  {push_binary_instr_imm_rev(op[2], args[1].v, args[2])} >>)
      <3>1. PICK l, v, r, o, opt : /\ l = args[1] /\ v = args[1].v /\ r = args[2] /\ o = op[2]
                                   /\ opt = Opt(row.lhs, v)
        OBVIOUS
      <3>2. PICK a, b, c, x : /\ a = Answered(opt, r, 0) /\ b = (IF v = 0 THEN {l} ELSE {})
                              /\ c = try_push_binary_instr_imm16_rev(o, v, r)
                              /\ x = push_binary_instr_imm_rev(o, v, r)
        OBVIOUS
      <3>3. out' = First(<<a, b, c, {x}>>) BY <2>3, <3>1, <3>2
      <3>4. IsReg(r) /\ IsConst(l) BY <2>3, <3>1 DEF Both
      <3>5. \A y \in a : NonZeros(y) BY <3>2, <3>4, NoInstr, AnswersHarmless
      <3>6. \A y \in b : NonZeros(y) BY <3>2, <3>4, NoInstr
      <3>7. \A y \in c : NonZeros(y) BY <3>2, ReversedKept
      <3>8. NonZeros(x) BY <3>2, Registers
      <3>9. \A y \in a \cup b \cup c \cup {x} : NonZeros(y) BY <3>5, <3>6, <3>7, <3>8
      <3> QED BY <3>3, <3>9, FirstOfFour
    <2>4. CASE out' = push_binary_consteval BY <2>4, NoInstr DEF push_binary_consteval
    <2> QED BY <2>1, <2>2, <2>3, <2>4 DEF translate_shift
  <1>3. PICK x : x = out' OBVIOUS
  <1> QED BY <1>1, <1>2, <1>3, Left

\* translate_divrem: a zero divisor is a trap, so that what is encoded is none.
LEMMA DivRemStep == ASSUME VisitInv, translate_divrem PROVE VisitInv'
  <1>1. Translate("divrem") BY DEF translate_divrem
  <1>2. NonZeros(out')
    <2>1. CASE IsReg(args[1]) /\ out' = RegReg BY <2>1, RegRegKept
    <2>2. CASE /\ Both(IsReg, IsConst)
               /\ out' = IF args[2].v = 0 THEN Trapped("IntegerDivisionByZero")
                         ELSE RegImm(args[1], args[2].v)
      <3>1. PICK r, v : r = args[1] /\ v = args[2].v OBVIOUS
      <3>2. r.k # "instr" BY <2>2, <3>1, NoInstr DEF Both
      <3>3. CASE v = 0 BY <2>2, <3>1, <3>3, NoInstr
      <3>4. CASE v # 0
        <4>1. "divrem" \notin Unary BY DEF Unary
        <4>2. row.tr = "divrem" BY <1>1 DEF Translate
        <4>3. op[1] \in IntTypes => v \in 0 .. UMax(op[1])
          BY <2>2, <3>1, <4>1, <4>2 DEF VisitInv, Both
        <4>4. NonZeros(RegImm(r, v)) BY <3>2, <3>4, <4>3, RegImmKept
        <4> QED BY <2>2, <3>1, <3>4, <4>4
      <3> QED BY <3>3, <3>4
    <2>3. CASE out' = First(<< try_push_binary_instr_imm16_rev(op[2], args[1].v, args[2]),
                               {push_binary_instr_imm_rev(op[2], args[1].v, args[2])} >>)
      <3>1. PICK v, r, o : v = args[1].v /\ r = args[2] /\ o = op[2] OBVIOUS
      <3>2. PICK a, x : /\ a = try_push_binary_instr_imm16_rev(o, v, r)
                        /\ x = push_binary_instr_imm_rev(o, v, r)
        OBVIOUS
      <3>3. out' = First(<<a, {x}>>) BY <2>3, <3>1, <3>2
      <3>4. \A y \in a : NonZeros(y) BY <3>2, ReversedKept
      <3>5. NonZeros(x) BY <3>2, Registers
      <3>6. \A y \in a \cup {x} : NonZeros(y) BY <3>4, <3>5
      <3> QED BY <3>3, <3>6, FirstOfTwo
    <2>4. CASE out' = ConstOrTrap(consteval) BY <2>4, NoInstr
    <2> QED BY <2>1, <2>2, <2>3, <2>4 DEF translate_divrem, Both
  <1>3. PICK x : x = out' OBVIOUS
  <1> QED BY <1>1, <1>2, <1>3, Left

\* The methods of one operand emit an instruction of one register.
LEMMA UnaryStep ==
    ASSUME VisitInv, translate_unary \/ translate_unary_fallible \/ translate_reinterpret
    PROVE  VisitInv'
  <1>1. PICK tr : Translate(tr)
    BY DEF translate_unary, translate_unary_fallible, translate_reinterpret
  <1>2. \A ty, o, a : NonZeros(Instr(ty, o, "unary", a, a)) BY Harmless
  <1>3. NonZeros(out')
    BY <1>2, NoInstr
    DEF VisitInv, translate_unary, translate_unary_fallible, translate_reinterpret
  <1>4. PICK x : x = out' OBVIOUS
  <1> QED BY <1>1, <1>3, <1>4, Left

\* The executor leaves the instruction as it is.
LEMMA ExecuteStep ==
    ASSUME VisitInv, NEW opcodes, Dispatch(opcodes) PROVE VisitInv'
  BY Kept DEF Dispatch

\* Each action keeps the invariant.
LEMMA NextVisit == ASSUME VisitInv, [Next]_vars PROVE VisitInv'
  <1>1. CASE \/ translate_binary \/ translate_fbinary \/ translate_fcopysign
             \/ translate_binary_commutative \/ translate_fbinary_commutative
             \/ translate_shift \/ translate_divrem
    BY <1>1, BinaryStep, FBinaryStep, CopysignStep, CommutativeStep, FCommutativeStep, ShiftStep,
       DivRemStep
  <1>2. CASE translate_unary \/ translate_unary_fallible \/ translate_reinterpret
    BY <1>2, UnaryStep
  <1>3. CASE \/ execute_unary \/ try_execute_unary \/ execute_binary \/ execute_binary_imm16
             \/ execute_binary_imm16_lhs \/ execute_shift_by \/ try_execute_binary
             \/ try_execute_divrem_imm16_rhs \/ execute_divrem_imm16_rhs
             \/ try_execute_binary_imm16_lhs \/ execute_copysign_imm
    <2>1. \E opcodes : Dispatch(opcodes)
      BY <1>3 DEF execute_unary, try_execute_unary, execute_binary, execute_binary_imm16,
                  execute_binary_imm16_lhs, execute_shift_by, try_execute_binary,
                  try_execute_divrem_imm16_rhs, execute_divrem_imm16_rhs,
                  try_execute_binary_imm16_lhs, execute_copysign_imm
    <2> QED BY <2>1, ExecuteStep
  <1>4. CASE Done \/ UNCHANGED vars BY <1>4, Kept DEF Done, vars
  <1> QED BY <1>1, <1>2, <1>3, <1>4 DEF Next

-----------------------------------------------------------------------------
(* The results *)

\* Every integer division is visited by translate_divrem, and whatever was left
\* for an operator keeps the promise.
THEOREM Invariance == Spec => []VisitInv
  BY InitVisit, NextVisit, PTL DEF Spec

\* NonZero::new_unchecked and the shift amounts: for all widths and operands no
\* zero is encoded where the executor takes it for excluded, although the test
\* is made on the whole constant and the instruction keeps 16 bits of it.
THEOREM NonZeroConstants == Spec => []UncheckedNonZero
  <1>1. VisitInv => UncheckedNonZero BY DEF VisitInv, NonZeros, UncheckedNonZero
  <1> QED BY <1>1, Invariance, PTL

-----------------------------------------------------------------------------
(* Comparisons and branches: bits *)

\* The bits of an i32 are below its width.
LEMMA LowBits ==
    ASSUME NEW v \in 0 .. UMax("i32")
    PROVE  \A i \in 0 .. Width["i64"] : (v \div 2^i) % 2 = 1 => i \in 0 .. Width["i32"] - 1
  <1> SUFFICES ASSUME NEW i \in 0 .. Width["i64"], i >= Width["i32"] PROVE (v \div 2^i) % 2 # 1
    BY WidthAssumption
  <1> DEFINE P == 2^Width["i32"]
             m == 2^i
  <1>1. P <= m
    <2>1. i \in Width["i32"] .. Width["i64"] BY WidthAssumption
    <2> QED BY <2>1, PowerAssumption
  <1>2. P \in Int /\ m \in Int BY WidthAssumption
  <1>3. v \in 0 .. P - 1 BY DEF UMax
  <1> HIDE DEF P, m
  <1>4. m > 0 /\ v < m /\ v >= 0 /\ v \in Int /\ m \in Nat BY <1>1, <1>2, <1>3
  <1>5. v \div m = 0
    <2> DEFINE d == v \div m
               r == v % m
    <2>1. d \in Int /\ r \in Int /\ v = m * d + r /\ 0 <= r /\ r < m BY <1>4
    <2> HIDE DEF d, r
    <2>2. ~(d >= 1)
      <3>1. SUFFICES ASSUME d >= 1 PROVE FALSE OBVIOUS
      <3>2. d * m >= m BY <1>4, <2>1, <3>1, Product
      <3> QED BY <1>4, <2>1, <3>2
    <2>3. ~(d <= -1)
      <3>1. SUFFICES ASSUME d <= -1 PROVE FALSE OBVIOUS
      <3>2. (0 - d) * m >= m BY <1>4, <2>1, <3>1, Product
      <3>3. (0 - d) * m = 0 - m * d BY <1>4, <2>1
      <3> QED BY <1>4, <2>1, <3>2, <3>3
    <2> QED BY <2>1, <2>2, <2>3 DEF d
  <1>6. (v \div m) % 2 = 0 BY <1>5
  <1> QED BY <1>6 DEF m

\* The bits set in the result, whichever way they are collected.
LEMMA SameBits ==
    ASSUME NEW o \in Bitwise3, NEW a \in 0 .. UMax("i32"), NEW b \in 0 .. UMax("i32")
    PROVE  WasmBitwise("i32", o, a, b) = bitwise(o, a, b)
  <1> DEFINE S == CASE o = "and" -> Bits(a) \cap Bits(b)
                    [] o = "or"  -> Bits(a) \cup Bits(b)
                    [] o = "xor" -> (Bits(a) \cup Bits(b)) \ (Bits(a) \cap Bits(b))
             T == {i \in 0 .. Width["i32"] - 1 :
                     CASE o = "and" -> Bit(a, i) + Bit(b, i) = 2
                       [] o = "or"  -> Bit(a, i) + Bit(b, i) >= 1
                       [] o = "xor" -> Bit(a, i) + Bit(b, i) = 1}
  <1>1. S = T
    <2> DEFINE B(v, i) == (v \div 2^i) % 2
    <2>1. \A i : i \in 0 .. Width["i32"] - 1 => i \in 0 .. Width["i64"] BY WidthAssumption
    <2>2. \A v \in {a, b} : \A i \in 0 .. Width["i64"] : B(v, i) = 1 => i \in 0 .. Width["i32"] - 1
      BY LowBits
    <2>3. \A v \in {a, b} : \A i \in 0 .. Width["i64"] : B(v, i) \in {0, 1}
      <3> SUFFICES ASSUME NEW v \in {a, b}, NEW i \in 0 .. Width["i64"] PROVE B(v, i) \in {0, 1}
        OBVIOUS
      <3>1. v \in Int /\ 2^i \in Int /\ 2^i > 0 BY WidthAssumption, PowerAssumption
      <3> QED BY <3>1
    <2>4. \A v, i : Bit(v, i) = B(v, i) BY DEF Bit
    <2>5. \A v : Bits(v) = {i \in 0 .. Width["i64"] : B(v, i) = 1} BY DEF Bits
    <2> HIDE DEF B
    <2>6. ASSUME NEW i PROVE i \in S <=> i \in T
      <3>1. CASE o = "and" BY <2>1, <2>2, <2>3, <2>4, <2>5, <3>1
      <3>2. CASE o = "or" BY <2>1, <2>2, <2>3, <2>4, <2>5, <3>2
      <3>3. CASE o = "xor" BY <2>1, <2>2, <2>3, <2>4, <2>5, <3>3
      <3> QED BY <3>1, <3>2, <3>3 DEF Bitwise3
    <2> HIDE DEF S, T
    <2> QED BY <2>6
  <1>2. bitwise(o, a, b) = MapThenSumSet(LAMBDA i : 2^i, S) BY DEF bitwise, FromBits
  <1>3. WasmBitwise("i32", o, a, b) = MapThenSumSet(LAMBDA i : 2^i, T)
    BY DEF WasmBitwise, Pattern, SumOver
  <1> HIDE DEF S, T
  <1> QED BY <1>1, <1>2, <1>3

-----------------------------------------------------------------------------
(* Comparisons *)

\* What a pattern denotes is a number, as is the real of a float.
LEMMA Denoted ==
    ASSUME NEW ty \in IntTypes, NEW sign \in {"s", "u"}, NEW v \in 0 .. UMax(ty)
    PROVE  Value(ty, sign, v) = Read(ty, sign, v) /\ Read(ty, sign, v) \in Int
           /\ v \in Int /\ Signed(ty, v) \in Int
  <1>1. 2^Width[ty] \in Int /\ 2^(Width[ty] - 1) \in Int BY WidthAssumption DEF IntTypes
  <1>2. v \in Int /\ Signed(ty, v) \in Int BY <1>1 DEF UMax, Signed
  <1> QED BY <1>2, NotationAssumption DEF Read

\* The comparison methods of integers compare what the patterns denote.
LEMMA IntMethods ==
    ASSUME NEW ty \in IntTypes, NEW o \in Orders \cup {"eq", "ne"},
           NEW a \in 0 .. UMax(ty), NEW b \in 0 .. UMax(ty)
    PROVE  WasmInt(ty, o, a, b).val = binary(ty, o, a, b).val
  <1>1. PICK s \in {"s", "u"} : s = SignOf(o) BY DEF SignOf
  <1>2. /\ Value(ty, s, a) = Read(ty, s, a) /\ Value(ty, s, b) = Read(ty, s, b)
        /\ Read(ty, s, a) \in Int /\ Read(ty, s, b) \in Int
        /\ a \in Int /\ b \in Int /\ Signed(ty, a) \in Int /\ Signed(ty, b) \in Int
    BY <1>1, Denoted
  <1>3. WasmInt(ty, o, a, b).val = WasmCompare(o, Read(ty, s, a), Read(ty, s, b))
    BY <1>1, <1>2 DEF WasmInt, Ok, Orders
  <1>4. ty \in IntType BY DEF IntTypes, IntType
  <1>5. CASE o \in {"eq", "ne"}
    <2>1. binary(ty, o, a, b).val = equality(o, a, b) BY <1>4, <1>5 DEF binary, Ok
    <2>2. s = "u" BY <1>1, <1>5 DEF SignOf
    <2> QED BY <1>2, <1>3, <1>5, <2>1, <2>2 DEF WasmCompare, equality, Read
  <1>6. CASE o \in {"lt_s", "lt_u", "le_s", "le_u"}
    <2>1. binary(ty, o, a, b).val = less(ty, o, a, b) BY <1>4, <1>6 DEF binary, Ok
    <2>2. s = IF o \in {"lt_s", "le_s"} THEN "s" ELSE "u" BY <1>1, <1>6 DEF SignOf
    <2> QED BY <1>2, <1>3, <1>6, <2>1, <2>2 DEF WasmCompare, less, Read
  <1>7. CASE o \in {"gt_s", "gt_u", "ge_s", "ge_u"}
    <2>1. binary(ty, o, a, b).val = greater(ty, o, a, b) BY <1>4, <1>7 DEF binary, Ok
    <2>2. s = IF o \in {"gt_s", "ge_s"} THEN "s" ELSE "u" BY <1>1, <1>7 DEF SignOf
    <2> QED BY <1>2, <1>3, <1>7, <2>1, <2>2 DEF WasmCompare, greater, Read
  <1> QED BY <1>5, <1>6, <1>7 DEF Orders

\* A sum that wraps around is the pattern that represents it.
LEMMA SumRepresented ==
    ASSUME NEW a \in 0 .. UMax("i32"), NEW b \in 0 .. UMax("i32")
    PROVE  WasmInt("i32", "add", a, b).val = binary("i32", "add", a, b).val
  <1> DEFINE m == 2^Width["i32"]
             n == a + b
  <1>1. m \in Int /\ m > 0 BY WidthAssumption, PowerAssumption
  <1>2. a \in 0 .. m - 1 /\ b \in 0 .. m - 1 BY DEF UMax
  <1>3. WasmInt("i32", "add", a, b).val = CHOOSE v \in 0 .. m - 1 : (v - n) % m = 0
    BY DEF WasmInt, Ok, Represents, UMax
  <1>4. binary("i32", "add", a, b).val = n % m
    BY DEF binary, Ok, arithmetic, Wrap, IntType
  <1> HIDE DEF m
  <1>5. n \in Int BY <1>1, <1>2
  <1> HIDE DEF n
  <1>6. n % m \in 0 .. m - 1 /\ n = m * (n \div m) + (n % m) /\ n \div m \in Int
    <2>1. m \in Nat BY <1>1
    <2>2. /\ n \div m \in Int /\ n % m \in Int /\ 0 <= n % m /\ n % m < m
          /\ n = m * (n \div m) + (n % m)
      BY <1>1, <1>5, <2>1, DivMod
    <2> QED BY <1>1, <2>2
  <1>7. \A v \in 0 .. m - 1 : (v - n) % m = 0 <=> v = n % m
    <2> SUFFICES ASSUME NEW v \in 0 .. m - 1 PROVE (v - n) % m = 0 <=> v = n % m OBVIOUS
    <2> DEFINE r == n % m
               q == n \div m
               d == (v - n) \div m
               e == (v - n) % m
    <2>1. v \in Int /\ v - n \in Int /\ d \in Int /\ e \in Int /\ v - n = m * d + e /\ 0 <= e /\ e < m
      <3>1. v - n \in Int /\ m \in Nat BY <1>1, <1>5
      <3> QED BY <1>1, <3>1, DivMod
    <2>2. r \in 0 .. m - 1 /\ n = m * q + r /\ q \in Int BY <1>6
    <2> HIDE DEF r, q, d, e
    <2>3. (d + q) * m = (v - r) - e BY <1>1, <1>5, <2>1, <2>2
    <2>4. ASSUME NEW k \in Int, NEW x \in Int, k * m = x, -m < x, x < m PROVE x = 0
      <3>1. m \in Nat BY <1>1
      <3>2. ~(k >= 1)
        <4> SUFFICES ASSUME k >= 1 PROVE FALSE OBVIOUS
        <4>1. k * m >= m BY <3>1, <2>4, Product
        <4> QED BY <1>1, <2>4, <4>1
      <3>3. ~(0 - k >= 1)
        <4> SUFFICES ASSUME 0 - k >= 1 PROVE FALSE OBVIOUS
        <4>1. (0 - k) * m >= m BY <3>1, <2>4, Product
        <4>2. (0 - k) * m = 0 - k * m BY <1>1, <2>4
        <4> QED BY <1>1, <2>4, <4>1, <4>2
      <3>4. k = 0 BY <2>4, <3>2, <3>3
      <3> QED BY <1>1, <2>4, <3>4
    <2>5. ASSUME e = 0 PROVE v = r
      <3>1. d + q \in Int /\ v - r \in Int /\ (d + q) * m = v - r /\ -m < v - r /\ v - r < m
        BY <1>1, <2>1, <2>2, <2>3, <2>5
      <3>2. v - r = 0 BY <3>1, <2>4
      <3> QED BY <2>1, <2>2, <3>2
    <2>6. ASSUME v = r PROVE e = 0
      <3>1. d + q \in Int /\ 0 - e \in Int /\ (d + q) * m = 0 - e /\ -m < 0 - e /\ 0 - e < m
        BY <1>1, <2>1, <2>2, <2>3, <2>6
      <3>2. 0 - e = 0 BY <3>1, <2>4
      <3> QED BY <2>1, <3>2
    <2> QED BY <2>5, <2>6 DEF r, e
  <1> QED BY <1>3, <1>4, <1>6, <1>7

\* The real of a float is a number.
LEMMA Reals ==
    ASSUME NEW ty \in {"f32", "f64"}, NEW x \in Operands[ty] PROVE Real(x) \in Int
  <1>1. PICK s \in {0, 1}, m \in Magnitudes[ty] \cup {INF, NAN} : x = Float(s, m)
    BY BranchAssumption DEF Floats
  <1>2. m \in Int BY BranchAssumption DEF INF, NAN
  <1> QED BY <1>1, <1>2 DEF Real, Float

\* The comparison methods of floats, a NaN included.
LEMMA FloatMethods ==
    ASSUME NEW ty \in {"f32", "f64"}, NEW o \in FloatOrders,
           NEW a \in Operands[ty], NEW b \in Operands[ty]
    PROVE  WasmFloat(o, a, b).val = binary(ty, o, a, b).val
  <1>1. binary(ty, o, a, b).val = Bool(fcompare(o, a, b))
    BY DEF binary, Ok, IntType, FloatOrders
  <1>2. WasmFloat(o, a, b).val = IF is_nan(a) \/ is_nan(b) THEN Bool(o = "ne")
                                 ELSE WasmCompare(o, Real(a), Real(b))
    BY DEF WasmFloat, Ok, FloatOrders
  <1>3. Real(a) \in Int /\ Real(b) \in Int BY Reals
  <1>4. CASE is_nan(a) \/ is_nan(b) BY <1>1, <1>2, <1>4 DEF fcompare
  <1>5. CASE ~(is_nan(a) \/ is_nan(b))
    <2>1. PICK x \in Int, y \in Int : x = Real(a) /\ y = Real(b) BY <1>3
    <2>2. fcompare(o, a, b) = CASE o = "eq" -> x = y [] o = "ne" -> x # y
                                [] o = "lt" -> x < y [] o = "gt" -> x > y
                                [] o = "le" -> x <= y [] o = "ge" -> x >= y
      BY <1>5, <2>1 DEF fcompare
    <2>3. WasmFloat(o, a, b).val = WasmCompare(o, x, y) BY <1>2, <1>5, <2>1
    <2> QED BY <1>1, <2>2, <2>3 DEF WasmCompare, FloatOrders
  <1> QED BY <1>4, <1>5

-----------------------------------------------------------------------------
(* A comparison and the branch it becomes *)

OperandIn(cs, i, p) == CASE p.k = "reg"   -> cs[p.r]
                         [] p.k = "const" -> p.v
                         [] p.k = "imm"   -> DecodeImm(i.opcode[1], i.opcode[2], p)
DecidesIn(cs, i) == cmp(<<i.opcode[1], i.opcode[2]>>, OperandIn(cs, i, i.a), OperandIn(cs, i, i.b))
Method(o, ty, a, b) == CASE o = "and_eqz" -> Bool(bitwise("and", a, b) = 0)
                         [] o = "or_eqz"  -> Bool(bitwise("or", a, b) = 0)
                         [] o = "xor_eqz" -> Bool(bitwise("xor", a, b) = 0)
                         [] OTHER -> binary(ty, o, a, b).val
ComputedIn(cs, i) ==
    Method(i.opcode[2], i.opcode[1], OperandIn(cs, i, i.a), OperandIn(cs, i, i.b))

\* The comparators by what they compare.
LEMMA Kinds ==
    ASSUME NEW c \in Comparators
    PROVE  /\ c = <<c[1], c[2]>>
           /\ \/ c[1] \in IntTypes /\ c[2] \in Orders \cup {"eq", "ne"}
              \/ c[1] = "i32" /\ c[2] \in Bitwise3 \cup Eqz3
              \/ c[1] \in {"f32", "f64"} /\ c[2] \in FloatOrders
  BY DEF Comparators, ComparatorOrder, IntTypes, Orders, Bitwise3, Eqz3, FloatOrders

\* A comparator decides what its method computes.
LEMMA Decides ==
    ASSUME NEW c \in Comparators, NEW a, NEW b
    PROVE  cmp(c, a, b) <=> Method(c[2], c[1], a, b) # 0
  <1>1. CASE c[2] \in Bitwise3
    <2>1. Method(c[2], c[1], a, b) = bitwise(c[2], a, b)
      <3>1. c[1] = "i32" BY <1>1, Kinds DEF Bitwise3, Orders, FloatOrders
      <3> QED BY <1>1, <3>1 DEF Method, binary, Ok, Bitwise3, IntType
    <2> QED BY <1>1, <2>1 DEF cmp, Bitwise3
  <1>2. CASE c[2] \in Eqz3 BY <1>2 DEF Method, cmp, Eqz3, Bool
  <1>3. CASE c[2] \notin Bitwise3 \cup Eqz3
    <2>1. Method(c[2], c[1], a, b) = binary(c[1], c[2], a, b).val BY <1>3 DEF Method, Eqz3
    <2>2. cmp(c, a, b) <=> binary(c[1], c[2], a, b).val = 1 BY <1>3 DEF cmp, Bitwise3, Eqz3
    <2>3. binary(c[1], c[2], a, b).val \in {0, 1}
      <3>1. CASE c[1] \in IntTypes /\ c[2] \in {"eq", "ne"}
        BY <3>1 DEF binary, Ok, IntType, IntTypes, equality, Bool
      <3>2. CASE c[1] \in IntTypes /\ c[2] \in {"lt_s", "lt_u", "le_s", "le_u"}
        BY <3>2 DEF binary, Ok, IntType, IntTypes, less, Bool
      <3>3. CASE c[1] \in IntTypes /\ c[2] \in {"gt_s", "gt_u", "ge_s", "ge_u"}
        BY <3>3 DEF binary, Ok, IntType, IntTypes, greater, Bool
      <3>4. CASE c[1] \in {"f32", "f64"} /\ c[2] \in FloatOrders
        BY <3>4 DEF binary, Ok, IntType, Bool, FloatOrders
      <3> QED BY <1>3, <3>1, <3>2, <3>3, <3>4, Kinds DEF Orders
    <2> QED BY <2>1, <2>2, <2>3
  <1> QED BY <1>1, <1>2, <1>3

\* The negation of a comparator, when it has one, decides the contrary: no order
\* of floats has one.
LEMMA Negated ==
    ASSUME NEW c \in Comparators, NEW d \in negate(c), NEW a, NEW b,
           c[2] \in Orders => a \in 0 .. UMax(c[1]) /\ b \in 0 .. UMax(c[1])
    PROVE  /\ d \in Comparators /\ d[1] = c[1]
           /\ d[2] \in Unsigned <=> c[2] \in Unsigned
           /\ cmp(d, a, b) <=> ~cmp(c, a, b)
  <1>1. c[2] \in DOMAIN Opposite /\ d = <<c[1], Opposite[c[2]]>> BY DEF negate
  <1>2. c[2] \in Orders \cup {"eq", "ne"} \cup Bitwise3 \cup Eqz3
    BY <1>1 DEF Opposite, Orders, Bitwise3, Eqz3
  <1>3. CASE c[2] \in Bitwise3 \cup Eqz3
    <2>1. c[1] = "i32" BY <1>3, Kinds DEF Bitwise3, Eqz3, Orders, FloatOrders
    <2>2. d = <<"i32", Opposite[c[2]]>> BY <1>1, <2>1
    <2>3. d \in Comparators
      <3>1. \A o \in Bitwise3 \cup Eqz3 : <<"i32", Opposite[o]>> \in Comparators
        BY DEF Comparators, ComparatorOrder, Opposite, Bitwise3, Eqz3
      <3> QED BY <1>3, <2>2, <3>1
    <2>4. d[2] \notin Unsigned /\ c[2] \notin Unsigned
      BY <1>3, <2>2 DEF Opposite, Bitwise3, Eqz3, Unsigned
    <2>5. cmp(d, a, b) <=> ~cmp(c, a, b) BY <1>3, <2>2 DEF cmp, Opposite, Bitwise3, Eqz3
    <2> QED BY <2>1, <2>2, <2>3, <2>4, <2>5
  <1>4. CASE c[2] \in {"eq", "ne"}
    <2>1. d[1] = c[1] /\ d[2] = IF c[2] = "eq" THEN "ne" ELSE "eq" BY <1>1, <1>4 DEF Opposite
    <2>2. c[1] \in {"i32", "i64", "f32", "f64"}
      BY Kinds DEF IntTypes
    <2>3. d \in Comparators
      <3>1. \A t \in {"i32", "i64", "f32", "f64"}, o \in {"eq", "ne"} : <<t, o>> \in Comparators
        BY DEF Comparators, ComparatorOrder
      <3>2. d = <<d[1], d[2]>> BY <1>1
      <3> QED BY <2>1, <2>2, <3>1, <3>2
    <2>4. d[2] \notin Unsigned /\ c[2] \notin Unsigned BY <1>4, <2>1 DEF Unsigned
    <2>5. cmp(d, a, b) <=> ~cmp(c, a, b)
      <3>1. \A e \in {c, d} : cmp(e, a, b) <=> binary(c[1], e[2], a, b).val = 1
        BY <1>4, <2>1 DEF cmp
      <3>2. CASE c[1] \in {"i32", "i64"}
        BY <1>4, <2>1, <3>1, <3>2 DEF binary, Ok, IntType, equality, Bool
      <3>3. CASE c[1] \in {"f32", "f64"}
        <4>1. \A o \in {"eq", "ne"} : binary(c[1], o, a, b).val = Bool(fcompare(o, a, b))
          BY <3>3 DEF binary, Ok, IntType
        <4>2. fcompare("eq", a, b) <=> ~fcompare("ne", a, b) BY DEF fcompare
        <4> QED BY <1>4, <2>1, <3>1, <4>1, <4>2 DEF Bool
      <3> QED BY <2>2, <3>2, <3>3
    <2> QED BY <2>1, <2>3, <2>4, <2>5
  <1>5. CASE c[2] \in Orders
    <2>1. c[1] \in IntTypes BY <1>5, Kinds DEF Orders, Bitwise3, Eqz3, FloatOrders
    <2>2. a \in Int /\ b \in Int /\ Signed(c[1], a) \in Int /\ Signed(c[1], b) \in Int
      BY <1>5, <2>1, Denoted
    <2>3. d \in Comparators
      <3>1. \A t \in IntTypes, o \in Orders : <<t, Opposite[o]>> \in Comparators
        BY DEF Comparators, ComparatorOrder, Opposite, Orders, IntTypes
      <3> QED BY <1>1, <1>5, <2>1, <3>1
    <2>4. d[1] = c[1] /\ d[2] = Opposite[c[2]] BY <1>1
    <2>5. d[2] \in Unsigned <=> c[2] \in Unsigned BY <1>5, <2>4 DEF Opposite, Unsigned, Orders
    <2>6. d[2] \in Orders BY <1>5, <2>4 DEF Opposite, Orders
    <2>7. \A e \in {c, d} : cmp(e, a, b) <=> binary(c[1], e[2], a, b).val = 1
      BY <1>5, <2>4, <2>6 DEF cmp, Orders
    <2>8. PICK x \in Int, y \in Int : x = Signed(c[1], a) /\ y = Signed(c[1], b) BY <2>2
    <2> DEFINE Yes(o) == binary(c[1], o, a, b).val = 1
    <2>9. c[1] \in IntType BY <2>1 DEF IntTypes, IntType
    <2>10. /\ Yes("lt_s") <=> x < y
           /\ Yes("lt_u") <=> a < b
           /\ Yes("le_s") <=> x <= y
           /\ Yes("le_u") <=> a <= b
      BY <2>8, <2>9 DEF binary, Ok, less, Bool
    <2>11. /\ Yes("gt_s") <=> x > y
           /\ Yes("gt_u") <=> a > b
           /\ Yes("ge_s") <=> x >= y
           /\ Yes("ge_u") <=> a >= b
      BY <2>8, <2>9 DEF binary, Ok, greater, Bool
    <2> HIDE DEF Yes
    <2>12. \A o \in Orders : Yes(Opposite[o]) <=> ~Yes(o)
      BY <2>2, <2>8, <2>10, <2>11 DEF Opposite, Orders
    <2>13. \A e \in {c, d} : cmp(e, a, b) <=> Yes(e[2]) BY <2>7 DEF Yes
    <2> QED BY <1>5, <2>3, <2>4, <2>5, <2>12, <2>13
  <1> QED BY <1>2, <1>3, <1>4, <1>5

-----------------------------------------------------------------------------
(* What the code does with the registers *)

RegisterNames == {"lhs", "rhs", "result", "other", "tmp"}
IsCells(cs) == cs = [r \in RegisterNames |-> cs[r]]
After(cs, i) == [cs EXCEPT ![i.result] = ComputedIn(cs, i)]

\* A comparison with its operands in range, that writes what no source operand is in.
Sound(cs, i) ==
    /\ \E x, y, p, q : \E f \in {"rr", "imm16"}, r \in {"result", "tmp"} :
          i = Compare(<<x, y, f>>, r, p, q)
    /\ i.opcode[2] \in Orders => /\ OperandIn(cs, i, i.a) \in 0 .. UMax(i.opcode[1])
                                 /\ OperandIn(cs, i, i.b) \in 0 .. UMax(i.opcode[1])
Wide(i) == i.opcode = branch_cmp_fallback
Narrow(i) == \E x, y, p, q, o : \E f \in {"branch", "branch_imm"} : i = Branch(<<x, y, f>>, p, q, o)

\* The branch at position n decides as Wasm does, with registers cs.
Aims(cs, i, n) ==
    \/ Wide(i)
    \/ /\ Narrow(i)
       /\ DecidesIn(cs, i) <=> Taken
       /\ label.pinned => i.offset = label.at - n
Stored(cs) == src.local => cs["result"] = Compared
Arrives(cs, i, n) == Aims(cs, i, n) /\ Stored(cs)

Sourced == /\ src.cmp \in SourceOps /\ IsCells(cells)
           /\ src.tests \in {"result", "other"} /\ src.br \in {"eqz", "nez"}
           /\ cells["lhs"] \in Operands[src.cmp[1]] /\ cells["rhs"] \in Operands[src.cmp[1]]
           /\ label.pinned => label.at \in Int
Uncompared ==
    /\ src.eqz /\ cond = src.tests /\ last_instr \in {0, 1}
    /\ \E k : /\ instrs = <<k>> /\ Sound(cells, k) /\ k.result = "result"
              /\ ComputedIn(cells, k) = Compared
Uncoded ==
    /\ cond \in RegisterNames
    /\ \/ /\ last_instr \in {0, 1}
          /\ \E k : /\ instrs = <<k>> /\ Sound(cells, k) /\ k.result = "result"
                    /\ After(cells, k)[cond] = Tested /\ Stored(After(cells, k))
       \/ /\ last_instr = 2
          /\ \E k, e : /\ instrs = <<k, e>> /\ Sound(cells, k)
                       /\ Sound(After(cells, k), e) /\ e.result = "tmp"
                       /\ After(After(cells, k), e)[cond] = Tested
                       /\ Stored(After(cells, k))
OneWord(at) ==
    \E b : instrs = <<b>> /\ at = 1 /\ Arrives(cells, b, 1)
TwoWords(at) ==
    \E k, b : /\ instrs = <<k, b>>
              /\ \/ at = 1 /\ Sound(cells, k) /\ Arrives(After(cells, k), b, 2)
                 \/ at = 2 /\ k.opcode[3] \in {"rr", "imm16"} /\ Arrives(cells, b, 2)
ThreeWords(at) ==
    \E k, e, b :
        /\ instrs = <<k, e, b>>
        /\ \/ /\ at = 1 /\ Sound(cells, k) /\ Sound(After(cells, k), e)
              /\ Arrives(After(After(cells, k), e), b, 3)
           \/ at = 2 /\ Sound(cells, e) /\ Arrives(After(cells, e), b, 3)
           \/ at = 3 /\ Arrives(cells, b, 3)
Coded == OneWord(ip) \/ TwoWords(ip) \/ ThreeWords(ip)

BranchInv ==
    /\ Sourced
    /\ pc \in {"eqz", "branch", "pin", "run", "done"}
    /\ pc = "eqz" => Uncompared
    /\ pc = "branch" => Uncoded
    /\ pc \in {"eqz", "branch", "pin"} => ip = 1
    /\ pc = "pin" => ~label.pinned /\ user = Len(instrs)
    /\ pc = "run" => label.pinned
    /\ pc \in {"pin", "run"} => Coded
    /\ pc = "done" => SameBranch /\ ResultKept

\* What Wasm computes for an operator of the source.
WasmOf(c, a, b) == IF c[1] \in IntTypes THEN WasmInt(c[1], c[2], a, b).val ELSE WasmFloat(c[2], a, b).val

\* The method of each operator computes what Wasm says.
LEMMA Methods ==
    ASSUME NEW c \in SourceOps, NEW a \in Operands[c[1]], NEW b \in Operands[c[1]]
    PROVE  Method(c[2], c[1], a, b) = WasmOf(c, a, b)
  <1>1. CASE c = <<"i32", "add">>
    <2>1. a \in 0 .. UMax("i32") /\ b \in 0 .. UMax("i32") BY <1>1, BranchAssumption DEF IntTypes
    <2>2. Method(c[2], c[1], a, b) = binary("i32", "add", a, b).val BY <1>1 DEF Method
    <2>3. WasmOf(c, a, b) = WasmInt("i32", "add", a, b).val BY <1>1 DEF WasmOf, IntTypes
    <2> QED BY <2>1, <2>2, <2>3, SumRepresented
  <1>2. CASE c \in Comparators /\ c[2] \notin Eqz3
    <2>1. CASE c[1] \in IntTypes /\ c[2] \in Orders \cup {"eq", "ne"}
      <3>1. a \in 0 .. UMax(c[1]) /\ b \in 0 .. UMax(c[1]) BY <2>1, BranchAssumption
      <3>2. Method(c[2], c[1], a, b) = binary(c[1], c[2], a, b).val BY <2>1 DEF Method, Orders
      <3> QED BY <2>1, <3>1, <3>2, IntMethods DEF WasmOf
    <2>2. CASE c[1] = "i32" /\ c[2] \in Bitwise3
      <3>1. a \in 0 .. UMax("i32") /\ b \in 0 .. UMax("i32") BY <2>2, BranchAssumption DEF IntTypes
      <3>2. Method(c[2], c[1], a, b) = bitwise(c[2], a, b)
        BY <2>2 DEF Method, Bitwise3, binary, Ok, IntType
      <3>3. WasmOf(c, a, b) = WasmBitwise("i32", c[2], a, b)
        BY <2>2 DEF WasmOf, IntTypes, WasmInt, Ok, Bitwise3
      <3> QED BY <2>2, <3>1, <3>2, <3>3, SameBits
    <2>3. CASE c[1] \in {"f32", "f64"} /\ c[2] \in FloatOrders
      <3>1. Method(c[2], c[1], a, b) = binary(c[1], c[2], a, b).val BY <2>3 DEF Method, FloatOrders
      <3>2. WasmOf(c, a, b) = WasmFloat(c[2], a, b).val BY <2>3 DEF WasmOf, IntTypes
      <3> QED BY <2>3, <3>1, <3>2, FloatMethods
    <2> QED BY <1>2, <2>1, <2>2, <2>3, Kinds
  <1> QED BY <1>1, <1>2 DEF SourceOps

\* What the Wasm operators of a source come to.
LEMMA ComparedOf == Compared = WasmOf(src.cmp, cells["lhs"], cells["rhs"])
  BY DEF Compared, WasmOf

\* A comparison leaves the other registers alone.
LEMMA Effect ==
    ASSUME NEW cs, IsCells(cs), NEW i, i.result \in RegisterNames
    PROVE  /\ IsCells(After(cs, i)) /\ After(cs, i)[i.result] = ComputedIn(cs, i)
           /\ \A r \in RegisterNames \ {i.result} : After(cs, i)[r] = cs[r]
  <1>1. DOMAIN cs = RegisterNames BY DEF IsCells
  <1> QED BY <1>1 DEF After, IsCells

\* The fields of an instruction.
LEMMA CompareFields ==
    ASSUME NEW x, NEW y, NEW f, NEW r, NEW p, NEW q
    PROVE  LET i == Compare(<<x, y, f>>, r, p, q)
           IN /\ i.opcode = <<x, y, f>> /\ i.opcode[1] = x /\ i.opcode[2] = y /\ i.opcode[3] = f
              /\ i.result = r /\ i.a = p /\ i.b = q
  BY DEF Compare
\* Those of a branch.
LEMMA BranchFields ==
    ASSUME NEW x, NEW y, NEW f, NEW p, NEW q, NEW o
    PROVE  LET i == Branch(<<x, y, f>>, p, q, o)
           IN /\ i.opcode = <<x, y, f>> /\ i.opcode[1] = x /\ i.opcode[2] = y /\ i.opcode[3] = f
              /\ i.a = p /\ i.b = q /\ i.offset = o
  BY DEF Branch

\* At the start the first instruction computes the comparison.
LEMMA BranchStarts == BranchInit => BranchInv
  <1> SUFFICES ASSUME BranchInit PROVE BranchInv OBVIOUS
  <1>1. PICK c \in SourceOps, form \in {"rr", "imm16"} : \E v, w \in Operands[c[1]] :
        /\ form = "imm16" => c[1] \in IntTypes /\ IsImm16(c[1], c[2], w)
        /\ src \in [cmp : {c}, local : BOOLEAN, tests : {"result", "other"},
                    eqz : BOOLEAN, br : {"eqz", "nez"}]
        /\ \E at \in Backward : label \in {Unpinned, Pinned(at)}
        /\ instrs = << Compare(<<c[1], c[2], form>>, "result", Reg("lhs"),
                               IF form = "rr" THEN Reg("rhs") ELSE Imm(Wrap("i16", w))) >>
        /\ last_instr \in {0, 1}
        /\ cond = src.tests
        /\ cells = [lhs |-> v, rhs |-> w, result |-> 0, other |-> 1, tmp |-> 0]
        /\ ip = 1
        /\ pc = IF src.eqz THEN "eqz" ELSE "branch"
    BY DEF BranchInit
  <1>2. PICK v \in Operands[c[1]], w \in Operands[c[1]] :
        /\ form = "imm16" => c[1] \in IntTypes /\ IsImm16(c[1], c[2], w)
        /\ instrs = << Compare(<<c[1], c[2], form>>, "result", Reg("lhs"),
                               IF form = "rr" THEN Reg("rhs") ELSE Imm(Wrap("i16", w))) >>
        /\ cells = [lhs |-> v, rhs |-> w, result |-> 0, other |-> 1, tmp |-> 0]
        /\ \E at \in Backward : label \in {Unpinned, Pinned(at)}
        /\ last_instr \in {0, 1} /\ cond = src.tests /\ ip = 1
        /\ pc = IF src.eqz THEN "eqz" ELSE "branch"
        /\ src \in [cmp : {c}, local : BOOLEAN, tests : {"result", "other"},
                    eqz : BOOLEAN, br : {"eqz", "nez"}]
    BY <1>1
  <1>3. /\ IsCells(cells) /\ cells["lhs"] = v /\ cells["rhs"] = w /\ cells["other"] = 1
    BY <1>2 DEF IsCells, RegisterNames
  <1>4. src.cmp = c /\ src.tests \in {"result", "other"} /\ src.br \in {"eqz", "nez"} /\ src.eqz \in BOOLEAN
    BY <1>2
  <1>5. label.pinned => label.at \in Int BY <1>2, BranchAssumption DEF Unpinned, Pinned
  <1>6. Sourced BY <1>3, <1>4, <1>5 DEF Sourced
  <1> DEFINE q == IF form = "rr" THEN Reg("rhs") ELSE Imm(Wrap("i16", w))
             k == Compare(<<c[1], c[2], form>>, "result", Reg("lhs"), q)
  <1>7. /\ k.opcode[1] = c[1] /\ k.opcode[2] = c[2] /\ k.opcode[3] = form
        /\ k.result = "result" /\ k.a = Reg("lhs") /\ k.b = q
    BY CompareFields
  <1>8. OperandIn(cells, k, k.a) = v BY <1>3, <1>7 DEF OperandIn, Reg
  <1>9. OperandIn(cells, k, k.b) = w
    <2>1. CASE form = "rr" BY <1>3, <1>7, <2>1 DEF OperandIn, Reg
    <2>2. CASE form = "imm16"
      <3>1. k.b = Imm(Wrap("i16", w)) BY <1>7, <2>2
      <3>2. OperandIn(cells, k, k.b) = DecodeImm(c[1], c[2], Imm(Wrap("i16", w)))
        BY <1>7, <3>1 DEF OperandIn, Imm
      <3> QED BY <1>2, <2>2, <3>2 DEF IsImm16
    <2> QED BY <2>1, <2>2
  <1>10. ComputedIn(cells, k) = Compared
    <2>1. ComputedIn(cells, k) = Method(c[2], c[1], v, w) BY <1>7, <1>8, <1>9 DEF ComputedIn
    <2>2. Compared = WasmOf(c, v, w) BY <1>3, <1>4, ComparedOf
    <2> QED BY <2>1, <2>2, Methods
  <1>11. Sound(cells, k)
    <2>1. \E x, y, p, z : \E f \in {"rr", "imm16"}, r \in {"result", "tmp"} :
            k = Compare(<<x, y, f>>, r, p, z) OBVIOUS
    <2>2. ASSUME c[2] \in Orders PROVE v \in 0 .. UMax(c[1]) /\ w \in 0 .. UMax(c[1])
      <3>1. c[1] \in IntTypes BY <2>2, Kinds DEF SourceOps, Orders, Bitwise3, Eqz3, FloatOrders, IntTypes
      <3> QED BY <3>1, BranchAssumption
    <2> HIDE DEF k
    <2> QED BY <1>7, <1>8, <1>9, <2>1, <2>2 DEF Sound
  <1>12. instrs = <<k>> BY <1>2
  <1> HIDE DEF k
  <1>13. /\ IsCells(After(cells, k)) /\ After(cells, k)["result"] = Compared
         /\ After(cells, k)["other"] = cells["other"]
    BY <1>3, <1>7, <1>10, Effect DEF RegisterNames
  <1>14. Stored(After(cells, k)) BY <1>13 DEF Stored
  <1>15. CASE src.eqz
    <2>1. Uncompared BY <1>2, <1>7, <1>10, <1>11, <1>12, <1>15 DEF Uncompared
    <2> QED BY <1>2, <1>6, <1>15, <2>1 DEF BranchInv
  <1>16. CASE ~src.eqz
    <2>1. Tested = IF src.tests = "result" THEN Compared ELSE cells["other"] BY <1>16 DEF Tested
    <2>2. After(cells, k)[cond] = Tested BY <1>2, <1>4, <1>13, <2>1
    <2>3. cond \in RegisterNames BY <1>2, <1>4 DEF RegisterNames
    <2>4. Uncoded BY <1>2, <1>7, <1>11, <1>12, <1>14, <2>2, <2>3 DEF Uncoded
    <2> QED BY <1>2, <1>6, <1>16, <2>4 DEF BranchInv
  <1> QED BY <1>15, <1>16

-----------------------------------------------------------------------------
(* Encoding *)

\* What Wasm computes does not change while the source operands stay.
LEMMA SameSource ==
    ASSUME UNCHANGED src, \A r \in {"lhs", "rhs", "other"} : cells'[r] = cells[r]
    PROVE  Compared' = Compared /\ Tested' = Tested /\ (Taken' <=> Taken)
  <1>1. Compared' = Compared BY DEF Compared
  <1>2. Tested' = Tested BY <1>1 DEF Tested
  <1> QED BY <1>1, <1>2 DEF Taken

\* While only code changes, a branch arrives where it did.
LEMMA SameTarget ==
    ASSUME UNCHANGED <<src, label, cells>>, NEW k, NEW e, NEW b, NEW n
    PROVE  /\ Stored(cells)' <=> Stored(cells)
           /\ Stored(After(cells, k))' <=> Stored(After(cells, k))
           /\ Arrives(cells, b, n)' <=> Arrives(cells, b, n)
           /\ Arrives(After(cells, k), b, n)' <=> Arrives(After(cells, k), b, n)
           /\ Arrives(After(After(cells, k), e), b, n)' <=> Arrives(After(After(cells, k), e), b, n)
  <1>1. Compared' = Compared /\ (Taken' <=> Taken) BY SameSource
  <1>2. Stored(cells)' <=> Stored(cells) BY <1>1 DEF Stored
  <1>3. Stored(After(cells, k))' <=> Stored(After(cells, k)) BY <1>1 DEF Stored
  <1>4. Stored(After(After(cells, k), e))' <=> Stored(After(After(cells, k), e)) BY <1>1 DEF Stored
  <1>5. Aims(cells, b, n)' <=> Aims(cells, b, n) BY <1>1 DEF Aims
  <1>6. Aims(After(cells, k), b, n)' <=> Aims(After(cells, k), b, n) BY <1>1 DEF Aims
  <1>7. Aims(After(After(cells, k), e), b, n)' <=> Aims(After(After(cells, k), e), b, n)
    BY <1>1 DEF Aims
  <1> QED BY <1>2, <1>3, <1>4, <1>5, <1>6, <1>7 DEF Arrives

\* The zero of an immediate, and a test against it.
LEMMA TestZero ==
    ASSUME NEW v, NEW o \in {"eq", "ne"}
    PROVE  /\ DecodeImm("i32", o, Imm(0)) = 0
           /\ Method("eq", "i32", v, 0) = Bool(v = 0)
           /\ cmp(<<"i32", o>>, v, 0) <=> (o = "eq") = (v = 0)
  <1>1. DecodeImm("i32", o, Imm(0)) = Wrap("i32", Signed("i16", 0)) BY DEF DecodeImm, Unsigned, Imm
  <1>2. Signed("i16", 0) = 0
    <2>1. 2^(Width["i16"] - 1) > 0 BY PowerAssumption
    <2> QED BY <2>1 DEF Signed
  <1>3. Wrap("i32", 0) = 0
    <2> DEFINE m == 2^Width["i32"]
    <2>1. m \in Int /\ m > 0 BY WidthAssumption, PowerAssumption
    <2> HIDE DEF m
    <2>2. 0 % m = 0 BY <2>1
    <2> QED BY <2>2 DEF Wrap, m
  <1>4. \A e \in {"eq", "ne"} : binary("i32", e, v, 0).val = Bool(IF e = "eq" THEN v = 0 ELSE v # 0)
    BY DEF binary, Ok, IntType, equality
  <1>5. Method("eq", "i32", v, 0) = Bool(v = 0) BY <1>4 DEF Method
  <1>6. cmp(<<"i32", o>>, v, 0) <=> binary("i32", o, v, 0).val = 1 BY DEF cmp
  <1> QED BY <1>1, <1>2, <1>3, <1>4, <1>5, <1>6 DEF Bool

\* The branch that a comparison becomes decides what the comparison computes.
LEMMA Becomes ==
    ASSUME NEW cs, NEW k, Sound(cs, k), NEW c0 \in from_cmp_instruction(k),
           NEW c, NEW off, NEW b,
           b = Branch(IF k.opcode[3] = "rr" THEN branch_cmp_instr(c) ELSE branch_cmp_instr_imm(c),
                      k.a, k.b, off)
    PROVE  /\ c = c0 => Narrow(b) /\ b.offset = off /\ (DecidesIn(cs, b) <=> ComputedIn(cs, k) # 0)
           /\ c \in negate(c0) =>
                Narrow(b) /\ b.offset = off /\ (DecidesIn(cs, b) <=> ComputedIn(cs, k) = 0)
  <1>1. PICK u, v : u = OperandIn(cs, k, k.a) /\ v = OperandIn(cs, k, k.b) OBVIOUS
  <1>2. c0 \in Comparators /\ c0 = <<k.opcode[1], k.opcode[2]>> BY DEF from_cmp_instruction
  <1>3. ComputedIn(cs, k) = Method(c0[2], c0[1], u, v) BY <1>1, <1>2 DEF ComputedIn
  <1>4. cmp(c0, u, v) <=> ComputedIn(cs, k) # 0 BY <1>2, <1>3, Decides
  <1>5. c0[2] \in Orders => u \in 0 .. UMax(c0[1]) /\ v \in 0 .. UMax(c0[1])
    BY <1>1, <1>2 DEF Sound
  <1>6. PICK f \in {"branch", "branch_imm"} : b = Branch(<<c[1], c[2], f>>, k.a, k.b, off)
    BY DEF branch_cmp_instr, branch_cmp_instr_imm
  <1>7. /\ b.opcode[1] = c[1] /\ b.opcode[2] = c[2] /\ b.a = k.a /\ b.b = k.b /\ b.offset = off
    BY <1>6, BranchFields
  <1>8. Narrow(b) BY <1>6 DEF Narrow
  <1>9. ASSUME c[1] = c0[1], c[2] \in Unsigned <=> c0[2] \in Unsigned, c = <<c[1], c[2]>>
        PROVE  DecidesIn(cs, b) <=> cmp(c, u, v)
    <2>1. \A p : OperandIn(cs, b, p) = OperandIn(cs, k, p)
      BY <1>2, <1>7, <1>9 DEF OperandIn, DecodeImm
    <2>2. OperandIn(cs, b, b.a) = u /\ OperandIn(cs, b, b.b) = v BY <1>1, <1>7, <2>1
    <2> QED BY <1>7, <1>9, <2>2 DEF DecidesIn
  <1>10. ASSUME c = c0 PROVE DecidesIn(cs, b) <=> ComputedIn(cs, k) # 0
    <2>1. c = <<c[1], c[2]>> BY <1>2, <1>10
    <2> QED BY <1>4, <1>9, <1>10, <2>1
  <1>11. ASSUME c \in negate(c0) PROVE DecidesIn(cs, b) <=> ComputedIn(cs, k) = 0
    <2>1. /\ c[1] = c0[1]
          /\ c[2] \in Unsigned <=> c0[2] \in Unsigned
          /\ cmp(c, u, v) <=> ~cmp(c0, u, v)
      BY <1>2, <1>5, <1>11, Negated
    <2>2. c = <<c[1], c[2]>> BY <1>11 DEF negate
    <2> QED BY <1>4, <1>9, <2>1, <2>2
  <1> QED BY <1>7, <1>8, <1>10, <1>11

\* The instruction that replaces the last one decides as Wasm does.
LEMMA FusedAims ==
    ASSUME NEW b \in Fused, NEW cs, NEW k, k = instrs[last_instr], Sound(cs, k),
           ComputedIn(cs, k) = Tested \/ k.result # cond, src.br \in {"eqz", "nez"}
    PROVE  /\ last_instr # 0 /\ k.result = cond /\ Space(k.result) # "Local"
           /\ Aims(cs, b, last_instr)
  <1>1. last_instr # 0 BY DEF Fused
  <1>2. PICK c0, c :
          /\ c0 \in from_cmp_instruction(k)
          /\ IF src.br = "nez" THEN c = c0 ELSE c \in negate(c0)
          /\ b \in try_fuse_branch_cmp(k, c, Offset(last_instr))
    <2>1. CASE src.br = "nez" BY <1>1, <2>1 DEF Fused
    <2>2. CASE src.br = "eqz" BY <1>1, <2>2 DEF Fused
    <2> QED BY <2>1, <2>2
  <1> DEFINE off == Offset(last_instr)
             x == Branch(IF k.opcode[3] = "rr" THEN branch_cmp_instr(c) ELSE branch_cmp_instr_imm(c),
                         k.a, k.b, off)
  <1>3. /\ Space(k.result) # "Local" /\ k.result = cond
        /\ b = IF ~Fits16(off) THEN FallbackOf(c, k, off) ELSE x
    BY <1>2 DEF try_fuse_branch_cmp
  <1>4. CASE ~Fits16(off)
    <2>1. Wide(b) BY <1>3, <1>4 DEF Wide, FallbackOf, make_branch_cmp_fallback
    <2> QED BY <1>1, <1>3, <2>1 DEF Aims
  <1>5. CASE Fits16(off)
    <2>1. b = x BY <1>3, <1>5
    <2>2. Narrow(b) /\ b.offset = off
          /\ (DecidesIn(cs, b) <=> IF src.br = "nez" THEN Tested # 0 ELSE Tested = 0)
      BY <1>2, <1>3, <2>1, Becomes
    <2>3. DecidesIn(cs, b) <=> Taken BY <2>2 DEF Taken
    <2>4. label.pinned => b.offset = label.at - last_instr BY <2>2 DEF Offset
    <2> QED BY <1>1, <1>3, <2>2, <2>3, <2>4 DEF Aims
  <1> QED BY <1>4, <1>5

\* A branch of its own tests the condition against zero.
UnoptInstr(c) ==
    LET at == Len(instrs) + 1
    IN IF Fits16(Offset(at))
       THEN Branch(branch_cmp_instr_imm(c), Reg(cond), Imm(0), Offset(at))
       ELSE make_branch_cmp_fallback(c, Reg(cond), Const(0), Offset(at))
LEMMA UnoptAims ==
    ASSUME NEW cs, cs[cond] = Tested, NEW o \in {"eq", "ne"}, src.br = IF o = "eq" THEN "eqz" ELSE "nez"
    PROVE  Aims(cs, UnoptInstr(<<"i32", o>>), Len(instrs) + 1)
  <1> DEFINE n == Len(instrs) + 1
             b == UnoptInstr(<<"i32", o>>)
  <1>1. CASE Fits16(Offset(n))
    <2>1. b = Branch(<<"i32", o, "branch_imm">>, Reg(cond), Imm(0), Offset(n))
      BY <1>1 DEF UnoptInstr, branch_cmp_instr_imm
    <2>2. /\ b.opcode[1] = "i32" /\ b.opcode[2] = o /\ b.a = Reg(cond) /\ b.b = Imm(0)
          /\ b.offset = Offset(n)
      BY <2>1, BranchFields
    <2>3. Narrow(b) BY <2>1 DEF Narrow
    <2> HIDE DEF b
    <2>4. OperandIn(cs, b, b.a) = Tested BY <2>2 DEF OperandIn, Reg
    <2>5. OperandIn(cs, b, b.b) = 0
      <3>1. OperandIn(cs, b, b.b) = DecodeImm("i32", o, Imm(0)) BY <2>2 DEF OperandIn, Imm
      <3> QED BY <3>1, TestZero
    <2>6. DecidesIn(cs, b) <=> (o = "eq") = (Tested = 0) BY <2>2, <2>4, <2>5, TestZero DEF DecidesIn
    <2>7. DecidesIn(cs, b) <=> Taken BY <2>6 DEF Taken
    <2>8. label.pinned => b.offset = label.at - n BY <2>2 DEF Offset
    <2> QED BY <2>3, <2>7, <2>8 DEF Aims, b
  <1>2. CASE ~Fits16(Offset(n))
    <2>1. Wide(b) BY <1>2 DEF UnoptInstr, Wide, make_branch_cmp_fallback
    <2> QED BY <2>1 DEF Aims
  <1> QED BY <1>1, <1>2

-----------------------------------------------------------------------------
(* The steps *)

\* Sequences of up to three words.
LEMMA OneWordMore ==
    ASSUME NEW a, NEW b
    PROVE  /\ Append(<<a>>, b) = <<a, b>> /\ Len(<<a>>) = 1 /\ Len(<<a, b>>) = 2
           /\ [<<a>> EXCEPT ![1] = b] = <<b>>
  <1> DEFINE S == {a, b}
             s == Append(<<a>>, b)
  <1>1. <<a>> \in Seq(S) /\ <<a, b>> \in Seq(S) OBVIOUS
  <1>2. s \in Seq(S) /\ Len(s) = 2 /\ s[1] = a /\ s[2] = b BY <1>1, AppendProperties
  <1> HIDE DEF s
  <1>3. s = <<a, b>> BY <1>1, <1>2
  <1>4. Len(<<a>>) = 1 /\ Len(<<a, b>>) = 2 OBVIOUS
  <1>5. [<<a>> EXCEPT ![1] = b] = <<b>> OBVIOUS
  <1> QED BY <1>3, <1>4, <1>5 DEF s

\* A third word behind two.
LEMMA ThirdWord ==
    ASSUME NEW a, NEW b, NEW c
    PROVE  Append(<<a, b>>, c) = <<a, b, c>>
  <1> DEFINE S == {a, b, c}
             t == Append(<<a, b>>, c)
  <1>1. <<a, b>> \in Seq(S) /\ <<a, b, c>> \in Seq(S) OBVIOUS
  <1>2. t \in Seq(S) /\ Len(t) = 3 /\ t[1] = a /\ t[2] = b /\ t[3] = c BY <1>1, AppendProperties
  <1> HIDE DEF t
  <1>3. t = <<a, b, c>> BY <1>1, <1>2
  <1> QED BY <1>3 DEF t

\* visit_i32_eqz negates a bitwise operator in place.
LEMMA FuseEqzStep == ASSUME BranchInv, fuse_i32_eqz PROVE BranchInv'
  <1>1. /\ pc = "eqz" /\ CanFuseEqz /\ pc' = "branch"
        /\ instrs' = [instrs EXCEPT ![last_instr].opcode[2] = Opposite[@]]
        /\ UNCHANGED <<src, label, last_instr, cond, user, cells, ip>>
    BY DEF fuse_i32_eqz
  <1>2. Sourced /\ Uncompared /\ ip = 1 BY <1>1 DEF BranchInv
  <1>3. PICK k : /\ instrs = <<k>> /\ Sound(cells, k) /\ k.result = "result"
                 /\ ComputedIn(cells, k) = Compared
    BY <1>2 DEF Uncompared
  <1>4. last_instr = 1 BY <1>1, <1>2 DEF CanFuseEqz, Uncompared
  <1>5. /\ k.opcode[1] = "i32" /\ k.opcode[2] \in Bitwise3
        /\ Space("result") # "Local" /\ cond = "result"
    BY <1>1, <1>3, <1>4 DEF CanFuseEqz
  <1>6. ~src.local /\ src.tests = "result" /\ src.eqz BY <1>2, <1>5 DEF Space, Uncompared
  <1>7. PICK x, y, p, q, r, f : f \in {"rr", "imm16"} /\ k = Compare(<<x, y, f>>, r, p, q)
    BY <1>3 DEF Sound
  <1>8. x = "i32" /\ y \in Bitwise3 /\ r = "result" BY <1>3, <1>5, <1>7, CompareFields
  <1> DEFINE z == Opposite[y]
             k2 == Compare(<<"i32", z, f>>, "result", p, q)
  <1>9. instrs' = <<k2>>
    <2>1. k.opcode = <<"i32", y, f>> BY <1>7, <1>8, CompareFields
    <2>2. [k EXCEPT !.opcode[2] = Opposite[@]] = k2 BY <1>7, <1>8 DEF Compare
    <2>3. instrs' = <<[k EXCEPT !.opcode[2] = Opposite[@]]>> BY <1>1, <1>3, <1>4
    <2> QED BY <2>2, <2>3
  <1>10. /\ k2.opcode[1] = "i32" /\ k2.opcode[2] = z /\ k2.result = "result" /\ k2.a = p /\ k2.b = q
         /\ k.opcode[1] = "i32" /\ k.opcode[2] = y /\ k.a = p /\ k.b = q
    BY <1>7, <1>8, CompareFields
  <1>11. \E a1, a2, a3, a4 : \E a5 \in {"rr", "imm16"}, a6 \in {"result", "tmp"} :
            k2 = Compare(<<a1, a2, a5>>, a6, a3, a4)
    BY <1>7
  <1>12. z = (CASE y = "and" -> "and_eqz" [] y = "or" -> "or_eqz" [] y = "xor" -> "xor_eqz")
    BY <1>8 DEF Opposite, Bitwise3
  <1> HIDE DEF k2, z
  <1>13. Sound(cells, k2) BY <1>8, <1>10, <1>11, <1>12 DEF Sound, Orders, Bitwise3
  <1>14. \A t : OperandIn(cells, k2, t) = OperandIn(cells, k, t)
    BY <1>8, <1>10, <1>12 DEF OperandIn, DecodeImm, Unsigned, Bitwise3
  <1>15. PICK u, v : u = OperandIn(cells, k, p) /\ v = OperandIn(cells, k, q) OBVIOUS
  <1>16. Compared = bitwise(y, u, v)
    <2>1. Compared = Method(y, "i32", u, v) BY <1>3, <1>10, <1>15 DEF ComputedIn
    <2> QED BY <1>8, <2>1 DEF Method, binary, Ok, IntType, Bitwise3
  <1>17. ComputedIn(cells, k2) = Bool(Compared = 0)
    <2>1. ComputedIn(cells, k2) = Method(z, "i32", u, v) BY <1>10, <1>14, <1>15 DEF ComputedIn
    <2>2. Method(z, "i32", u, v) = Bool(bitwise(y, u, v) = 0) BY <1>8, <1>12 DEF Method, Bitwise3
    <2> QED BY <1>16, <2>1, <2>2
  <1>18. Tested = Bool(Compared = 0) BY <1>6 DEF Tested
  <1>19. After(cells, k2)["result"] = Tested BY <1>2, <1>10, <1>17, <1>18, Effect DEF Sourced, RegisterNames
  <1>20. Tested' = Tested BY <1>1, SameSource
  <1>21. Uncoded'
    <2>1. After(cells', k2)[cond'] = Tested' BY <1>1, <1>5, <1>19, <1>20
    <2>2. Stored(After(cells, k2))' BY <1>1, <1>6 DEF Stored
    <2>3. Sound(cells', k2) BY <1>1, <1>13
    <2>4. cond' \in RegisterNames /\ last_instr' \in {0, 1} BY <1>1, <1>4, <1>5 DEF RegisterNames
    <2> QED BY <1>9, <1>10, <2>1, <2>2, <2>3, <2>4 DEF Uncoded
  <1>22. Sourced' BY <1>1, <1>2 DEF Sourced
  <1> QED BY <1>1, <1>2, <1>21, <1>22 DEF BranchInv

\* Or it compares the condition with zero.
LEMMA EqzStep == ASSUME BranchInv, visit_i32_eqz PROVE BranchInv'
  <1> DEFINE e == Compare(<<"i32", "eq", "imm16">>, "tmp", Reg(cond), Imm(0))
  <1>1. /\ pc = "eqz" /\ pc' = "branch" /\ instrs' = Append(instrs, e)
        /\ last_instr' = Len(instrs) + 1 /\ cond' = "tmp"
        /\ UNCHANGED <<src, label, user, cells, ip>>
    BY DEF visit_i32_eqz
  <1>2. Sourced /\ Uncompared /\ ip = 1 BY <1>1 DEF BranchInv
  <1>3. PICK k : /\ instrs = <<k>> /\ Sound(cells, k) /\ k.result = "result"
                 /\ ComputedIn(cells, k) = Compared
    BY <1>2 DEF Uncompared
  <1>4. instrs' = <<k, e>> /\ last_instr' = 2
    <2> HIDE DEF e
    <2>1. Append(<<k>>, e) = <<k, e>> /\ Len(<<k>>) = 1 BY OneWordMore
    <2> QED BY <1>1, <1>3, <2>1
  <1>5. src.eqz /\ cond = src.tests /\ src.tests \in {"result", "other"} BY <1>2 DEF Uncompared, Sourced
  <1>6. /\ IsCells(After(cells, k)) /\ After(cells, k)["result"] = Compared
        /\ After(cells, k)["other"] = cells["other"]
    BY <1>2, <1>3, Effect DEF Sourced, RegisterNames
  <1> DEFINE cs == After(cells, k)
  <1>7. /\ e.opcode[1] = "i32" /\ e.opcode[2] = "eq" /\ e.result = "tmp"
        /\ e.a = Reg(cond) /\ e.b = Imm(0)
    BY CompareFields
  <1>8. \E a1, a2, a3, a4 : \E a5 \in {"rr", "imm16"}, a6 \in {"result", "tmp"} :
            e = Compare(<<a1, a2, a5>>, a6, a3, a4)
    OBVIOUS
  <1> HIDE DEF e, cs
  <1>9. Sound(cs, e) BY <1>7, <1>8 DEF Sound, Orders
  <1>10. OperandIn(cs, e, e.a) = cs[cond] BY <1>7 DEF OperandIn, Reg
  <1>11. OperandIn(cs, e, e.b) = 0
    <2>1. OperandIn(cs, e, e.b) = DecodeImm("i32", "eq", Imm(0)) BY <1>7 DEF OperandIn, Imm
    <2> QED BY <2>1, TestZero
  <1>12. ComputedIn(cs, e) = Bool(cs[cond] = 0) BY <1>7, <1>10, <1>11, TestZero DEF ComputedIn
  <1>13. Tested = Bool(cs[cond] = 0) BY <1>5, <1>6 DEF Tested, cs
  <1>14. After(cs, e)["tmp"] = Tested BY <1>6, <1>7, <1>12, <1>13, Effect DEF cs, RegisterNames
  <1>15. Tested' = Tested BY <1>1, SameSource
  <1>16. Stored(After(cells, k))' BY <1>1, <1>6, SameTarget DEF Stored
  <1>17. Uncoded'
    <2>1. Sound(cells', k) /\ Sound(After(cells', k), e) BY <1>1, <1>3, <1>9 DEF cs
    <2>2. After(After(cells', k), e)[cond'] = Tested' BY <1>1, <1>14, <1>15 DEF cs
    <2>4. cond' \in RegisterNames BY <1>1 DEF RegisterNames
    <2> QED BY <1>4, <1>7, <1>16, <2>1, <2>2, <2>4 DEF Uncoded
  <1>18. Sourced' BY <1>1, <1>2 DEF Sourced
  <1> QED BY <1>1, <1>2, <1>17, <1>18 DEF BranchInv

\* Code is complete: the branch that was encoded waits for its label or runs.
LEMMA EncodedStep ==
    ASSUME BranchInv, pc = "branch", NEW at, NEW code, Encoded(at, code), at = Len(code), Coded'
    PROVE  BranchInv'
  <1>1. /\ instrs' = code /\ pc' = IF label.pinned THEN "run" ELSE "pin"
        /\ user' = IF label.pinned THEN 0 ELSE at
        /\ UNCHANGED <<src, label, cond, cells, ip>>
    BY DEF Encoded
  <1>2. Sourced /\ ip = 1 BY DEF BranchInv
  <1>3. Sourced' BY <1>1, <1>2 DEF Sourced
  <1> QED BY <1>1, <1>2, <1>3 DEF BranchInv

\* A branch takes the place of the comparison before it.
LEMMA FusedStep == ASSUME BranchInv, encode_branch_fused PROVE BranchInv'
  <1>1. pc = "branch" /\ Sourced /\ Uncoded /\ ip = 1 BY DEF encode_branch_fused, BranchInv
  <1>2. PICK b \in Fused : Encoded(last_instr, [instrs EXCEPT ![last_instr] = b])
    BY DEF encode_branch_fused
  <1>3. /\ instrs' = [instrs EXCEPT ![last_instr] = b]
        /\ UNCHANGED <<src, label, cond, cells, ip>>
    BY <1>2 DEF Encoded
  <1>4. last_instr # 0 /\ src.br \in {"eqz", "nez"} /\ IsCells(cells) BY <1>1 DEF Fused, Sourced
  <1>5. CASE last_instr \in {0, 1} /\ \E k : /\ instrs = <<k>> /\ Sound(cells, k) /\ k.result = "result"
                    /\ After(cells, k)[cond] = Tested /\ Stored(After(cells, k))
    <2>1. PICK k : /\ instrs = <<k>> /\ Sound(cells, k) /\ k.result = "result"
                   /\ After(cells, k)[cond] = Tested
      BY <1>5
    <2>2. last_instr = 1 /\ k = instrs[last_instr] BY <1>4, <1>5, <2>1
    <2>3. After(cells, k)["result"] = ComputedIn(cells, k) BY <1>4, <2>1, Effect DEF RegisterNames
    <2>4. ComputedIn(cells, k) = Tested \/ k.result # cond BY <2>1, <2>3
    <2>5. /\ k.result = cond /\ Space(k.result) # "Local" /\ Aims(cells, b, last_instr)
      BY <1>4, <2>1, <2>2, <2>4, FusedAims
    <2>6. ~src.local BY <2>1, <2>5 DEF Space
    <2>7. Arrives(cells, b, 1) BY <2>2, <2>5, <2>6 DEF Arrives, Stored
    <2>8. instrs' = <<b>> BY <1>3, <2>1, <2>2, OneWordMore
    <2>9. Arrives(cells, b, 1)' BY <1>3, <2>7, SameTarget
    <2>10. Coded' BY <1>1, <1>3, <2>8, <2>9 DEF Coded, OneWord
    <2>11. last_instr = Len(instrs') BY <2>2, <2>8
    <2> QED BY <1>1, <1>2, <1>3, <2>10, <2>11, EncodedStep
  <1>6. CASE last_instr = 2 /\ \E k, e : /\ instrs = <<k, e>> /\ Sound(cells, k)
                       /\ Sound(After(cells, k), e) /\ e.result = "tmp"
                       /\ After(After(cells, k), e)[cond] = Tested
                       /\ Stored(After(cells, k))
    <2>1. PICK k, e : /\ instrs = <<k, e>> /\ Sound(cells, k)
                      /\ Sound(After(cells, k), e) /\ e.result = "tmp"
                      /\ After(After(cells, k), e)[cond] = Tested
                      /\ Stored(After(cells, k))
      BY <1>6
    <2>0. PICK cs : cs = After(cells, k) OBVIOUS
    <2>2. last_instr = 2 /\ e = instrs[last_instr] BY <1>6, <2>1
    <2>3. IsCells(cs)
      <3>1. k.result \in RegisterNames BY <2>1, CompareFields DEF Sound, RegisterNames
      <3> QED BY <1>4, <2>0, <3>1, Effect
    <2>4. After(cs, e)["tmp"] = ComputedIn(cs, e) BY <2>1, <2>3, Effect DEF RegisterNames
    <2>5. ComputedIn(cs, e) = Tested \/ e.result # cond BY <2>0, <2>1, <2>4
    <2>6. Aims(cs, b, last_instr) BY <2>0, <1>4, <2>1, <2>2, <2>5, FusedAims
    <2>7. Arrives(cs, b, 2) BY <2>0, <2>1, <2>2, <2>6 DEF Arrives
    <2>8. instrs' = <<k, b>> BY <1>3, <2>1, <2>2
    <2>10. Arrives(After(cells, k), b, 2)' BY <1>3, <2>0, <2>7, SameTarget
    <2>11. Sound(cells', k) BY <1>3, <2>1
    <2>12. Coded' BY <1>1, <1>3, <2>8, <2>10, <2>11 DEF Coded, TwoWords
    <2>13. last_instr = Len(instrs') BY <2>2, <2>8
    <2> QED BY <1>1, <1>2, <1>3, <2>12, <2>13, EncodedStep
  <1> QED BY <1>1, <1>5, <1>6 DEF Uncoded

\* Or a branch on the condition follows.
LEMMA UnoptStep ==
    ASSUME BranchInv, NEW o \in {"eq", "ne"}, Unopt(<<"i32", o>>),
           src.br = IF o = "eq" THEN "eqz" ELSE "nez"
    PROVE  BranchInv'
  <1>0. PICK b, n : b = UnoptInstr(<<"i32", o>>) /\ n = Len(instrs) + 1 OBVIOUS
  <1>1. pc = "branch" /\ Encoded(n, Append(instrs, b)) BY <1>0 DEF Unopt, UnoptInstr
  <1>2. Sourced /\ Uncoded /\ ip = 1 /\ IsCells(cells) BY <1>1 DEF BranchInv, Sourced
  <1>3. instrs' = Append(instrs, b) /\ UNCHANGED <<src, label, cond, cells, ip>>
    BY <1>1 DEF Encoded
  <1>4. \A cs : cs[cond] = Tested => Aims(cs, b, n) BY <1>0, UnoptAims
  <1>5. CASE \E k : /\ instrs = <<k>> /\ Sound(cells, k) /\ k.result = "result"
                    /\ After(cells, k)[cond] = Tested /\ Stored(After(cells, k))
    <2>1. PICK k : /\ instrs = <<k>> /\ Sound(cells, k)
                   /\ After(cells, k)[cond] = Tested /\ Stored(After(cells, k))
      BY <1>5
    <2>2. n = 2 /\ instrs' = <<k, b>>
      <3>1. Append(<<k>>, b) = <<k, b>> /\ Len(<<k>>) = 1 BY OneWordMore
      <3> QED BY <1>0, <1>3, <2>1, <3>1
    <2>3. Arrives(After(cells, k), b, 2) BY <1>4, <2>1, <2>2 DEF Arrives
    <2>4. Arrives(After(cells, k), b, 2)' BY <1>3, <2>3, SameTarget
    <2>5. Sound(cells', k) BY <1>3, <2>1
    <2>6. Coded' BY <1>2, <1>3, <2>2, <2>4, <2>5 DEF Coded, TwoWords
    <2>7. n = Len(Append(instrs, b)) BY <1>3, <2>2, OneWordMore
    <2> QED BY <1>1, <2>6, <2>7, EncodedStep
  <1>6. CASE \E k, e : /\ instrs = <<k, e>> /\ Sound(cells, k)
                       /\ Sound(After(cells, k), e) /\ e.result = "tmp"
                       /\ After(After(cells, k), e)[cond] = Tested
                       /\ Stored(After(cells, k))
    <2>1. PICK k, e : /\ instrs = <<k, e>> /\ Sound(cells, k)
                      /\ Sound(After(cells, k), e) /\ e.result = "tmp"
                      /\ After(After(cells, k), e)[cond] = Tested
                      /\ Stored(After(cells, k))
      BY <1>6
    <2>2. n = 3 /\ instrs' = <<k, e, b>>
      <3>1. Append(<<k, e>>, b) = <<k, e, b>> BY ThirdWord
      <3>2. Len(<<k, e>>) = 2 OBVIOUS
      <3> QED BY <1>0, <1>3, <2>1, <3>1, <3>2
    <2>3. Stored(After(After(cells, k), e))
      <3>1. k.result \in RegisterNames BY <2>1, CompareFields DEF Sound, RegisterNames
      <3>2. IsCells(After(cells, k)) BY <1>2, <3>1, Effect
      <3>3. After(After(cells, k), e)["result"] = After(cells, k)["result"]
        BY <2>1, <3>2, Effect DEF RegisterNames
      <3> QED BY <2>1, <3>3 DEF Stored
    <2>4. Arrives(After(After(cells, k), e), b, 3) BY <1>4, <2>1, <2>2, <2>3 DEF Arrives
    <2>5. Arrives(After(After(cells, k), e), b, 3)' BY <1>3, <2>4, SameTarget
    <2>6. Sound(cells', k) /\ Sound(After(cells', k), e) BY <1>3, <2>1
    <2>7. Coded' BY <1>2, <1>3, <2>2, <2>5, <2>6 DEF Coded, ThreeWords
    <2>8. n = Len(Append(instrs, b)) BY <1>3, <2>2
    <2> QED BY <1>1, <2>7, <2>8, EncodedStep
  <1> QED BY <1>2, <1>5, <1>6 DEF Uncoded

-----------------------------------------------------------------------------
(* The label is pinned *)

\* The offset written later, or the fallback, in the place of the branch.
LEMMA PinnedAims ==
    ASSUME NEW cs, NEW b, NEW n, NEW dst \in Int, NEW c \in from_cmp_branch_instruction(b), NEW b2,
           b2 = IF Fits16(dst - n) THEN [b EXCEPT !.offset = dst - n] ELSE FallbackOf(c, b, dst - n),
           Aims(cs, b, n), label' = Pinned(dst), Taken' <=> Taken
    PROVE  Wide(b2) \/ (Narrow(b2) /\ (DecidesIn(cs, b2) <=> Taken') /\ b2.offset = dst - n)
  <1>1. CASE ~Fits16(dst - n) BY <1>1 DEF Wide, FallbackOf, make_branch_cmp_fallback
  <1>2. CASE Fits16(dst - n)
    <2>1. c = <<b.opcode[1], b.opcode[2]>> /\ b.opcode[3] \in {"branch", "branch_imm"}
      BY DEF from_cmp_branch_instruction
    <2>2. ~Wide(b) BY <2>1 DEF Wide, branch_cmp_fallback
    <2>3. Narrow(b) /\ (DecidesIn(cs, b) <=> Taken) BY <2>2 DEF Aims
    <2>4. PICK x, y, p, q, o, f : f \in {"branch", "branch_imm"} /\ b = Branch(<<x, y, f>>, p, q, o)
      BY <2>3 DEF Narrow
    <2>5. b2 = Branch(<<x, y, f>>, p, q, dst - n) BY <1>2, <2>4 DEF Branch
    <2>6. Narrow(b2) BY <2>4, <2>5 DEF Narrow
    <2>7. /\ b2.opcode = b.opcode /\ b2.a = b.a /\ b2.b = b.b /\ b2.offset = dst - n
      BY <2>4, <2>5, BranchFields
    <2>8. DecidesIn(cs, b2) <=> DecidesIn(cs, b) BY <2>7 DEF DecidesIn, OperandIn
    <2> QED BY <2>3, <2>6, <2>7, <2>8
  <1> QED BY <1>1, <1>2

\* update_branch_offset completes the branch, the last word of the code.
LEMMA PinStep == ASSUME BranchInv, update_branch_offset PROVE BranchInv'
  <1>1. /\ pc = "pin" /\ pc' = "run" /\ user' = 0 /\ UNCHANGED <<src, last_instr, cond, cells, ip>>
    BY DEF update_branch_offset
  <1>2. Sourced /\ Coded /\ ip = 1 /\ user = Len(instrs) BY <1>1 DEF BranchInv
  <1>3. PICK d \in Forward : \E c \in from_cmp_branch_instruction(instrs[user]) :
          LET dst == Len(instrs) + 1 + d
          IN /\ label' = Pinned(dst)
             /\ instrs' = [instrs EXCEPT ![user] =
                    IF Fits16(dst - user) THEN [@ EXCEPT !.offset = dst - user]
                                          ELSE FallbackOf(c, @, dst - user)]
    BY DEF update_branch_offset
  <1>4. PICK dst, n, b : dst = Len(instrs) + 1 + d /\ n = user /\ b = instrs[user] OBVIOUS
  <1>5. PICK c \in from_cmp_branch_instruction(b) :
          /\ label' = Pinned(dst)
          /\ instrs' = [instrs EXCEPT ![n] =
                    IF Fits16(dst - n) THEN [b EXCEPT !.offset = dst - n] ELSE FallbackOf(c, b, dst - n)]
    BY <1>3, <1>4
  <1>6. PICK b2 : b2 = IF Fits16(dst - n) THEN [b EXCEPT !.offset = dst - n]
                                          ELSE FallbackOf(c, b, dst - n)
    OBVIOUS
  <1>7. label'.pinned /\ label'.at = dst BY <1>5 DEF Pinned
  <1>8. Compared' = Compared /\ (Taken' <=> Taken) BY <1>1, SameSource
  <1>9. n = Len(instrs) /\ instrs' = [instrs EXCEPT ![n] = b2] /\ b = instrs[n]
    BY <1>2, <1>4, <1>5, <1>6
  <1>10. d \in Nat BY BranchAssumption
  <1>11. ASSUME dst \in Int, Coded' PROVE BranchInv'
    <2>1. Sourced' BY <1>1, <1>2, <1>7, <1>11 DEF Sourced
    <2> QED BY <1>1, <1>2, <1>7, <1>11, <2>1 DEF BranchInv
  <1>12. ASSUME dst \in Int, NEW cs, Aims(cs, b, n)
         PROVE  Wide(b2) \/ (Narrow(b2) /\ (DecidesIn(cs, b2) <=> Taken') /\ b2.offset = dst - n)
    BY <1>5, <1>6, <1>8, <1>12, PinnedAims
  <1>13. CASE OneWord(1)
    <2>1. instrs = <<b>> /\ n = 1 /\ Aims(cells, b, n) /\ Stored(cells)
      BY <1>9, <1>13 DEF OneWord, Arrives
    <2>2. dst \in Int BY <1>4, <1>9, <1>10, <2>1
    <2>3. instrs' = <<b2>> BY <1>9, <2>1, OneWordMore
    <2>4. Arrives(cells, b2, 1)'
      <3>1. Aims(cells, b2, 1)' BY <1>1, <1>7, <1>12, <2>1, <2>2 DEF Aims
      <3>2. Stored(cells)' BY <1>1, <1>8, <2>1 DEF Stored
      <3> QED BY <3>1, <3>2 DEF Arrives
    <2> QED BY <1>1, <1>2, <1>11, <2>2, <2>3, <2>4 DEF Coded, OneWord
  <1>14. CASE TwoWords(1)
    <2>1. PICK k, z : instrs = <<k, z>> /\ Sound(cells, k) /\ Arrives(After(cells, k), z, 2)
      BY <1>14 DEF TwoWords
    <2>2. z = b /\ n = 2 BY <1>9, <2>1
    <2>3. dst \in Int BY <1>4, <1>9, <1>10, <2>2
    <2>4. instrs' = <<k, b2>> BY <1>9, <2>1, <2>2
    <2>5. Arrives(After(cells, k), b2, 2)'
      <3>1. Aims(After(cells, k), b2, 2)'
        BY <1>1, <1>7, <1>12, <2>1, <2>2, <2>3 DEF Aims, Arrives
      <3>2. Stored(After(cells, k))' BY <1>1, <1>8, <2>1 DEF Stored, Arrives
      <3> QED BY <3>1, <3>2 DEF Arrives
    <2>6. Sound(cells', k) BY <1>1, <2>1
    <2> QED BY <1>1, <1>2, <1>11, <2>3, <2>4, <2>5, <2>6 DEF Coded, TwoWords
  <1>15. CASE ThreeWords(1)
    <2>1. PICK k, e, z : /\ instrs = <<k, e, z>> /\ Sound(cells, k) /\ Sound(After(cells, k), e)
                         /\ Arrives(After(After(cells, k), e), z, 3)
      BY <1>15 DEF ThreeWords
    <2>2. z = b /\ n = 3 BY <1>9, <2>1
    <2>3. dst \in Int BY <1>4, <1>9, <1>10, <2>2
    <2>4. instrs' = <<k, e, b2>> BY <1>9, <2>1, <2>2
    <2>5. Arrives(After(After(cells, k), e), b2, 3)'
      <3>1. Aims(After(After(cells, k), e), b2, 3)'
        BY <1>1, <1>7, <1>12, <2>1, <2>2, <2>3 DEF Aims, Arrives
      <3>2. Stored(After(After(cells, k), e))' BY <1>1, <1>8, <2>1 DEF Stored, Arrives
      <3> QED BY <3>1, <3>2 DEF Arrives
    <2>6. Sound(cells', k) /\ Sound(After(cells', k), e) BY <1>1, <2>1
    <2> QED BY <1>1, <1>2, <1>11, <2>3, <2>4, <2>5, <2>6 DEF Coded, ThreeWords
  <1> QED BY <1>2, <1>13, <1>14, <1>15 DEF Coded

-----------------------------------------------------------------------------
(* Execution *)

\* What a comparison and a branch look like when they run.
LEMMA Kind ==
    ASSUME NEW i, NEW cs, NEW n
    PROVE  /\ Sound(cs, i) => i.opcode[3] \in {"rr", "imm16"} /\ i.result \in {"result", "tmp"}
           /\ Aims(cs, i, n) => i.opcode[3] \notin {"rr", "imm16"}
           /\ Narrow(i) => i.opcode # branch_cmp_fallback
  <1>1. ASSUME Sound(cs, i) PROVE i.opcode[3] \in {"rr", "imm16"} /\ i.result \in {"result", "tmp"}
    BY <1>1, CompareFields DEF Sound
  <1>2. ASSUME Narrow(i) PROVE i.opcode[3] \in {"branch", "branch_imm"}
    BY <1>2, BranchFields DEF Narrow
  <1>3. Wide(i) => i.opcode[3] = "fallback" BY DEF Wide, branch_cmp_fallback
  <1> QED BY <1>1, <1>2, <1>3 DEF Aims, branch_cmp_fallback

\* The registers a comparison leaves are those the rest of the code counts on.
LEMMA ComparedArrives ==
    ASSUME Sourced, UNCHANGED <<src, label>>, NEW k, NEW e, NEW b, NEW n,
           Sound(cells, k), cells' = After(cells, k)
    PROVE  /\ Arrives(After(cells, k), b, n) => Arrives(cells, b, n)'
           /\ Arrives(After(After(cells, k), e), b, n) => Arrives(After(cells, e), b, n)'
           /\ Sourced'
  <1>1. k.result \in {"result", "tmp"} BY Kind
  <1>2. IsCells(cells) BY DEF Sourced
  <1>3. IsCells(cells') /\ \A r \in {"lhs", "rhs", "other"} : cells'[r] = cells[r]
    BY <1>1, <1>2, Effect DEF RegisterNames
  <1>4. Compared' = Compared /\ (Taken' <=> Taken) BY <1>3, SameSource
  <1>5. Sourced' BY <1>3 DEF Sourced
  <1>6. Arrives(After(cells, k), b, n) => Arrives(cells, b, n)' BY <1>4 DEF Arrives, Aims, Stored
  <1>7. Arrives(After(After(cells, k), e), b, n) => Arrives(After(cells, e), b, n)'
    BY <1>4 DEF Arrives, Aims, Stored
  <1> QED BY <1>5, <1>6, <1>7

\* A comparison runs.
LEMMA CompareStep == ASSUME BranchInv, execute_compare PROVE BranchInv'
  <1>1. /\ pc = "run" /\ ip \in DOMAIN instrs /\ instrs[ip].opcode[3] \in {"rr", "imm16"}
        /\ cells' = After(cells, instrs[ip]) /\ ip' = ip + 1
        /\ UNCHANGED <<src, label, instrs, last_instr, cond, user, pc>>
    BY DEF execute_compare, At, After, Computed, ComputedIn, Method, OperandOf, OperandIn
  <1>2. Sourced /\ Coded /\ label.pinned BY <1>1 DEF BranchInv
  <1>3. ASSUME Sourced', Coded' PROVE BranchInv' BY <1>1, <1>2, <1>3 DEF BranchInv
  <1>4. ASSUME OneWord(ip) PROVE FALSE BY <1>1, <1>4, Kind DEF OneWord, Arrives
  <1>5. CASE TwoWords(ip)
    <2>1. PICK k, b : /\ instrs = <<k, b>>
                      /\ \/ ip = 1 /\ Sound(cells, k) /\ Arrives(After(cells, k), b, 2)
                         \/ ip = 2 /\ k.opcode[3] \in {"rr", "imm16"} /\ Arrives(cells, b, 2)
      BY <1>5 DEF TwoWords
    <2>2. ip # 2 BY <1>1, <2>1, Kind DEF Arrives
    <2>3. /\ ip = 1 /\ instrs[ip] = k /\ Sound(cells, k) /\ Arrives(After(cells, k), b, 2)
      BY <2>1, <2>2
    <2>4. Sourced' /\ Arrives(cells, b, 2)' BY <1>1, <1>2, <2>3, ComparedArrives
    <2>5. ip' = 2 /\ instrs' = <<k, b>> /\ k.opcode[3] \in {"rr", "imm16"} BY <1>1, <2>1, <2>3
    <2> QED BY <1>3, <2>4, <2>5 DEF Coded, TwoWords
  <1>6. CASE ThreeWords(ip)
    <2>1. PICK k, e, b :
            /\ instrs = <<k, e, b>>
            /\ \/ /\ ip = 1 /\ Sound(cells, k) /\ Sound(After(cells, k), e)
                  /\ Arrives(After(After(cells, k), e), b, 3)
               \/ ip = 2 /\ Sound(cells, e) /\ Arrives(After(cells, e), b, 3)
               \/ ip = 3 /\ Arrives(cells, b, 3)
      BY <1>6 DEF ThreeWords
    <2>2. ip # 3 BY <1>1, <2>1, Kind DEF Arrives
    <2>3. CASE ip = 1
      <3>1. instrs[ip] = k BY <2>1, <2>3
      <3>2. Sourced' /\ Arrives(After(cells, e), b, 3)' BY <1>1, <1>2, <2>1, <2>3, <3>1, ComparedArrives
      <3>3. ip' = 2 /\ instrs' = <<k, e, b>> /\ Sound(cells', e) BY <1>1, <2>1, <2>3, <3>1
      <3> QED BY <1>3, <3>2, <3>3 DEF Coded, ThreeWords
    <2>4. CASE ip = 2
      <3>1. instrs[ip] = e BY <2>1, <2>4
      <3>2. Sourced' /\ Arrives(cells, b, 3)' BY <1>1, <1>2, <2>1, <2>4, <3>1, ComparedArrives
      <3>3. ip' = 3 /\ instrs' = <<k, e, b>> BY <1>1, <2>1, <2>4
      <3> QED BY <1>3, <3>2, <3>3 DEF Coded, ThreeWords
    <2> QED BY <2>1, <2>2, <2>3, <2>4
  <1> QED BY <1>2, <1>4, <1>5, <1>6 DEF Coded

\* A word that is no comparison is the last, and decides as Wasm does.
LEMMA LastWord ==
    ASSUME Coded, instrs[ip].opcode[3] \notin {"rr", "imm16"}
    PROVE  ip = Len(instrs) /\ ip \in {1, 2, 3} /\ Arrives(cells, instrs[ip], ip)
  <1>1. CASE OneWord(ip) BY <1>1 DEF OneWord
  <1>2. CASE TwoWords(ip)
    <2>1. PICK k, b : /\ instrs = <<k, b>>
                      /\ \/ ip = 1 /\ Sound(cells, k)
                         \/ ip = 2 /\ Arrives(cells, b, 2)
      BY <1>2 DEF TwoWords
    <2>2. ip # 1 BY <2>1, Kind
    <2> QED BY <2>1, <2>2
  <1>3. CASE ThreeWords(ip)
    <2>1. PICK k, e, b : /\ instrs = <<k, e, b>>
                         /\ \/ ip = 1 /\ Sound(cells, k)
                            \/ ip = 2 /\ Sound(cells, e)
                            \/ ip = 3 /\ Arrives(cells, b, 3)
      BY <1>3 DEF ThreeWords
    <2>2. ip # 1 BY <2>1, Kind
    <2>3. ip # 2 BY <2>1, Kind
    <2> QED BY <2>1, <2>2, <2>3
  <1> QED BY <1>1, <1>2, <1>3 DEF Coded

\* A jump ends the code: the result is where it must be, and the branch that
\* was encoded in one word goes where Wasm sends it.
LEMMA JumpStep ==
    ASSUME BranchInv, pc = "run", ip \in DOMAIN instrs, instrs[ip].opcode[3] \notin {"rr", "imm16"},
           NEW taken, NEW offset, Jump(taken, offset),
           Narrow(instrs[ip]) => (taken <=> DecidesIn(cells, instrs[ip])) /\ offset = instrs[ip].offset
    PROVE  BranchInv'
  <1>1. /\ ip' = (IF taken THEN ip + offset ELSE ip + 1) /\ pc' = "done"
        /\ UNCHANGED <<src, label, instrs, last_instr, cond, user, cells>>
    BY DEF Jump
  <1>2. Sourced /\ Coded /\ label.pinned /\ label.at \in Int BY DEF BranchInv, Sourced
  <1>3. ip = Len(instrs) /\ ip \in {1, 2, 3} /\ Aims(cells, instrs[ip], ip) /\ Stored(cells)
    BY <1>2, LastWord DEF Arrives
  <1>4. Compared' = Compared /\ (Taken' <=> Taken) BY <1>1, SameSource
  <1>5. ResultKept' BY <1>1, <1>3, <1>4 DEF ResultKept, Stored
  <1>6. SameBranch'
    <2>1. CASE Wide(instrs[ip])
      <3>1. UsesFallback' BY <1>1, <2>1 DEF UsesFallback, Wide
      <3> QED BY <3>1 DEF SameBranch
    <2>2. CASE ~Wide(instrs[ip])
      <3>1. /\ taken <=> Taken
            /\ offset = label.at - ip
        BY <1>2, <1>3, <2>2 DEF Aims
      <3>2. ip' = IF Taken THEN label.at ELSE Len(instrs) + 1 BY <1>1, <1>2, <1>3, <3>1
      <3>3. Expected' = IF Taken THEN label.at ELSE Len(instrs) + 1 BY <1>1, <1>4 DEF Expected
      <3> QED BY <3>2, <3>3 DEF SameBranch
    <2> QED BY <2>1, <2>2
  <1>7. Sourced' BY <1>1, <1>2 DEF Sourced
  <1> QED BY <1>1, <1>5, <1>6, <1>7 DEF BranchInv

\* The branch instructions jump.
LEMMA BranchesJump ==
    ASSUME BranchInv, execute_branch_binop \/ execute_branch_binop_imm \/ execute_branch_cmp_fallback
    PROVE  BranchInv'
  <1>1. CASE execute_branch_binop
    <2>1. PICK taken, offset :
            /\ taken = DecidesIn(cells, instrs[ip]) /\ offset = instrs[ip].offset OBVIOUS
    <2>2. /\ pc = "run" /\ ip \in DOMAIN instrs /\ instrs[ip].opcode[3] = "branch"
          /\ Jump(taken, offset)
      BY <1>1, <2>1 DEF execute_branch_binop, At, DecidesIn, OperandIn, OperandOf
    <2> QED BY <2>1, <2>2, JumpStep
  <1>2. CASE execute_branch_binop_imm
    <2>1. PICK taken, offset :
            /\ taken = DecidesIn(cells, instrs[ip]) /\ offset = instrs[ip].offset OBVIOUS
    <2>2. /\ pc = "run" /\ ip \in DOMAIN instrs /\ instrs[ip].opcode[3] = "branch_imm"
          /\ Jump(taken, offset)
      BY <1>2, <2>1 DEF execute_branch_binop_imm, At, DecidesIn, OperandIn, OperandOf
    <2> QED BY <2>1, <2>2, JumpStep
  <1>3. CASE execute_branch_cmp_fallback
    <2>1. /\ pc = "run" /\ ip \in DOMAIN instrs /\ instrs[ip].opcode = branch_cmp_fallback
          /\ \E taken, offset : Jump(taken, offset)
      BY <1>3 DEF execute_branch_cmp_fallback, At
    <2>2. ~Narrow(instrs[ip]) BY <2>1, Kind
    <2>3. instrs[ip].opcode[3] \notin {"rr", "imm16"} BY <2>1 DEF branch_cmp_fallback
    <2> QED BY <2>1, <2>2, <2>3, JumpStep
  <1> QED BY <1>1, <1>2, <1>3

-----------------------------------------------------------------------------
\* Every step of encoding and of running the code keeps BranchInv.
THEOREM BranchInvariance == BranchSpec => []BranchInv
  <1>1. BranchInit => BranchInv BY BranchStarts
  <1>2. BranchInv /\ [BranchNext]_branchVars => BranchInv'
    <2> SUFFICES ASSUME BranchInv, [BranchNext]_branchVars PROVE BranchInv' OBVIOUS
    <2>1. CASE fuse_i32_eqz BY <2>1, FuseEqzStep
    <2>2. CASE visit_i32_eqz BY <2>2, EqzStep
    <2>3. CASE encode_branch_fused BY <2>3, FusedStep
    <2>4. CASE encode_branch_eqz_unopt
      <3>1. src.br = "eqz" /\ Unopt(<<"i32", "eq">>) BY <2>4 DEF encode_branch_eqz_unopt
      <3> QED BY <3>1, UnoptStep
    <2>5. CASE encode_branch_nez_unopt
      <3>1. src.br = "nez" /\ Unopt(<<"i32", "ne">>) BY <2>5 DEF encode_branch_nez_unopt
      <3> QED BY <3>1, UnoptStep
    <2>6. CASE update_branch_offset BY <2>6, PinStep
    <2>7. CASE execute_compare BY <2>7, CompareStep
    <2>8. CASE execute_branch_binop \/ execute_branch_binop_imm \/ execute_branch_cmp_fallback
      BY <2>8, BranchesJump
    <2>9. CASE UNCHANGED branchVars
      <3>1. UNCHANGED <<src, label, instrs, last_instr, cond, user, cells, ip, pc>>
        BY <2>9 DEF branchVars
      <3>2. Compared' = Compared /\ Tested' = Tested /\ (Taken' <=> Taken) BY <3>1, SameSource
      <3>3. Sourced => Sourced' BY <3>1 DEF Sourced
      <3>4. Uncompared => Uncompared' BY <3>1, <3>2 DEF Uncompared
      <3>5. Uncoded => Uncoded' BY <3>1, <3>2 DEF Uncoded, Stored
      <3>6. OneWord(ip) => OneWord(ip)' BY <3>1, SameTarget DEF OneWord
      <3>7. TwoWords(ip) => TwoWords(ip)' BY <3>1, SameTarget DEF TwoWords
      <3>8. ThreeWords(ip) => ThreeWords(ip)' BY <3>1, SameTarget DEF ThreeWords
      <3>9. Coded => Coded' BY <3>6, <3>7, <3>8 DEF Coded
      <3>10. SameBranch => SameBranch' BY <3>1, <3>2 DEF SameBranch, Expected, UsesFallback
      <3>11. ResultKept => ResultKept' BY <3>1, <3>2 DEF ResultKept
      <3> QED BY <3>1, <3>3, <3>4, <3>5, <3>9, <3>10, <3>11 DEF BranchInv
    <2>10. CASE BranchDone BY <2>9, <2>10 DEF BranchDone
    <2> QED BY <2>1, <2>2, <2>3, <2>4, <2>5, <2>6, <2>7, <2>8, <2>9, <2>10 DEF BranchNext
  <1> QED BY <1>1, <1>2, PTL DEF BranchSpec

\* A branch encoded within 16 bits goes where the Wasm program sends it, for
\* every comparison, operand and label position: whether it was fused with the
\* comparison, negated for br_if of an eqz, or tests a register of its own.
THEOREM SameBranchAlways == BranchSpec => []SameBranch
  <1>1. BranchInv => SameBranch BY DEF BranchInv, SameBranch
  <1> QED BY <1>1, BranchInvariance, PTL

\* A comparison whose result goes to a local stores it, fused or not.
THEOREM ResultAlwaysKept == BranchSpec => []ResultKept
  <1>1. BranchInv => ResultKept BY DEF BranchInv, ResultKept
  <1> QED BY <1>1, BranchInvariance, PTL
=============================================================================

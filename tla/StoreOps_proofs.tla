--------------------------- MODULE StoreOps_proofs ---------------------------
(* The operators on memories, tables, segments and globals implement what     *)
(* Wasm says of them, for contents of any size, any limiter and any fuel.     *)
EXTENDS StoreOps, SequenceTheorems, TLAPS

-----------------------------------------------------------------------------
(* Numbers *)

\* Remainders of what is close to the modulus.
LEMMA SmallMod == ASSUME NEW a \in Int, NEW m \in Nat, 0 <= a, a < m PROVE a % m = a
  OBVIOUS
\* Below zero, the remainder goes around once.
LEMMA NegativeMod ==
    ASSUME NEW a \in Int, NEW m \in Nat, 0 - m <= a, a < 0 PROVE a % m = a + m
  OBVIOUS
\* A byte that was cut to its width is not changed by cutting it again.
LEMMA WrapTwice ==
    ASSUME NEW a \in Int, NEW m \in Nat, m > 0 PROVE (a % m) % m = a % m /\ a % m \in Nat
  OBVIOUS

\* The widths of a byte, of an immediate and of a value.
LEMMA Powers ==
    /\ UMax("i64") \in Nat /\ UMax("i32") \in Nat /\ UMax("i16") \in Nat
    /\ 2^Width["i8"] \in Nat /\ 2^Width["i8"] > 0 /\ UMax("i8") + 1 = 2^Width["i8"]
  <1> DEFINE H(ty) == 2^(Width[ty] - 1)
  <1>1. \A ty \in {"i8", "i16", "i32", "i64"} : 2^Width[ty] \in Int /\ H(ty) \in Int
    BY WidthAssumption
  <1>2. \A ty \in {"i8", "i16", "i32", "i64"} : H(ty) > 0 /\ 2^Width[ty] = 2 * H(ty)
    BY PowerAssumption
  <1> HIDE DEF H
  <1> QED BY <1>1, <1>2 DEF UMax

\* A small signed constant survives its trip through the 16 bits of an immediate.
LEMMA SignedImmediate ==
    ASSUME NEW ty \in {"i32", "i64"}, NEW b \in 0 .. UMax(ty),
           -SMin("i16") <= Signed(ty, b), Signed(ty, b) <= SMax("i16")
    PROVE  Wrap(ty, Signed("i16", Wrap("i16", Signed(ty, b)))) = b
  <1> DEFINE h == 2^(Width["i16"] - 1)
             H == 2^(Width[ty] - 1)
             v == Signed(ty, b)
  <1>1. h \in Int /\ H \in Int BY WidthAssumption
  <1>2. h > 0 /\ h <= H /\ 2^Width["i16"] = 2 * h /\ 2^Width[ty] = 2 * H
    <2>1. Width["i16"] <= Width[ty] BY WidthAssumption
    <2> QED BY <2>1, PowerAssumption
  <1>3. SMin("i16") = h /\ SMax("i16") = h - 1 /\ UMax(ty) = 2 * H - 1
    BY <1>2 DEF SMin, SMax, UMax
  <1>4. v = IF b < H THEN b ELSE b - 2 * H BY <1>2 DEF Signed
  <1>5. \A n : Wrap("i16", n) = n % (2 * h) /\ Wrap(ty, n) = n % (2 * H)
    BY <1>2 DEF Wrap
  <1>6. \A n : Signed("i16", n) = IF n < h THEN n ELSE n - 2 * h BY <1>2 DEF Signed
  <1> HIDE DEF h, H, v
  <1>7. b \in Int /\ 0 <= b /\ b < 2 * H BY <1>1, <1>3
  <1>8. v \in Int /\ -h <= v /\ v < h BY <1>1, <1>3, <1>4, <1>7 DEF v
  <1>9. CASE v >= 0
    <2>1. v % (2 * h) = v BY SMTT(30), <1>1, <1>2, <1>8, <1>9, SmallMod
    <2>2. Signed("i16", Wrap("i16", v)) = v BY <2>1, <1>5, <1>6, <1>8
    <2>3. v = b BY <1>1, <1>4, <1>7, <1>9
    <2>4. b % (2 * H) = b BY <1>1, <1>2, <1>7, SmallMod
    <2> QED BY <2>2, <2>3, <2>4, <1>5 DEF v
  <1>10. CASE v < 0
    <2>0. 2 * h \in Nat /\ 2 * H \in Nat /\ 0 - 2 * h <= v /\ 0 - 2 * H <= v
      BY <1>1, <1>2, <1>8
    <2>1. v % (2 * h) = v + 2 * h BY <2>0, <1>8, <1>10, NegativeMod
    <2>2. Wrap("i16", v) = v + 2 * h /\ ~(v + 2 * h < h) BY <2>1, <1>1, <1>5, <1>8
    <2>3. Signed("i16", Wrap("i16", v)) = v BY <2>2, <1>1, <1>6, <1>8
    <2>4. b = v + 2 * H BY <1>1, <1>4, <1>7, <1>10
    <2>5. v % (2 * H) = v + 2 * H BY <2>0, <1>8, <1>10, NegativeMod
    <2> QED BY <2>3, <2>4, <2>5, <1>5 DEF v
  <1> QED BY <1>8, <1>9, <1>10

-----------------------------------------------------------------------------
(* Sequences *)

\* copy_from_slice overwrites the cells of the destination and no others.
LEMMA CopyOverwrites ==
    ASSUME NEW s \in Seq(Nat), NEW src \in Seq(Nat), NEW at \in Nat, NEW from \in Nat, NEW n \in Nat,
           at + n <= Len(s), from + n <= Len(src)
    PROVE  /\ copy_from_slice(s, at, src, from, n) \in Seq(Nat)
           /\ Len(copy_from_slice(s, at, src, from, n)) = Len(s)
           /\ copy_from_slice(s, at, src, from, n)
              = [i \in DOMAIN s |-> IF i > at /\ i <= at + n THEN src[from + (i - at)] ELSE s[i]]
  <1> DEFINE p == SubSeq(s, 1, at)
             q == SubSeq(src, from + 1, from + n)
             r == SubSeq(s, at + n + 1, Len(s))
             pq == p \o q
             c == pq \o r
  <1>1. p \in Seq(Nat) /\ Len(p) = at /\ \A i \in 1 .. at : p[i] = s[i] OBVIOUS
  <1>2. q \in Seq(Nat) /\ Len(q) = n /\ \A i \in 1 .. n : q[i] = src[from + i] OBVIOUS
  <1>3. /\ r \in Seq(Nat) /\ Len(r) = Len(s) - (at + n)
        /\ \A i \in 1 .. Len(s) - (at + n) : r[i] = s[at + n + i]
    OBVIOUS
  <1> HIDE DEF p, q, r
  <1>4. pq \in Seq(Nat) /\ Len(pq) = at + n
    BY <1>1, <1>2, ConcatProperties
  <1>5. \A i \in 1 .. at + n : pq[i] = IF i <= at THEN s[i] ELSE src[from + (i - at)]
    <2>1. \A i \in 1 .. at + n : pq[i] = IF i <= at THEN p[i] ELSE q[i - at]
      BY ZenonT(40), <1>1, <1>2, ConcatProperties
    <2> HIDE DEF pq
    <2> TAKE i \in 1 .. at + n
    <2>2. CASE i <= at BY <2>1, <2>2, <1>1
    <2>3. CASE ~(i <= at)
      <3>1. i - at \in 1 .. n BY <2>3
      <3> QED BY <2>1, <2>3, <3>1, <1>2
    <2> QED BY <2>2, <2>3
  <1> HIDE DEF pq
  <1>c. /\ c \in Seq(Nat) /\ Len(c) = Len(pq) + Len(r)
        /\ \A i \in 1 .. Len(pq) + Len(r) :
              c[i] = IF i <= Len(pq) THEN pq[i] ELSE r[i - Len(pq)]
    BY <1>3, <1>4, ConcatProperties
  <1> HIDE DEF c
  <1>6. c \in Seq(Nat) /\ Len(pq) + Len(r) = Len(s) /\ Len(c) = Len(s) BY <1>c, <1>3, <1>4
  <1>7. \A i \in 1 .. Len(s) : c[i] = IF i <= at + n THEN pq[i] ELSE r[i - (at + n)]
    BY <1>c, <1>4, <1>6
  <1>8. \A i \in 1 .. Len(s) :
          c[i] = IF i > at /\ i <= at + n THEN src[from + (i - at)] ELSE s[i]
    <2> TAKE i \in 1 .. Len(s)
    <2>1. CASE i <= at + n
      <3>1. i \in 1 .. at + n /\ (i <= at <=> ~(i > at)) BY <2>1
      <3>2. c[i] = pq[i] BY <2>1, <1>7
      <3>3. pq[i] = IF i <= at THEN s[i] ELSE src[from + (i - at)] BY <3>1, <1>5
      <3> QED BY <2>1, <3>1, <3>2, <3>3
    <2>2. CASE i > at + n
      <3>1. i - (at + n) \in 1 .. Len(s) - (at + n) /\ at + n + (i - (at + n)) = i BY <2>2
      <3> QED BY <2>2, <3>1, <1>3, <1>7
    <2> QED BY <2>1, <2>2
  <1>9. c = [i \in 1 .. Len(s) |-> c[i]] BY <1>6
  <1>10. c = [i \in DOMAIN s |-> IF i > at /\ i <= at + n THEN src[from + (i - at)] ELSE s[i]]
    <2>1. DOMAIN s = 1 .. Len(s) OBVIOUS
    <2> QED BY <2>1, <1>8, <1>9
  <1> QED BY <1>6, <1>10 DEF copy_from_slice, c, pq, p, q, r

\* fill overwrites the cells it is told to and no others.
LEMMA FillOverwrites ==
    ASSUME NEW s \in Seq(Nat), NEW at \in Nat, NEW v \in Nat, NEW n \in Nat, at + n <= Len(s)
    PROVE  /\ fill(s, at, v, n) \in Seq(Nat)
           /\ Len(fill(s, at, v, n)) = Len(s)
           /\ fill(s, at, v, n)
              = [i \in DOMAIN s |-> IF i > at /\ i <= at + n THEN v ELSE s[i]]
  <1> DEFINE q == [i \in 1 .. n |-> v]
  <1>1. q \in Seq(Nat) /\ Len(q) = n /\ \A i \in 1 .. n : q[i] = v OBVIOUS
  <1>2. SubSeq(q, 1, n) = q BY <1>1
  <1> HIDE DEF q
  <1>3. fill(s, at, v, n) = copy_from_slice(s, at, q, 0, n)
    <2>1. 0 + 1 = 1 /\ 0 + n = n OBVIOUS
    <2>2. SubSeq(q, 0 + 1, 0 + n) = q BY <2>1, <1>2
    <2> QED BY <2>2 DEF fill, copy_from_slice, q
  <1>4. /\ copy_from_slice(s, at, q, 0, n) \in Seq(Nat)
        /\ Len(copy_from_slice(s, at, q, 0, n)) = Len(s)
        /\ copy_from_slice(s, at, q, 0, n)
           = [i \in DOMAIN s |-> IF i > at /\ i <= at + n THEN q[0 + (i - at)] ELSE s[i]]
    <2>1. 0 \in Nat /\ 0 + n <= Len(q) /\ q \in Seq(Nat) BY <1>1
    <2> QED BY SMTT(30), <2>1, CopyOverwrites
  <1>5. \A i \in DOMAIN s : i > at /\ i <= at + n => q[0 + (i - at)] = v BY <1>1
  <1>6. [i \in DOMAIN s |-> IF i > at /\ i <= at + n THEN q[0 + (i - at)] ELSE s[i]]
        = [i \in DOMAIN s |-> IF i > at /\ i <= at + n THEN v ELSE s[i]]
    BY <1>5
  <1> QED BY <1>3, <1>4, <1>6

\* Growing by nothing.
LEMMA GrowByZero ==
    ASSUME NEW s \in Seq(Nat), NEW v PROVE s \o [i \in 1 .. 0 |-> v] = s
  OBVIOUS

\* Growing appends cells.
LEMMA GrowAppends ==
    ASSUME NEW s \in Seq(Nat), NEW v \in Nat, NEW n \in Nat
    PROVE  /\ s \o [i \in 1 .. n |-> v] \in Seq(Nat)
           /\ Len(s \o [i \in 1 .. n |-> v]) = Len(s) + n
  <1> DEFINE q == [i \in 1 .. n |-> v]
  <1>1. q \in Seq(Nat) /\ Len(q) = n OBVIOUS
  <1> HIDE DEF q
  <1>2. s \o q \in Seq(Nat) /\ Len(s \o q) = Len(s) + n BY <1>1
  <1> QED BY <1>2 DEF q

-----------------------------------------------------------------------------
(* Translation *)

\* What the operands of a request are worth, whichever provider they have.
LEMMA Operands ==
    ASSUME NEW o, Validated(o)
    PROVE  /\ o.a.v \in 0 .. UMax("i32") /\ o.b.v \in 0 .. UMax("i64") /\ o.n.v \in 0 .. UMax("i32")
           /\ o.a.v \in Nat /\ o.b.v \in Nat /\ o.n.v \in Nat
           /\ Operand16(o.a).v = o.a.v /\ Operand16(o.b).v = o.b.v /\ Operand16(o.n).v = o.n.v
           /\ o.x \in Nat /\ o.y \in Nat
           /\ ~IsWide(o) => o.b.v \in 0 .. UMax("i32")
  <1>1. /\ o.a \in Operand("i32") /\ o.b \in Operand("i64") /\ o.n \in Operand("i32")
        /\ o.x \in Nat /\ o.y \in Nat /\ (IsWide(o) \/ o.b \in Operand("i32"))
    BY DEF Validated
  <1>2. \A ty : \A p \in Operand(ty) : p.v \in 0 .. UMax(ty) BY DEF Operand, Reg, Const
  <1>3. \A p : Operand16(p).v = p.v BY DEF Operand16, Reg
  <1>4. /\ o.a.v \in 0 .. UMax("i32") /\ o.b.v \in 0 .. UMax("i64") /\ o.n.v \in 0 .. UMax("i32")
        /\ ~IsWide(o) => o.b.v \in 0 .. UMax("i32")
    BY <1>1, <1>2
  <1> QED BY <1>1, <1>3, <1>4, Powers

\* The request is one of Wasm's.
LEMMA Plain ==
    ASSUME NEW o, Validated(o)
    PROVE  /\ [name |-> o.name, x |-> o.x, y |-> o.y, a |-> o.a.v, b |-> o.b.v, n |-> o.n.v]
                \in Wasm!Requests
           /\ o.name # "none" /\ o # None
  <1>1. o.name \in Wasm!Names BY DEF Validated, MemoryOps, TableOps, Wasm!Names
  <1>2. o.name # "none" BY <1>1 DEF Wasm!Names
  <1>3. o # None BY <1>2 DEF None
  <1> QED BY <1>1, <1>2, <1>3, Operands DEF Wasm!Requests

\* Each operator has its method of the translator.
LEMMA WordsOf ==
    ASSUME NEW o
    PROVE  /\ o.name = "memory.init" => Words(o) = visit_memory_init(o)
           /\ o.name = "memory.copy" => Words(o) = visit_memory_copy(o)
           /\ o.name = "memory.fill" => Words(o) = visit_memory_fill(o)
           /\ o.name = "data.drop" => Words(o) = visit_data_drop(o)
           /\ o.name = "memory.size" => Words(o) = visit_memory_size(o)
           /\ o.name = "memory.grow" => Words(o) = visit_memory_grow(o)
           /\ o.name = "table.init" => Words(o) = visit_table_init(o)
           /\ o.name = "table.copy" => Words(o) = visit_table_copy(o)
           /\ o.name = "table.fill" => Words(o) = visit_table_fill(o)
           /\ o.name = "elem.drop" => Words(o) = visit_elem_drop(o)
           /\ o.name = "table.get" => Words(o) = visit_table_get(o)
           /\ o.name = "table.set" => Words(o) = visit_table_set(o)
           /\ o.name = "table.size" => Words(o) = visit_table_size(o)
           /\ o.name = "table.grow" => Words(o) = visit_table_grow(o)
           /\ o.name = "global.get" => Words(o) = visit_global_get(o)
           /\ o.name = "global.set" => Words(o) = visit_global_set(o)
           /\ o.name = "ref.func" => Words(o) = visit_ref_func(o.x)
           /\ o.name = "load8" => Words(o) = visit_i32_load8_u(o)
  <1>1. o.name = "memory.init" => Words(o) = visit_memory_init(o) BY DEF Words
  <1>2. o.name = "memory.copy" => Words(o) = visit_memory_copy(o) BY DEF Words
  <1>3. o.name = "memory.fill" => Words(o) = visit_memory_fill(o) BY DEF Words
  <1>4. o.name = "data.drop" => Words(o) = visit_data_drop(o) BY DEF Words
  <1>5. o.name = "memory.size" => Words(o) = visit_memory_size(o) BY DEF Words
  <1>6. o.name = "memory.grow" => Words(o) = visit_memory_grow(o) BY DEF Words
  <1>7. o.name = "table.init" => Words(o) = visit_table_init(o) BY DEF Words
  <1>8. o.name = "table.copy" => Words(o) = visit_table_copy(o) BY DEF Words
  <1>9. o.name = "table.fill" => Words(o) = visit_table_fill(o) BY DEF Words
  <1>10. o.name = "elem.drop" => Words(o) = visit_elem_drop(o) BY DEF Words
  <1>11. o.name = "table.get" => Words(o) = visit_table_get(o) BY DEF Words
  <1>12. o.name = "table.set" => Words(o) = visit_table_set(o) BY DEF Words
  <1>13. o.name = "table.size" => Words(o) = visit_table_size(o) BY DEF Words
  <1>14. o.name = "table.grow" => Words(o) = visit_table_grow(o) BY DEF Words
  <1>15. o.name = "global.get" => Words(o) = visit_global_get(o) BY DEF Words
  <1>16. o.name = "global.set" => Words(o) = visit_global_set(o) BY DEF Words
  <1>17. o.name = "load8" => Words(o) = visit_i32_load8_u(o) BY DEF Words
  <1>18. o.name = "ref.func" => Words(o) = visit_ref_func(o.x) BY DEF Words
  <1> QED BY <1>1, <1>2, <1>3, <1>4, <1>5, <1>6, <1>7, <1>8, <1>9, <1>10, <1>11, <1>12, <1>13, <1>14, <1>15, <1>16, <1>17, <1>18

\* The fields of an instruction.
LEMMA InstrFields ==
    ASSUME NEW e, NEW op, NEW form, NEW a, NEW b, NEW n
    PROVE  /\ Instr(e, op, form, a, b, n).opcode[1] = e
           /\ Instr(e, op, form, a, b, n).opcode[2] = op
           /\ Instr(e, op, form, a, b, n).opcode[3] = form
           /\ Instr(e, op, form, a, b, n).a = a
           /\ Instr(e, op, form, a, b, n).b = b
           /\ Instr(e, op, form, a, b, n).n = n
  BY DEF Instr

\* An instruction and the index word behind it.
LEMMA PairFields ==
    ASSUME NEW e, NEW op, NEW form, NEW a, NEW b, NEW n, NEW w, NEW c,
           c = <<Instr(e, op, form, a, b, n), w>>
    PROVE  /\ c # <<>> /\ c[1].opcode[1] = e /\ c[1].opcode[2] = op /\ c[1].opcode[3] = form
           /\ c[1].a = a /\ c[1].b = b /\ c[1].n = n /\ c[2] = w
  <1>1. c[1] = Instr(e, op, form, a, b, n) /\ c[2] = w /\ c # <<>> OBVIOUS
  <1> QED BY <1>1, InstrFields
\* An instruction without a word behind it.
LEMMA SingleFields ==
    ASSUME NEW e, NEW op, NEW form, NEW a, NEW b, NEW n, NEW c,
           c = <<Instr(e, op, form, a, b, n)>>
    PROVE  /\ c # <<>> /\ c[1].opcode[1] = e /\ c[1].opcode[2] = op /\ c[1].opcode[3] = form
           /\ c[1].a = a /\ c[1].b = b /\ c[1].n = n
  <1>1. c[1] = Instr(e, op, form, a, b, n) /\ c # <<>> OBVIOUS
  <1> QED BY <1>1, InstrFields

\* The words of a copy or an initialisation: the operands and both indices.
TripleWords(c, e, op, o) ==
    /\ c # <<>> /\ c[1].opcode[1] = e /\ c[1].opcode[2] = op
    /\ c[1].a.v = o.a.v /\ c[1].b.v = o.b.v /\ c[1].n.v = o.n.v
    /\ c[2].index = o.x /\ c[3].index = o.y
\* What Triple and two index words carry.
LEMMA TripleFields ==
    ASSUME NEW e, NEW op, NEW o, Validated(o), NEW k, NEW l, NEW c,
           c = <<Triple(e, op, o), Index(k, o.x), Index(l, o.y)>>
    PROVE  TripleWords(c, e, op, o)
  <1>1. /\ Triple(e, op, o).opcode[1] = e /\ Triple(e, op, o).opcode[2] = op
        /\ Triple(e, op, o).a.v = o.a.v /\ Triple(e, op, o).b.v = o.b.v
        /\ Triple(e, op, o).n.v = o.n.v
    BY InstrFields, Operands DEF Triple
  <1>2. c # <<>> /\ c[1] = Triple(e, op, o) /\ c[2] = Index(k, o.x) /\ c[3] = Index(l, o.y)
    OBVIOUS
  <1>3. Index(k, o.x).index = o.x /\ Index(l, o.y).index = o.y BY DEF Index
  <1> QED BY <1>1, <1>2, <1>3 DEF TripleWords
\* The copies and initialisations of memories and tables carry all they need.
LEMMA Initialisations ==
    ASSUME NEW o, Validated(o)
    PROVE  /\ o.name = "memory.init" => TripleWords(Words(o), "memory", "init", o)
           /\ o.name = "memory.copy" => TripleWords(Words(o), "memory", "copy", o)
           /\ o.name = "table.init" => TripleWords(Words(o), "table", "init", o)
           /\ o.name = "table.copy" => TripleWords(Words(o), "table", "copy", o)
  <1>1. o.name = "memory.init" => TripleWords(Words(o), "memory", "init", o)
    BY WordsOf, TripleFields DEF visit_memory_init
  <1>2. o.name = "memory.copy" => TripleWords(Words(o), "memory", "copy", o)
    BY WordsOf, TripleFields DEF visit_memory_copy
  <1>3. o.name = "table.init" => TripleWords(Words(o), "table", "init", o)
    BY WordsOf, TripleFields DEF visit_table_init
  <1>4. o.name = "table.copy" => TripleWords(Words(o), "table", "copy", o)
    BY WordsOf, TripleFields DEF visit_table_copy
  <1> QED BY <1>1, <1>2, <1>3, <1>4

\* The words of an operator on one memory or table.
PairWords(c, e, op, o) ==
    /\ c # <<>> /\ c[1].opcode[1] = e /\ c[1].opcode[2] = op /\ c[2].index = o.x
\* memory.fill: the byte is cut to its width before and again when it is written.
LEMMA MemoryFillWords ==
    ASSUME NEW o, Validated(o), o.name = "memory.fill", NEW c, c = Words(o)
    PROVE  /\ PairWords(c, "memory", "fill", o) /\ c[1].a.v = o.a.v /\ c[1].n.v = o.n.v
           /\ Wrap("i8", c[1].b.v) = Wrap("i8", o.b.v)
  <1>1. PICK a, n, b : /\ a = Operand16(o.a) /\ n = Operand16(o.n)
                       /\ b = IF IsConst(o.b) THEN Const(Wrap("i8", o.b.v)) ELSE o.b
    OBVIOUS
  <1>2. PICK form : form = Imms({<<"at", a>>, <<"imm", b>>, <<"exact", n>>}) OBVIOUS
  <1>3. c = <<Instr("memory", "fill", form, a, b, n), Index("memory_index", o.x)>>
    BY <1>1, <1>2, WordsOf DEF visit_memory_fill
  <1>4. /\ c # <<>> /\ c[1].opcode[1] = "memory" /\ c[1].opcode[2] = "fill"
        /\ c[1].a = a /\ c[1].b = b /\ c[1].n = n /\ c[2] = Index("memory_index", o.x)
    BY <1>3, PairFields
  <1>5. Wrap("i8", Wrap("i8", o.b.v)) = Wrap("i8", o.b.v)
    BY Operands, Powers, WrapTwice DEF Wrap
  <1>6. Wrap("i8", b.v) = Wrap("i8", o.b.v) BY <1>1, <1>5 DEF Const
  <1> QED BY <1>1, <1>4, <1>6, Operands DEF PairWords, Index
\* table.fill: the value is a register, the other two an immediate or a register.
LEMMA TableFillWords ==
    ASSUME NEW o, Validated(o), o.name = "table.fill", NEW c, c = Words(o)
    PROVE  /\ PairWords(c, "table", "fill", o) /\ c[1].a.v = o.a.v /\ c[1].n.v = o.n.v
           /\ c[1].b.v = o.b.v
  <1>1. PICK a, n : a = Operand16(o.a) /\ n = Operand16(o.n) OBVIOUS
  <1>2. PICK form : form = Imms({<<"at", a>>, <<"exact", n>>}) OBVIOUS
  <1>3. c = <<Instr("table", "fill", form, a, Reg(o.b.v), n), Index("table_index", o.x)>>
    BY <1>1, <1>2, WordsOf DEF visit_table_fill
  <1>4. /\ c # <<>> /\ c[1].opcode[1] = "table" /\ c[1].opcode[2] = "fill"
        /\ c[1].a = a /\ c[1].b = Reg(o.b.v) /\ c[1].n = n /\ c[2] = Index("table_index", o.x)
    BY <1>3, PairFields
  <1> QED BY <1>1, <1>4, Operands DEF PairWords, Index, Reg
\* table.get and table.set: the index is an immediate or a register.
LEMMA TableAccessWords ==
    ASSUME NEW o, Validated(o), NEW c, c = Words(o)
    PROVE  /\ o.name = "table.get" =>
                 PairWords(c, "table", "get", o) /\ c[1].a.v = o.a.v
           /\ o.name = "table.set" =>
                 PairWords(c, "table", "set", o) /\ c[1].a.v = o.a.v /\ c[1].b.v = o.b.v
  <1>1. ASSUME o.name = "table.get"
        PROVE  PairWords(c, "table", "get", o) /\ c[1].a.v = o.a.v
    <2>1. PICK form : form = Imms({<<"imm", o.a>>}) OBVIOUS
    <2>2. c = <<Instr("table", "get", form, o.a, o.b, o.n), Index("table_index", o.x)>>
      BY <1>1, <2>1, WordsOf DEF visit_table_get
    <2>3. /\ c # <<>> /\ c[1].opcode[1] = "table" /\ c[1].opcode[2] = "get"
          /\ c[1].a = o.a /\ c[2] = Index("table_index", o.x)
      BY <2>2, PairFields
    <2> QED BY <2>3 DEF PairWords, Index
  <1>2. ASSUME o.name = "table.set"
        PROVE  PairWords(c, "table", "set", o) /\ c[1].a.v = o.a.v /\ c[1].b.v = o.b.v
    <2>1. PICK form : form = Imms({<<"at", o.a>>}) OBVIOUS
    <2>2. c = <<Instr("table", "set", form, o.a, Reg(o.b.v), o.n), Index("table_index", o.x)>>
      BY <1>2, <2>1, WordsOf DEF visit_table_set
    <2>3. /\ c # <<>> /\ c[1].opcode[1] = "table" /\ c[1].opcode[2] = "set"
          /\ c[1].a = o.a /\ c[1].b = Reg(o.b.v) /\ c[2] = Index("table_index", o.x)
      BY <2>2, PairFields
    <2> QED BY <2>3 DEF PairWords, Index, Reg
  <1> QED BY <1>1, <1>2

\* Growing by the constant zero asks for the size.
LEMMA GrowWords ==
    ASSUME NEW o, Validated(o), NEW c, c = Words(o)
    PROVE  /\ o.name = "memory.grow" /\ o.n # Const(0) =>
                 PairWords(c, "memory", "grow", o) /\ c[1].n.v = o.n.v
           /\ o.name = "table.grow" /\ o.n # Const(0) =>
                 /\ PairWords(c, "table", "grow", o) /\ c[1].n.v = o.n.v
                 /\ c[1].b.v = o.b.v
  <1>1. ASSUME o.name = "memory.grow", o.n # Const(0)
        PROVE  PairWords(c, "memory", "grow", o) /\ c[1].n.v = o.n.v
    <2>1. PICK form : form = Imms({<<"by", o.n>>}) OBVIOUS
    <2>2. c = <<Instr("memory", "grow", form, o.a, o.b, o.n), Index("memory_index", o.x)>>
      BY <1>1, <2>1, WordsOf DEF visit_memory_grow
    <2>3. /\ c # <<>> /\ c[1].opcode[1] = "memory" /\ c[1].opcode[2] = "grow"
          /\ c[1].n = o.n /\ c[2] = Index("memory_index", o.x)
      BY <2>2, PairFields
    <2> QED BY <2>3 DEF PairWords, Index
  <1>2. ASSUME o.name = "table.grow", o.n # Const(0)
        PROVE  /\ PairWords(c, "table", "grow", o) /\ c[1].n.v = o.n.v
               /\ c[1].b.v = o.b.v
    <2>1. PICK n : n = Operand16(o.n) OBVIOUS
    <2>2. PICK form : form = Imms({<<"imm", n>>}) OBVIOUS
    <2>3. c = <<Instr("table", "grow", form, o.a, Reg(o.b.v), n), Index("table_index", o.x)>>
      BY <1>2, <2>1, <2>2, WordsOf DEF visit_table_grow
    <2>4. /\ c # <<>> /\ c[1].opcode[1] = "table" /\ c[1].opcode[2] = "grow"
          /\ c[1].n = n /\ c[1].b = Reg(o.b.v) /\ c[2] = Index("table_index", o.x)
      BY <2>3, PairFields
    <2> QED BY <2>1, <2>4, Operands DEF PairWords, Index, Reg
  <1> QED BY <1>1, <1>2

\* The words of the operators that have no operand but an index.
SingleWord(c, e, op, i) == c # <<>> /\ c[1].opcode[1] = e /\ c[1].opcode[2] = op /\ c[1].a = i
\* memory.size and table.size, also when a growth by zero was asked, and the drops.
LEMMA SingleWords ==
    ASSUME NEW o, Validated(o), NEW c, c = Words(o)
    PROVE  /\ \/ o.name = "memory.size"
              \/ o.name = "memory.grow" /\ o.n = Const(0)
              => SingleWord(c, "memory", "size", o.x)
           /\ \/ o.name = "table.size"
              \/ o.name = "table.grow" /\ o.n = Const(0)
              => SingleWord(c, "table", "size", o.x)
           /\ o.name = "data.drop" => SingleWord(c, "data", "drop", o.y)
           /\ o.name = "elem.drop" => SingleWord(c, "elem", "drop", o.y)
           /\ o.name = "global.get" =>
                 IF o.x \in DOMAIN Frozen THEN c = <<>>
                 ELSE IF o.x \in DOMAIN FuncGlobals THEN SingleWord(c, "ref", "func", FuncGlobals[o.x])
                 ELSE SingleWord(c, "global", "get", o.x)
           /\ o.name = "ref.func" => SingleWord(c, "ref", "func", o.x)
           /\ o.name = "load8" =>
                 /\ c # <<>> /\ c[1].opcode[1] = "i32" /\ c[1].opcode[2] = "load8_u"
                 /\ c[1].a.v = o.a.v
  <1>1. ASSUME o.name = "memory.size" \/ (o.name = "memory.grow" /\ o.n = Const(0))
        PROVE  SingleWord(c, "memory", "size", o.x)
    <2>1. Words(o) = visit_memory_size(o) BY <1>1, WordsOf DEF visit_memory_grow
    <2>2. c = <<Instr("memory", "size", {}, o.x, 0, 0)>> BY <2>1 DEF visit_memory_size
    <2> QED BY <2>2, SingleFields DEF SingleWord
  <1>2. ASSUME o.name = "table.size" \/ (o.name = "table.grow" /\ o.n = Const(0))
        PROVE  SingleWord(c, "table", "size", o.x)
    <2>1. Words(o) = visit_table_size(o) BY <1>2, WordsOf DEF visit_table_grow
    <2>2. c = <<Instr("table", "size", {}, o.x, 0, 0)>> BY <2>1 DEF visit_table_size
    <2> QED BY <2>2, SingleFields DEF SingleWord
  <1>3. o.name = "data.drop" => SingleWord(c, "data", "drop", o.y)
    BY WordsOf, SingleFields DEF visit_data_drop, SingleWord
  <1>4. o.name = "elem.drop" => SingleWord(c, "elem", "drop", o.y)
    BY WordsOf, SingleFields DEF visit_elem_drop, SingleWord
  <1>5. o.name = "global.get" =>
          IF o.x \in DOMAIN Frozen THEN c = <<>>
          ELSE IF o.x \in DOMAIN FuncGlobals THEN SingleWord(c, "ref", "func", FuncGlobals[o.x])
          ELSE SingleWord(c, "global", "get", o.x)
    BY WordsOf, SingleFields DEF visit_global_get, visit_ref_func, SingleWord
  <1>6. o.name = "load8" =>
          /\ c # <<>> /\ c[1].opcode[1] = "i32" /\ c[1].opcode[2] = "load8_u"
          /\ c[1].a.v = o.a.v
    BY WordsOf, SingleFields DEF visit_i32_load8_u
  <1>7. o.name = "ref.func" => SingleWord(c, "ref", "func", o.x)
    BY WordsOf, SingleFields DEF visit_ref_func, SingleWord
  <1> QED BY <1>1, <1>2, <1>3, <1>4, <1>5, <1>6, <1>7

\* A global is set to a register or to an immediate with the same value.
LEMMA GlobalSetWords ==
    ASSUME NEW o, Validated(o), o.name = "global.set", NEW c, c = Words(o)
    PROVE  /\ SingleWord(c, "global", "set", o.x)
           /\ \/ c[1].opcode[3] = {} /\ c[1].b.v = o.b.v
              \/ /\ c[1].opcode[3] = {"i32imm16"}
                 /\ Wrap("i32", Signed("i16", c[1].b)) = o.b.v
              \/ /\ c[1].opcode[3] = {"i64imm16"}
                 /\ Wrap("i64", Signed("i16", c[1].b)) = o.b.v
  <1>1. PICK ty, v : ty = GlobalType[o.x] /\ v = Wrap("i16", Signed(ty, o.b.v)) OBVIOUS
  <1>i. ASSUME NEW t \in {"i32", "i64"}, NEW form, ty = t, ConstFits16(t, o.b),
               c = <<Instr("global", "set", {form}, o.x, v, 0)>>
        PROVE  /\ SingleWord(c, "global", "set", o.x) /\ c[1].opcode[3] = {form}
               /\ Wrap(t, Signed("i16", c[1].b)) = o.b.v
    <2>0. PICK f : f = {form} OBVIOUS
    <2>01. c = <<Instr("global", "set", f, o.x, v, 0)>> BY <1>i, <2>0
    <2>02. /\ c # <<>> /\ c[1].opcode[1] = "global" /\ c[1].opcode[2] = "set"
           /\ c[1].opcode[3] = f /\ c[1].a = o.x /\ c[1].b = v
      BY <2>01, SingleFields
    <2>1. /\ c # <<>> /\ c[1].opcode[1] = "global" /\ c[1].opcode[2] = "set"
          /\ c[1].opcode[3] = {form} /\ c[1].a = o.x /\ c[1].b = v
      BY <2>0, <2>02
    <2>2. o.b.v \in 0 .. UMax(t)
      <3>1. CASE t = "i32" BY <1>1, <1>i, <3>1, Operands DEF IsWide
      <3>2. CASE t = "i64" BY <3>2, Operands
      <3> QED BY <3>1, <3>2
    <2>3. -SMin("i16") <= Signed(t, o.b.v) /\ Signed(t, o.b.v) <= SMax("i16")
      BY <1>i DEF ConstFits16
    <2>4. Wrap(t, Signed("i16", Wrap("i16", Signed(t, o.b.v)))) = o.b.v
      BY <2>2, <2>3, SignedImmediate
    <2> QED BY <1>1, <1>i, <2>1, <2>4 DEF SingleWord
  <1>2. CASE ty = "i32" /\ ConstFits16("i32", o.b)
    <2>1. c = <<Instr("global", "set", {"i32imm16"}, o.x, v, 0)>>
      BY <1>1, <1>2, WordsOf DEF visit_global_set
    <2> QED BY <1>2, <1>i, <2>1
  <1>3. CASE ty = "i64" /\ ConstFits16("i64", o.b)
    <2>1. c = <<Instr("global", "set", {"i64imm16"}, o.x, v, 0)>>
      BY <1>1, <1>3, WordsOf DEF visit_global_set
    <2> QED BY <1>3, <1>i, <2>1
  <1>4. CASE ~(ty = "i32" /\ ConstFits16("i32", o.b)) /\ ~(ty = "i64" /\ ConstFits16("i64", o.b))
    <2>1. c = <<Instr("global", "set", {}, o.x, Reg(o.b.v), 0)>>
      BY <1>1, <1>4, WordsOf DEF visit_global_set
    <2>2. /\ c # <<>> /\ c[1].opcode[1] = "global" /\ c[1].opcode[2] = "set"
          /\ c[1].opcode[3] = {} /\ c[1].a = o.x /\ c[1].b = Reg(o.b.v)
      BY <2>1, SingleFields
    <2> QED BY <2>2 DEF SingleWord, Reg
  <1> QED BY <1>2, <1>3, <1>4

\* The operator under way is told by the opcode of its instruction.
Opcode(c, e, op) == c # <<>> /\ c[1].opcode[1] = e /\ c[1].opcode[2] = op
\* Which opcode each operator is translated to.
LEMMA Opcodes ==
    ASSUME NEW o, Validated(o), NEW c, c = Words(o)
    PROVE  /\ o.name = "memory.init" => Opcode(c, "memory", "init")
           /\ o.name = "memory.copy" => Opcode(c, "memory", "copy")
           /\ o.name = "memory.fill" => Opcode(c, "memory", "fill")
           /\ o.name = "memory.size" => Opcode(c, "memory", "size")
           /\ o.name = "memory.grow" => IF o.n = Const(0) THEN Opcode(c, "memory", "size")
                                                         ELSE Opcode(c, "memory", "grow")
           /\ o.name = "table.init" => Opcode(c, "table", "init")
           /\ o.name = "table.copy" => Opcode(c, "table", "copy")
           /\ o.name = "table.fill" => Opcode(c, "table", "fill")
           /\ o.name = "table.get" => Opcode(c, "table", "get")
           /\ o.name = "table.set" => Opcode(c, "table", "set")
           /\ o.name = "table.size" => Opcode(c, "table", "size")
           /\ o.name = "table.grow" => IF o.n = Const(0) THEN Opcode(c, "table", "size")
                                                        ELSE Opcode(c, "table", "grow")
           /\ o.name = "data.drop" => Opcode(c, "data", "drop")
           /\ o.name = "elem.drop" => Opcode(c, "elem", "drop")
           /\ o.name = "global.get" =>
                 IF o.x \in DOMAIN Frozen THEN c = <<>>
                 ELSE IF o.x \in DOMAIN FuncGlobals THEN Opcode(c, "ref", "func")
                 ELSE Opcode(c, "global", "get")
           /\ o.name = "ref.func" => Opcode(c, "ref", "func")
           /\ o.name = "global.set" => Opcode(c, "global", "set")
           /\ o.name = "load8" => Opcode(c, "i32", "load8_u")
  <1>1. /\ o.name = "memory.init" => Opcode(c, "memory", "init")
        /\ o.name = "memory.copy" => Opcode(c, "memory", "copy")
        /\ o.name = "table.init" => Opcode(c, "table", "init")
        /\ o.name = "table.copy" => Opcode(c, "table", "copy")
    BY Initialisations DEF TripleWords, Opcode
  <1>2. /\ o.name = "memory.fill" => Opcode(c, "memory", "fill")
        /\ o.name = "table.fill" => Opcode(c, "table", "fill")
        /\ o.name = "table.get" => Opcode(c, "table", "get")
        /\ o.name = "table.set" => Opcode(c, "table", "set")
    BY MemoryFillWords, TableFillWords, TableAccessWords DEF PairWords, Opcode
  <1>3. /\ o.name = "memory.grow" => IF o.n = Const(0) THEN Opcode(c, "memory", "size")
                                                      ELSE Opcode(c, "memory", "grow")
        /\ o.name = "table.grow" => IF o.n = Const(0) THEN Opcode(c, "table", "size")
                                                     ELSE Opcode(c, "table", "grow")
    BY GrowWords, SingleWords DEF PairWords, SingleWord, Opcode
  <1>4. /\ o.name = "memory.size" => Opcode(c, "memory", "size")
        /\ o.name = "table.size" => Opcode(c, "table", "size")
        /\ o.name = "data.drop" => Opcode(c, "data", "drop")
        /\ o.name = "elem.drop" => Opcode(c, "elem", "drop")
        /\ o.name = "global.get" =>
              IF o.x \in DOMAIN Frozen THEN c = <<>>
              ELSE IF o.x \in DOMAIN FuncGlobals THEN Opcode(c, "ref", "func")
              ELSE Opcode(c, "global", "get")
        /\ o.name = "ref.func" => Opcode(c, "ref", "func")
        /\ o.name = "load8" => Opcode(c, "i32", "load8_u")
    BY SingleWords DEF SingleWord, Opcode
  <1>5. o.name = "global.set" => Opcode(c, "global", "set")
    BY GlobalSetWords DEF SingleWord, Opcode
  <1> QED BY <1>1, <1>2, <1>3, <1>4, <1>5

\* No other operator leaves the instruction.
LEMMA Named ==
    ASSUME NEW o, Validated(o), NEW c, c = Words(o)
    PROVE  /\ Opcode(c, "memory", "init") => o.name = "memory.init"
           /\ Opcode(c, "memory", "copy") => o.name = "memory.copy"
           /\ Opcode(c, "memory", "fill") => o.name = "memory.fill"
           /\ Opcode(c, "memory", "size") =>
                 o.name = "memory.size" \/ (o.name = "memory.grow" /\ o.n = Const(0))
           /\ Opcode(c, "memory", "grow") => o.name = "memory.grow" /\ o.n # Const(0)
           /\ Opcode(c, "table", "init") => o.name = "table.init"
           /\ Opcode(c, "table", "copy") => o.name = "table.copy"
           /\ Opcode(c, "table", "fill") => o.name = "table.fill"
           /\ Opcode(c, "table", "get") => o.name = "table.get"
           /\ Opcode(c, "table", "set") => o.name = "table.set"
           /\ Opcode(c, "table", "size") =>
                 o.name = "table.size" \/ (o.name = "table.grow" /\ o.n = Const(0))
           /\ Opcode(c, "table", "grow") => o.name = "table.grow" /\ o.n # Const(0)
           /\ Opcode(c, "data", "drop") => o.name = "data.drop"
           /\ Opcode(c, "elem", "drop") => o.name = "elem.drop"
           /\ Opcode(c, "global", "get") => o.name = "global.get" /\ o.x \notin DOMAIN Frozen
                                           /\ o.x \notin DOMAIN FuncGlobals
           /\ Opcode(c, "ref", "func") =>
                 \/ o.name = "ref.func"
                 \/ /\ o.name = "global.get" /\ o.x \notin DOMAIN Frozen
                    /\ o.x \in DOMAIN FuncGlobals
           /\ Opcode(c, "global", "set") => o.name = "global.set"
           /\ Opcode(c, "i32", "load8_u") => o.name = "load8"
           /\ c = <<>> => o.name = "global.get" /\ o.x \in DOMAIN Frozen
  <1>1. o.name \in {"memory.init", "memory.copy", "memory.fill", "memory.size", "memory.grow",
                    "table.init", "table.copy", "table.fill", "table.get", "table.set",
                    "table.size", "table.grow", "data.drop", "elem.drop", "global.get",
                    "global.set", "ref.func", "load8"}
    BY DEF Validated, MemoryOps, TableOps
  <1> QED BY <1>1, Opcodes DEF Opcode

-----------------------------------------------------------------------------
(* Steps *)

\* The operator under way, as Wasm sees it.
LEMMA Asking ==
    ASSUME StoreInv, req # None
    PROVE  /\ Validated(req) /\ code = Words(req)
           /\ Asked.name = req.name /\ Asked.x = req.x /\ Asked.y = req.y
           /\ Asked.a = req.a.v /\ Asked.b = req.b.v /\ Asked.n = req.n.v
           /\ Asked # Wasm!None
  <1>1. Validated(req) /\ code = Words(req) BY DEF StoreInv, Translated
  <1>2. Asked = [name |-> req.name, x |-> req.x, y |-> req.y,
                 a |-> req.a.v, b |-> req.b.v, n |-> req.n.v]
    BY DEF Asked
  <1>3. req.name # "none" BY <1>1, Plain
  <1> QED BY <1>1, <1>2, <1>3 DEF Wasm!None

\* An instruction runs for the operator under way.
LEMMA Decoded ==
    ASSUME NEW e, NEW op, StoreInv, Running(e, op)
    PROVE  req # None /\ Validated(req) /\ code = Words(req) /\ Opcode(code, e, op)
  <1>1. code # <<>> /\ Opcode(code, e, op) BY DEF Running, Opcode
  <1>2. req # None BY <1>1 DEF StoreInv, Translated
  <1> QED BY <1>1, <1>2, Asking

\* After an operator none is under way.
LEMMA Ended == ASSUME req' = None PROVE Asked' = Wasm!None
  BY DEF Asked, None, Wasm!None

\* The terms of the two specifications are the same.
LEMMA SameTerms ==
    /\ None = Wasm!None /\ \A v : Val(v) = Wasm!Val(v)
    /\ \A c : Traps(c) = Wasm!Traps(c)
  BY DEF None, Wasm!None, Val, Wasm!Val, Traps, Wasm!Traps

\* Whatever only answers keeps the invariant.
LEMMA Answered ==
    ASSUME StoreInv, UNCHANGED store, req' = None, code' = <<>>, UNCHANGED <<limiter, rounds>>
    PROVE  StoreInv' /\ Asked' = Wasm!None /\ Wasm!Same
  <1>1. /\ mem' = mem /\ tab' = tab /\ data' = data /\ elem' = elem /\ glob' = glob
        /\ buf' = buf /\ cache' = cache /\ fuel' = fuel /\ limiter' = limiter /\ rounds' = rounds
    BY DEF store
  <1>2. Contents' BY <1>1 DEF StoreInv, Contents
  <1>3. Translated' BY DEF Translated
  <1>4. CacheFresh' BY <1>1 DEF StoreInv, CacheFresh, load_caches, CachedMemory
  <1>5. StoreInv' BY <1>1, <1>2, <1>3, <1>4 DEF StoreInv
  <1> QED BY <1>1, <1>5, Ended DEF Wasm!Same

\* Return answers and changes nothing of the store.
LEMMA ReturnAnswers ==
    ASSUME NEW r, StoreInv, Return(r)
    PROVE  StoreInv' /\ Asked' = Wasm!None /\ Wasm!Same /\ res' = r
  BY Answered DEF Return, Finish

\* What writes contents of the right type keeps the invariant.
LEMMA Written ==
    ASSUME StoreInv, Contents', req' = None, code' = <<>>, UNCHANGED <<limiter, rounds>>,
           buf' = buf, cache' = cache, fuel' \in Nat \cup {Disabled}
    PROVE  StoreInv' /\ Asked' = Wasm!None
  <1>1. Translated' BY DEF Translated
  <1>2. CacheFresh' BY DEF StoreInv, CacheFresh, load_caches, CachedMemory
  <1>3. StoreInv' BY <1>1, <1>2 DEF StoreInv
  <1> QED BY <1>3, Ended

\* What consume_fuel leaves is a number, and what Wasm says is paid.
LEMMA FuelTyped ==
    ASSUME NEW len \in Nat, StoreInv, HasFuel(len), consume_fuel(len)
    PROVE  fuel' \in Nat \cup {Disabled} /\ Wasm!Pays(len)
  <1>1. fuel \in Nat \cup {Disabled} BY DEF StoreInv
  <1>p. PerFuel \in Nat \ {0} BY StoreAssumption
  <1>d. len \div PerFuel \in Int BY <1>p
  <1>2. PICK cost \in Int : cost = len \div PerFuel BY <1>d
  <1>3. /\ fuel = Disabled \/ cost <= fuel
        /\ fuel' = IF fuel = Disabled THEN fuel ELSE fuel - cost
    BY <1>2 DEF HasFuel, consume_fuel
  <1>6. fuel' \in Nat \cup {Disabled}
    <2>1. CASE fuel = Disabled BY <1>3, <2>1
    <2>2. CASE fuel # Disabled BY <1>1, <1>2, <1>3, <2>2
    <2> QED BY <2>1, <2>2
  <1>7. Disabled = Wasm!Disabled BY DEF Disabled, Wasm!Disabled
  <1>8. Wasm!Pays(len) BY <1>2, <1>3, <1>7 DEF Wasm!Pays, Wasm!Affords
  <1> QED BY <1>6, <1>8
\* Both specifications agree on what can be paid.
LEMMA SameFuel == ASSUME NEW len PROVE HasFuel(len) <=> Wasm!Affords(len)
  BY DEF HasFuel, Wasm!Affords, Disabled, Wasm!Disabled
\* What is free can be paid.
LEMMA NothingPaid == ASSUME StoreInv, fuel' = fuel PROVE Wasm!Pays(0)
  <1>1. fuel \in Nat \cup {Disabled} BY DEF StoreInv
  <1>2. 0 \div PerFuel = 0 BY StoreAssumption
  <1>3. Disabled = Wasm!Disabled BY DEF Disabled, Wasm!Disabled
  <1> QED BY <1>1, <1>2, <1>3 DEF Wasm!Pays, Wasm!Affords

\* A memory may be replaced by any sequence of bytes.
LEMMA MemoryContents ==
    ASSUME NEW m \in DOMAIN Initial.mem, NEW bytes \in Seq(Nat), Contents,
           mem' = [mem EXCEPT ![m] = bytes], UNCHANGED <<tab, data, elem, glob>>
    PROVE  Contents'
  <1>1. mem' \in [DOMAIN Initial.mem -> Seq(Nat)] BY DEF Contents
  <1> QED BY <1>1 DEF Contents
\* A table may be replaced by any sequence that its length type can count.
LEMMA TableContents ==
    ASSUME NEW t \in DOMAIN Initial.tab, NEW items \in Seq(Nat), Len(items) <= UMax("i32"),
           Contents, tab' = [tab EXCEPT ![t] = items], UNCHANGED <<mem, data, elem, glob>>
    PROVE  Contents'
  <1>1. tab' \in [DOMAIN Initial.tab -> Seq(Nat)] BY DEF Contents
  <1>2. \A u \in DOMAIN Initial.tab : Len(tab'[u]) <= UMax("i32") BY DEF Contents
  <1> QED BY <1>1, <1>2 DEF Contents

\* A write to a memory: what fails leaves all as it was.
LEMMA MemoryWrite ==
    ASSUME NEW m \in DOMAIN Initial.mem, NEW ok \in BOOLEAN, NEW len \in Nat, NEW bytes,
           ok => bytes \in Seq(Nat), StoreInv, WriteMemory(m, ok, len, bytes)
    PROVE  /\ StoreInv' /\ Asked' = Wasm!None
           /\ \/ ~ok /\ Wasm!Same /\ res' = Wasm!Traps("MemoryOutOfBounds")
              \/ ok /\ ~Wasm!Affords(len) /\ Wasm!Same /\ res' = Wasm!Traps("OutOfFuel")
              \/ /\ ok /\ Wasm!Pays(len) /\ mem' = [mem EXCEPT ![m] = bytes] /\ res' = Wasm!Val(0)
                 /\ UNCHANGED <<tab, data, elem, glob>>
  <1>1. CASE ~ok
    <2>1. Return(Traps("MemoryOutOfBounds")) BY <1>1 DEF WriteMemory
    <2> QED BY <1>1, <2>1, ReturnAnswers, SameTerms
  <1>2. CASE ok /\ ~HasFuel(len)
    <2>1. Return(Traps("OutOfFuel")) BY <1>2 DEF WriteMemory
    <2> QED BY <1>2, <2>1, ReturnAnswers, SameTerms, SameFuel
  <1>3. CASE ok /\ HasFuel(len)
    <2>1. /\ consume_fuel(len) /\ mem' = [mem EXCEPT ![m] = bytes] /\ Finish(Val(0))
          /\ UNCHANGED <<tab, data, elem, glob, buf, cache>>
      BY <1>3 DEF WriteMemory
    <2>2. Contents' BY <1>3, <2>1, MemoryContents DEF StoreInv
    <2>3. fuel' \in Nat \cup {Disabled} /\ Wasm!Pays(len) BY <1>3, <2>1, FuelTyped
    <2>4. req' = None /\ code' = <<>> /\ UNCHANGED <<limiter, rounds>> /\ res' = Val(0)
      BY <2>1 DEF Finish
    <2>5. StoreInv' /\ Asked' = Wasm!None BY <2>1, <2>2, <2>3, <2>4, Written
    <2> QED BY <1>3, <2>1, <2>3, <2>4, <2>5, SameTerms
  <1> QED BY <1>1, <1>2, <1>3
\* A write to a table: what fails leaves all as it was.
LEMMA TableWrite ==
    ASSUME NEW t \in DOMAIN Initial.tab, NEW ok \in BOOLEAN, NEW len \in Nat, NEW items,
           ok => items \in Seq(Nat) /\ Len(items) <= UMax("i32"), StoreInv,
           WriteTable(t, ok, len, items)
    PROVE  /\ StoreInv' /\ Asked' = Wasm!None
           /\ \/ ~ok /\ Wasm!Same /\ res' = Wasm!Traps("TableOutOfBounds")
              \/ ok /\ ~Wasm!Affords(len) /\ Wasm!Same /\ res' = Wasm!Traps("OutOfFuel")
              \/ /\ ok /\ Wasm!Pays(len) /\ tab' = [tab EXCEPT ![t] = items] /\ res' = Wasm!Val(0)
                 /\ UNCHANGED <<mem, data, elem, glob>>
  <1>1. CASE ~ok
    <2>1. Return(Traps("TableOutOfBounds")) BY <1>1 DEF WriteTable
    <2> QED BY <1>1, <2>1, ReturnAnswers, SameTerms
  <1>2. CASE ok /\ ~HasFuel(len)
    <2>1. Return(Traps("OutOfFuel")) BY <1>2 DEF WriteTable
    <2> QED BY <1>2, <2>1, ReturnAnswers, SameTerms, SameFuel
  <1>3. CASE ok /\ HasFuel(len)
    <2>1. /\ consume_fuel(len) /\ tab' = [tab EXCEPT ![t] = items] /\ Finish(Val(0))
          /\ UNCHANGED <<mem, data, elem, glob, buf, cache>>
      BY <1>3 DEF WriteTable
    <2>2. Contents' BY <1>3, <2>1, TableContents DEF StoreInv
    <2>3. fuel' \in Nat \cup {Disabled} /\ Wasm!Pays(len) BY <1>3, <2>1, FuelTyped
    <2>4. req' = None /\ code' = <<>> /\ UNCHANGED <<limiter, rounds>> /\ res' = Val(0)
      BY <2>1 DEF Finish
    <2>5. StoreInv' /\ Asked' = Wasm!None BY <2>1, <2>2, <2>3, <2>4, Written
    <2> QED BY <1>3, <2>1, <2>3, <2>4, <2>5, SameTerms
  <1> QED BY <1>1, <1>2, <1>3

\* slice.get(at ..) and .get(.. n) together say that the cells exist.
LEMMA SliceFits ==
    ASSUME NEW s \in Seq(Nat), NEW at \in Nat, NEW n \in Nat
    PROVE  Slice(s, at, n) <=> at + n <= Len(s)
  BY DEF Slice

\* memory.init
LEMMA MemoryInitStep ==
    ASSUME StoreInv, execute_memory_init PROVE StoreInv' /\ Wasm!Operation
  <1>1. /\ req # None /\ Validated(req) /\ code = Words(req) /\ Opcode(code, "memory", "init")
        /\ Running("memory", "init")
    BY Decoded DEF execute_memory_init
  <1>2. req.name = "memory.init" BY <1>1, Named
  <1>3. TripleWords(code, "memory", "init", req) BY <1>1, <1>2, Initialisations
  <1>4. PICK m, s, d, at, from, n :
          /\ m = MemoryAt[req.x] /\ s = mem[m] /\ d = data[req.y]
          /\ at = req.a.v /\ from = req.b.v /\ n = req.n.v
    OBVIOUS
  <1>5. m \in DOMAIN Initial.mem /\ req.y \in DOMAIN Initial.data
    BY <1>1, <1>2, <1>4, StoreAssumption DEF Validated, MemoryOps
  <1>6. s \in Seq(Nat) /\ d \in Seq(Nat) BY <1>4, <1>5 DEF StoreInv, Contents
  <1>7. at \in Nat /\ from \in Nat /\ n \in Nat BY <1>1, <1>4, Operands
  <1>8. PICK ok \in BOOLEAN : ok = (Slice(s, at, n) /\ Slice(d, from, n)) BY DEF Slice
  <1>9. PICK bytes : bytes = copy_from_slice(s, at, d, from, n) OBVIOUS
  <1>10. WriteMemory(m, ok, n, bytes)
    BY <1>3, <1>4, <1>8, <1>9
       DEF execute_memory_init, TripleWords, fetch_memory_index, fetch_segment_index, A, B, N
  <1>11. ok <=> at + n <= Len(s) /\ from + n <= Len(d)
    <2>1. /\ Slice(s, at, n) <=> at + n <= Len(s)
          /\ Slice(d, from, n) <=> from + n <= Len(d)
      BY <1>6, <1>7, SliceFits
    <2> QED BY <1>8, <2>1, Zenon
  <1>12. ok => /\ bytes \in Seq(Nat)
               /\ bytes = [i \in DOMAIN s |-> IF i > at /\ i <= at + n THEN d[from + (i - at)]
                                              ELSE s[i]]
    <2> HAVE ok
    <2>1. at + n <= Len(s) /\ from + n <= Len(d) BY <1>11
    <2>2. copy_from_slice(s, at, d, from, n) \in Seq(Nat)
      BY <1>6, <1>7, <2>1, CopyOverwrites
    <2>3. copy_from_slice(s, at, d, from, n)
          = [i \in DOMAIN s |-> IF i > at /\ i <= at + n THEN d[from + (i - at)] ELSE s[i]]
      BY SMTT(30), <1>6, <1>7, <2>1, CopyOverwrites
    <2> QED BY <1>9, <2>2, <2>3
  <1>13. /\ StoreInv' /\ Asked' = Wasm!None
         /\ \/ ~ok /\ Wasm!Same /\ res' = Wasm!Traps("MemoryOutOfBounds")
            \/ ok /\ ~Wasm!Affords(n) /\ Wasm!Same /\ res' = Wasm!Traps("OutOfFuel")
            \/ /\ ok /\ Wasm!Pays(n) /\ mem' = [mem EXCEPT ![m] = bytes] /\ res' = Wasm!Val(0)
               /\ UNCHANGED <<tab, data, elem, glob>>
    BY <1>5, <1>7, <1>10, <1>12, MemoryWrite
  <1>14. /\ Asked # Wasm!None /\ Asked.name = "memory.init" /\ Asked.x = req.x
         /\ Asked.y = req.y /\ Asked.a = at /\ Asked.b = from /\ Asked.n = n
    BY <1>1, <1>2, <1>4, Asking
  <1>15. /\ Wasm!Fits(Wasm!Mem(Asked.x), Asked.a, Asked.n) <=> at + n <= Len(s)
         /\ Wasm!Fits(data[Asked.y], Asked.b, Asked.n) <=> from + n <= Len(d)
    BY <1>4, <1>14 DEF Wasm!Fits, Wasm!Mem
  <1>16. CASE ~ok /\ Wasm!Same /\ res' = Wasm!Traps("MemoryOutOfBounds")
    <2>1. Wasm!OutOfBounds BY <1>11, <1>13, <1>14, <1>15, <1>16
         DEF Wasm!OutOfBounds, Wasm!MemoryBulk, Wasm!MemoryFits
    <2> QED BY <1>13, <2>1 DEF Wasm!Operation
  <1>17. CASE ok /\ ~Wasm!Affords(n) /\ Wasm!Same /\ res' = Wasm!Traps("OutOfFuel")
    <2>1. Wasm!OutOfFuel
      BY <1>11, <1>13, <1>14, <1>15, <1>17
         DEF Wasm!OutOfFuel, Wasm!MemoryBulk, Wasm!MemoryFits
    <2> QED BY <1>13, <2>1 DEF Wasm!Operation
  <1>18. CASE /\ ok /\ Wasm!Pays(n) /\ mem' = [mem EXCEPT ![m] = bytes] /\ res' = Wasm!Val(0)
              /\ UNCHANGED <<tab, data, elem, glob>>
    <2>p. Wasm!Pays(Asked.n) BY <1>14, <1>18
    <2>1. Wasm!MemoryInit
      BY ZenonT(40), <1>4, <1>11, <1>12, <1>13, <1>14, <1>15, <1>18, <2>p
         DEF Wasm!MemoryInit, Wasm!IsReq, Wasm!SetMem, Wasm!Overwrite, Wasm!Mem
    <2> QED BY <1>13, <2>1 DEF Wasm!Operation
  <1> QED BY <1>13, <1>16, <1>17, <1>18

\* memory.copy
LEMMA MemoryCopyStep ==
    ASSUME StoreInv, execute_memory_copy PROVE StoreInv' /\ (NoAlias => Wasm!Operation)
  <1>1. /\ req # None /\ Validated(req) /\ code = Words(req) /\ Opcode(code, "memory", "copy")
        /\ Running("memory", "copy")
    BY Decoded DEF execute_memory_copy
  <1>2. req.name = "memory.copy" BY <1>1, Named
  <1>3. TripleWords(code, "memory", "copy", req) BY <1>1, <1>2, Initialisations
  <1>4. PICK m, k, s, d, at, from, n :
          /\ m = MemoryAt[req.x] /\ k = MemoryAt[req.y] /\ s = mem[m] /\ d = mem[k]
          /\ at = req.a.v /\ from = req.b.v /\ n = req.n.v
    OBVIOUS
  <1>5. m \in DOMAIN Initial.mem /\ k \in DOMAIN Initial.mem
    BY <1>1, <1>2, <1>4, StoreAssumption DEF Validated, MemoryOps
  <1>6. s \in Seq(Nat) /\ d \in Seq(Nat) BY <1>4, <1>5 DEF StoreInv, Contents
  <1>7. at \in Nat /\ from \in Nat /\ n \in Nat BY <1>1, <1>4, Operands
  <1>8. PICK ok \in BOOLEAN : ok = (Slice(d, from, n) /\ Slice(s, at, n)) BY DEF Slice
  <1>9. PICK bytes : bytes = copy_from_slice(s, at, d, from, n) OBVIOUS
  <1>10. IF req.x # req.y /\ m = k THEN Return(Panic) ELSE WriteMemory(m, ok, n, bytes)
    BY <1>3, <1>4, <1>8, <1>9
       DEF execute_memory_copy, TripleWords, fetch_memory_index, A, B, N
  <1>p. CASE req.x # req.y /\ m = k
    <2>1. StoreInv' BY <1>p, <1>10, ReturnAnswers
    <2>2. ~NoAlias BY <1>p, <1>1, <1>2, <1>4 DEF NoAlias, Validated, MemoryOps
    <2> QED BY <2>1, <2>2
  <1>11. ok <=> at + n <= Len(s) /\ from + n <= Len(d)
    <2>1. /\ Slice(s, at, n) <=> at + n <= Len(s)
          /\ Slice(d, from, n) <=> from + n <= Len(d)
      BY <1>6, <1>7, SliceFits
    <2> QED BY <1>8, <2>1, Zenon
  <1>12. ok => /\ bytes \in Seq(Nat)
               /\ bytes = [i \in DOMAIN s |-> IF i > at /\ i <= at + n THEN d[from + (i - at)]
                                              ELSE s[i]]
    <2> HAVE ok
    <2>1. at + n <= Len(s) /\ from + n <= Len(d) BY <1>11
    <2>2. copy_from_slice(s, at, d, from, n) \in Seq(Nat) /\ Len(copy_from_slice(s, at, d, from, n)) = Len(s)
      BY <1>6, <1>7, <2>1, CopyOverwrites
    <2>3. copy_from_slice(s, at, d, from, n)
          = [i \in DOMAIN s |-> IF i > at /\ i <= at + n THEN d[from + (i - at)] ELSE s[i]]
      BY SMTT(30), <1>6, <1>7, <2>1, CopyOverwrites
    <2> QED BY <1>6, <1>9, <2>2, <2>3
  <1>w. ~(req.x # req.y /\ m = k) => WriteMemory(m, ok, n, bytes) BY <1>10
  <1> SUFFICES ASSUME ~(req.x # req.y /\ m = k) PROVE StoreInv' /\ Wasm!Operation BY <1>p
  <1>13. /\ StoreInv' /\ Asked' = Wasm!None
         /\ \/ ~ok /\ Wasm!Same /\ res' = Wasm!Traps("MemoryOutOfBounds")
            \/ ok /\ ~Wasm!Affords(n) /\ Wasm!Same /\ res' = Wasm!Traps("OutOfFuel")
            \/ /\ ok /\ Wasm!Pays(n) /\ mem' = [mem EXCEPT ![m] = bytes] /\ res' = Wasm!Val(0)
               /\ UNCHANGED <<tab, data, elem, glob>>
    BY <1>5, <1>7, <1>w, <1>12, MemoryWrite
  <1>14. /\ Asked # Wasm!None /\ Asked.name = "memory.copy" /\ Asked.x = req.x
         /\ Asked.y = req.y /\ Asked.a = at /\ Asked.b = from /\ Asked.n = n
    BY <1>1, <1>2, <1>4, Asking
  <1>15. /\ Wasm!Fits(Wasm!Mem(Asked.x), Asked.a, Asked.n) <=> at + n <= Len(s)
         /\ Wasm!Fits(Wasm!Mem(Asked.y), Asked.b, Asked.n) <=> from + n <= Len(d)
    BY <1>4, <1>14 DEF Wasm!Fits, Wasm!Mem
  <1>16. CASE ~ok /\ Wasm!Same /\ res' = Wasm!Traps("MemoryOutOfBounds")
    <2>1. Wasm!OutOfBounds BY <1>11, <1>13, <1>14, <1>15, <1>16
         DEF Wasm!OutOfBounds, Wasm!MemoryBulk, Wasm!MemoryFits
    <2> QED BY <1>13, <2>1 DEF Wasm!Operation
  <1>17. CASE ok /\ ~Wasm!Affords(n) /\ Wasm!Same /\ res' = Wasm!Traps("OutOfFuel")
    <2>1. Wasm!OutOfFuel
      BY <1>11, <1>13, <1>14, <1>15, <1>17
         DEF Wasm!OutOfFuel, Wasm!MemoryBulk, Wasm!MemoryFits
    <2> QED BY <1>13, <2>1 DEF Wasm!Operation
  <1>18. CASE /\ ok /\ Wasm!Pays(n) /\ mem' = [mem EXCEPT ![m] = bytes] /\ res' = Wasm!Val(0)
              /\ UNCHANGED <<tab, data, elem, glob>>
    <2>p. Wasm!Pays(Asked.n) BY <1>14, <1>18
    <2>1. Wasm!MemoryCopy
      BY <1>4, <1>11, <1>12, <1>13, <1>14, <1>15, <1>18, <2>p
         DEF Wasm!MemoryCopy, Wasm!IsReq, Wasm!SetMem, Wasm!Overwrite, Wasm!Mem
    <2> QED BY <1>13, <2>1 DEF Wasm!Operation
  <1> QED BY <1>13, <1>16, <1>17, <1>18

\* memory.fill
LEMMA MemoryFillStep ==
    ASSUME StoreInv, execute_memory_fill PROVE StoreInv' /\ Wasm!Operation
  <1>1. /\ req # None /\ Validated(req) /\ code = Words(req) /\ Opcode(code, "memory", "fill")
        /\ Running("memory", "fill")
    BY Decoded DEF execute_memory_fill
  <1>2. req.name = "memory.fill" BY <1>1, Named
  <1>3. /\ PairWords(code, "memory", "fill", req) /\ code[1].a.v = req.a.v /\ code[1].n.v = req.n.v
        /\ Wrap("i8", code[1].b.v) = Wrap("i8", req.b.v)
    BY <1>1, <1>2, MemoryFillWords
  <1>4. PICK m, s, at, v, n :
          m = MemoryAt[req.x] /\ s = mem[m] /\ at = req.a.v /\ v = Wrap("i8", req.b.v) /\ n = req.n.v
    OBVIOUS
  <1>5. m \in DOMAIN Initial.mem
    BY <1>1, <1>2, <1>4, StoreAssumption DEF Validated, MemoryOps
  <1>6. s \in Seq(Nat) BY <1>4, <1>5 DEF StoreInv, Contents
  <1>v. v \in Nat /\ v = req.b.v % (UMax("i8") + 1)
    BY <1>1, <1>4, Operands, Powers, WrapTwice DEF Wrap
  <1>7. at \in Nat /\ n \in Nat /\ v \in Nat BY <1>1, <1>4, <1>v, Operands
  <1>8. PICK ok \in BOOLEAN : ok = Slice(s, at, n) BY DEF Slice
  <1>9. PICK bytes : bytes = fill(s, at, v, n) OBVIOUS
  <1>10. WriteMemory(m, ok, n, bytes)
    BY <1>3, <1>4, <1>8, <1>9
       DEF execute_memory_fill, PairWords, fetch_memory_index, A, B, N
  <1>11. ok <=> at + n <= Len(s) BY <1>6, <1>7, <1>8, SliceFits
  <1>12. ok => /\ bytes \in Seq(Nat)
               /\ bytes = [i \in DOMAIN s |-> IF i > at /\ i <= at + n THEN v ELSE s[i]]
    <2> HAVE ok
    <2>1. at + n <= Len(s) BY <1>11
    <2>2. fill(s, at, v, n) \in Seq(Nat) /\ Len(fill(s, at, v, n)) = Len(s)
      BY <1>6, <1>7, <2>1, FillOverwrites
    <2>3. fill(s, at, v, n)
          = [i \in DOMAIN s |-> IF i > at /\ i <= at + n THEN v ELSE s[i]]
      BY <1>6, <1>7, <2>1, FillOverwrites
    <2> QED BY <1>6, <1>9, <2>2, <2>3
  <1>13. /\ StoreInv' /\ Asked' = Wasm!None
         /\ \/ ~ok /\ Wasm!Same /\ res' = Wasm!Traps("MemoryOutOfBounds")
            \/ ok /\ ~Wasm!Affords(n) /\ Wasm!Same /\ res' = Wasm!Traps("OutOfFuel")
            \/ /\ ok /\ Wasm!Pays(n) /\ mem' = [mem EXCEPT ![m] = bytes] /\ res' = Wasm!Val(0)
               /\ UNCHANGED <<tab, data, elem, glob>>
    BY <1>5, <1>7, <1>10, <1>12, MemoryWrite
  <1>14. /\ Asked # Wasm!None /\ Asked.name = "memory.fill" /\ Asked.x = req.x
         /\ Asked.a = at /\ Asked.b = req.b.v /\ Asked.n = n
    BY <1>1, <1>2, <1>4, Asking
  <1>15. Wasm!Fits(Wasm!Mem(Asked.x), Asked.a, Asked.n) <=> at + n <= Len(s)
    BY <1>4, <1>14 DEF Wasm!Fits, Wasm!Mem
  <1>16. CASE ~ok /\ Wasm!Same /\ res' = Wasm!Traps("MemoryOutOfBounds")
    <2>1. Wasm!OutOfBounds BY <1>11, <1>13, <1>14, <1>15, <1>16
         DEF Wasm!OutOfBounds, Wasm!MemoryBulk, Wasm!MemoryFits
    <2> QED BY <1>13, <2>1 DEF Wasm!Operation
  <1>17. CASE ok /\ ~Wasm!Affords(n) /\ Wasm!Same /\ res' = Wasm!Traps("OutOfFuel")
    <2>1. Wasm!OutOfFuel
      BY <1>11, <1>13, <1>14, <1>15, <1>17
         DEF Wasm!OutOfFuel, Wasm!MemoryBulk, Wasm!MemoryFits
    <2> QED BY <1>13, <2>1 DEF Wasm!Operation
  <1>18. CASE /\ ok /\ Wasm!Pays(n) /\ mem' = [mem EXCEPT ![m] = bytes] /\ res' = Wasm!Val(0)
              /\ UNCHANGED <<tab, data, elem, glob>>
    <2>0. Asked.b % (UMax("i8") + 1) = v BY <1>v, <1>14
    <2>p. Wasm!Pays(Asked.n) BY <1>14, <1>18
    <2>1. Wasm!MemoryFill
      BY ZenonT(40), <2>0, <1>4, <1>11, <1>12, <1>13, <1>14, <1>15, <1>18, <2>p
         DEF Wasm!MemoryFill, Wasm!IsReq, Wasm!SetMem, Wasm!Overwrite, Wasm!Mem
    <2> QED BY <1>13, <2>1 DEF Wasm!Operation
  <1> QED BY <1>13, <1>16, <1>17, <1>18

\* table.init
LEMMA TableInitStep ==
    ASSUME StoreInv, execute_table_init PROVE StoreInv' /\ Wasm!Operation
  <1>1. /\ req # None /\ Validated(req) /\ code = Words(req) /\ Opcode(code, "table", "init")
        /\ Running("table", "init")
    BY Decoded DEF execute_table_init
  <1>2. req.name = "table.init" BY <1>1, Named
  <1>3. TripleWords(code, "table", "init", req) BY <1>1, <1>2, Initialisations
  <1>4. PICK m, s, d, at, from, n :
          /\ m = TableAt[req.x] /\ s = tab[m] /\ d = elem[req.y]
          /\ at = req.a.v /\ from = req.b.v /\ n = req.n.v
    OBVIOUS
  <1>5. m \in DOMAIN Initial.tab /\ req.y \in DOMAIN Initial.elem
    BY <1>1, <1>2, <1>4, StoreAssumption DEF Validated, TableOps
  <1>6. s \in Seq(Nat) /\ d \in Seq(Nat) /\ Len(s) <= UMax("i32") BY <1>4, <1>5 DEF StoreInv, Contents
  <1>7. at \in Nat /\ from \in Nat /\ n \in Nat BY <1>1, <1>4, Operands
  <1>8. PICK ok \in BOOLEAN : ok = (Slice(s, at, n) /\ Slice(d, from, n)) BY DEF Slice
  <1>9. PICK items : items = copy_from_slice(s, at, d, from, n) OBVIOUS
  <1>10. WriteTable(m, ok, n, items)
    BY <1>3, <1>4, <1>8, <1>9
       DEF execute_table_init, TripleWords, fetch_table_index, fetch_segment_index, A, B, N
  <1>11. ok <=> at + n <= Len(s) /\ from + n <= Len(d)
    <2>1. /\ Slice(s, at, n) <=> at + n <= Len(s)
          /\ Slice(d, from, n) <=> from + n <= Len(d)
      BY <1>6, <1>7, SliceFits
    <2> QED BY <1>8, <2>1, Zenon
  <1>12. ok => /\ items \in Seq(Nat) /\ Len(items) <= UMax("i32")
               /\ items = [i \in DOMAIN s |-> IF i > at /\ i <= at + n THEN d[from + (i - at)]
                                              ELSE s[i]]
    <2> HAVE ok
    <2>1. at + n <= Len(s) /\ from + n <= Len(d) BY <1>11
    <2>2. copy_from_slice(s, at, d, from, n) \in Seq(Nat) /\ Len(copy_from_slice(s, at, d, from, n)) = Len(s)
      BY <1>6, <1>7, <2>1, CopyOverwrites
    <2>3. copy_from_slice(s, at, d, from, n)
          = [i \in DOMAIN s |-> IF i > at /\ i <= at + n THEN d[from + (i - at)] ELSE s[i]]
      BY SMTT(30), <1>6, <1>7, <2>1, CopyOverwrites
    <2> QED BY <1>6, <1>9, <2>2, <2>3
  <1>13. /\ StoreInv' /\ Asked' = Wasm!None
         /\ \/ ~ok /\ Wasm!Same /\ res' = Wasm!Traps("TableOutOfBounds")
            \/ ok /\ ~Wasm!Affords(n) /\ Wasm!Same /\ res' = Wasm!Traps("OutOfFuel")
            \/ /\ ok /\ Wasm!Pays(n) /\ tab' = [tab EXCEPT ![m] = items] /\ res' = Wasm!Val(0)
               /\ UNCHANGED <<mem, data, elem, glob>>
    BY <1>5, <1>7, <1>10, <1>12, TableWrite
  <1>14. /\ Asked # Wasm!None /\ Asked.name = "table.init" /\ Asked.x = req.x
         /\ Asked.y = req.y /\ Asked.a = at /\ Asked.b = from /\ Asked.n = n
    BY <1>1, <1>2, <1>4, Asking
  <1>15. /\ Wasm!Fits(Wasm!Tab(Asked.x), Asked.a, Asked.n) <=> at + n <= Len(s)
         /\ Wasm!Fits(elem[Asked.y], Asked.b, Asked.n) <=> from + n <= Len(d)
    BY <1>4, <1>14 DEF Wasm!Fits, Wasm!Tab
  <1>16. CASE ~ok /\ Wasm!Same /\ res' = Wasm!Traps("TableOutOfBounds")
    <2>1. Wasm!OutOfBounds BY <1>11, <1>13, <1>14, <1>15, <1>16
         DEF Wasm!OutOfBounds, Wasm!TableBulk, Wasm!TableFits
    <2> QED BY <1>13, <2>1 DEF Wasm!Operation
  <1>17. CASE ok /\ ~Wasm!Affords(n) /\ Wasm!Same /\ res' = Wasm!Traps("OutOfFuel")
    <2>1. Wasm!OutOfFuel
      BY <1>11, <1>13, <1>14, <1>15, <1>17
         DEF Wasm!OutOfFuel, Wasm!TableBulk, Wasm!TableFits
    <2> QED BY <1>13, <2>1 DEF Wasm!Operation
  <1>18. CASE /\ ok /\ Wasm!Pays(n) /\ tab' = [tab EXCEPT ![m] = items] /\ res' = Wasm!Val(0)
              /\ UNCHANGED <<mem, data, elem, glob>>
    <2>p. Wasm!Pays(Asked.n) BY <1>14, <1>18
    <2>1. Wasm!TableInit
      BY ZenonT(40), <1>4, <1>11, <1>12, <1>13, <1>14, <1>15, <1>18, <2>p
         DEF Wasm!TableInit, Wasm!IsReq, Wasm!SetTab, Wasm!Overwrite, Wasm!Tab
    <2> QED BY <1>13, <2>1 DEF Wasm!Operation
  <1> QED BY <1>13, <1>16, <1>17, <1>18

\* table.copy
LEMMA TableCopyStep ==
    ASSUME StoreInv, execute_table_copy PROVE StoreInv' /\ (NoAlias => Wasm!Operation)
  <1>1. /\ req # None /\ Validated(req) /\ code = Words(req) /\ Opcode(code, "table", "copy")
        /\ Running("table", "copy")
    BY Decoded DEF execute_table_copy
  <1>2. req.name = "table.copy" BY <1>1, Named
  <1>3. TripleWords(code, "table", "copy", req) BY <1>1, <1>2, Initialisations
  <1>4. PICK m, k, s, d, at, from, n :
          /\ m = TableAt[req.x] /\ k = TableAt[req.y] /\ s = tab[m] /\ d = tab[k]
          /\ at = req.a.v /\ from = req.b.v /\ n = req.n.v
    OBVIOUS
  <1>5. m \in DOMAIN Initial.tab /\ k \in DOMAIN Initial.tab
    BY <1>1, <1>2, <1>4, StoreAssumption DEF Validated, TableOps
  <1>6. s \in Seq(Nat) /\ d \in Seq(Nat) /\ Len(s) <= UMax("i32") BY <1>4, <1>5 DEF StoreInv, Contents
  <1>7. at \in Nat /\ from \in Nat /\ n \in Nat BY <1>1, <1>4, Operands
  <1>8. PICK ok \in BOOLEAN :
          ok = IF req.x = req.y
               THEN /\ (IF at > from THEN at ELSE from) + n <= UMax("i32")
                    /\ (IF at > from THEN at ELSE from) + n <= Len(s)
               ELSE Slice(s, at, n) /\ Slice(d, from, n)
    BY DEF Slice
  <1>9. PICK items : items = copy_from_slice(s, at, d, from, n) OBVIOUS
  <1>10. IF req.x # req.y /\ m = k THEN Return(Panic) ELSE WriteTable(m, ok, n, items)
    <2>1. /\ fetch_table_index(1) = m /\ fetch_table_index(2) = k
          /\ A = at /\ B = from /\ N = n /\ code[2].index = req.x /\ code[3].index = req.y
      BY <1>3, <1>4 DEF TripleWords, fetch_table_index, A, B, N
    <2>2. CASE req.x = req.y BY <2>1, <2>2, <1>4, <1>8, <1>9 DEF execute_table_copy
    <2>3. CASE req.x # req.y BY <2>1, <2>3, <1>4, <1>8, <1>9 DEF execute_table_copy
    <2> QED BY <2>2, <2>3
  <1>p. CASE req.x # req.y /\ m = k
    <2>1. StoreInv' BY <1>p, <1>10, ReturnAnswers
    <2>2. ~NoAlias BY <1>p, <1>1, <1>2, <1>4 DEF NoAlias, Validated, TableOps
    <2> QED BY <2>1, <2>2
  <1>11. ok <=> at + n <= Len(s) /\ from + n <= Len(d)
    <2>1. CASE req.x # req.y
      <3>1. /\ Slice(s, at, n) <=> at + n <= Len(s)
            /\ Slice(d, from, n) <=> from + n <= Len(d)
        BY <1>6, <1>7, SliceFits
      <3>2. ok = (Slice(s, at, n) /\ Slice(d, from, n)) BY <2>1, <1>8
      <3> QED BY <3>1, <3>2, Zenon
    <2>2. CASE req.x = req.y
      <3>1. d = s BY <2>2, <1>4
      <3>2. ok <=> /\ (IF at > from THEN at ELSE from) + n <= UMax("i32")
                   /\ (IF at > from THEN at ELSE from) + n <= Len(s)
        BY <2>2, <1>8
      <3>3. Len(s) \in Nat /\ UMax("i32") \in Nat BY <1>6, Powers
      <3> QED BY <1>6, <1>7, <3>1, <3>2, <3>3
    <2> QED BY <2>1, <2>2
  <1>12. ok => /\ items \in Seq(Nat) /\ Len(items) <= UMax("i32")
               /\ items = [i \in DOMAIN s |-> IF i > at /\ i <= at + n THEN d[from + (i - at)]
                                              ELSE s[i]]
    <2> HAVE ok
    <2>1. at + n <= Len(s) /\ from + n <= Len(d) BY <1>11
    <2>2. copy_from_slice(s, at, d, from, n) \in Seq(Nat) /\ Len(copy_from_slice(s, at, d, from, n)) = Len(s)
      BY <1>6, <1>7, <2>1, CopyOverwrites
    <2>3. copy_from_slice(s, at, d, from, n)
          = [i \in DOMAIN s |-> IF i > at /\ i <= at + n THEN d[from + (i - at)] ELSE s[i]]
      BY SMTT(30), <1>6, <1>7, <2>1, CopyOverwrites
    <2> QED BY <1>6, <1>9, <2>2, <2>3
  <1>w. ~(req.x # req.y /\ m = k) => WriteTable(m, ok, n, items) BY <1>10
  <1> SUFFICES ASSUME ~(req.x # req.y /\ m = k) PROVE StoreInv' /\ Wasm!Operation BY <1>p
  <1>13. /\ StoreInv' /\ Asked' = Wasm!None
         /\ \/ ~ok /\ Wasm!Same /\ res' = Wasm!Traps("TableOutOfBounds")
            \/ ok /\ ~Wasm!Affords(n) /\ Wasm!Same /\ res' = Wasm!Traps("OutOfFuel")
            \/ /\ ok /\ Wasm!Pays(n) /\ tab' = [tab EXCEPT ![m] = items] /\ res' = Wasm!Val(0)
               /\ UNCHANGED <<mem, data, elem, glob>>
    BY <1>5, <1>7, <1>w, <1>12, TableWrite
  <1>14. /\ Asked # Wasm!None /\ Asked.name = "table.copy" /\ Asked.x = req.x
         /\ Asked.y = req.y /\ Asked.a = at /\ Asked.b = from /\ Asked.n = n
    BY <1>1, <1>2, <1>4, Asking
  <1>15. /\ Wasm!Fits(Wasm!Tab(Asked.x), Asked.a, Asked.n) <=> at + n <= Len(s)
         /\ Wasm!Fits(Wasm!Tab(Asked.y), Asked.b, Asked.n) <=> from + n <= Len(d)
    BY <1>4, <1>14 DEF Wasm!Fits, Wasm!Tab
  <1>16. CASE ~ok /\ Wasm!Same /\ res' = Wasm!Traps("TableOutOfBounds")
    <2>1. Wasm!OutOfBounds BY <1>11, <1>13, <1>14, <1>15, <1>16
         DEF Wasm!OutOfBounds, Wasm!TableBulk, Wasm!TableFits
    <2> QED BY <1>13, <2>1 DEF Wasm!Operation
  <1>17. CASE ok /\ ~Wasm!Affords(n) /\ Wasm!Same /\ res' = Wasm!Traps("OutOfFuel")
    <2>1. Wasm!OutOfFuel
      BY <1>11, <1>13, <1>14, <1>15, <1>17
         DEF Wasm!OutOfFuel, Wasm!TableBulk, Wasm!TableFits
    <2> QED BY <1>13, <2>1 DEF Wasm!Operation
  <1>18. CASE /\ ok /\ Wasm!Pays(n) /\ tab' = [tab EXCEPT ![m] = items] /\ res' = Wasm!Val(0)
              /\ UNCHANGED <<mem, data, elem, glob>>
    <2>p. Wasm!Pays(Asked.n) BY <1>14, <1>18
    <2>1. Wasm!TableCopy
      BY <1>4, <1>11, <1>12, <1>13, <1>14, <1>15, <1>18, <2>p
         DEF Wasm!TableCopy, Wasm!IsReq, Wasm!SetTab, Wasm!Overwrite, Wasm!Tab
    <2> QED BY <1>13, <2>1 DEF Wasm!Operation
  <1> QED BY <1>13, <1>16, <1>17, <1>18

\* table.fill
LEMMA TableFillStep ==
    ASSUME StoreInv, execute_table_fill PROVE StoreInv' /\ Wasm!Operation
  <1>1. /\ req # None /\ Validated(req) /\ code = Words(req) /\ Opcode(code, "table", "fill")
        /\ Running("table", "fill")
    BY Decoded DEF execute_table_fill
  <1>2. req.name = "table.fill" BY <1>1, Named
  <1>3. /\ PairWords(code, "table", "fill", req) /\ code[1].a.v = req.a.v /\ code[1].n.v = req.n.v
        /\ code[1].b.v = req.b.v
    BY <1>1, <1>2, TableFillWords
  <1>4. PICK m, s, at, v, n :
          m = TableAt[req.x] /\ s = tab[m] /\ at = req.a.v /\ v = req.b.v /\ n = req.n.v
    OBVIOUS
  <1>5. m \in DOMAIN Initial.tab
    BY <1>1, <1>2, <1>4, StoreAssumption DEF Validated, TableOps
  <1>6. s \in Seq(Nat) /\ Len(s) <= UMax("i32") BY <1>4, <1>5 DEF StoreInv, Contents
  <1>7. at \in Nat /\ n \in Nat /\ v \in Nat BY <1>1, <1>4, Operands
  <1>8. PICK ok \in BOOLEAN : ok = Slice(s, at, n) BY DEF Slice
  <1>9. PICK items : items = fill(s, at, v, n) OBVIOUS
  <1>10. WriteTable(m, ok, n, items)
    BY <1>3, <1>4, <1>8, <1>9
       DEF execute_table_fill, PairWords, fetch_table_index, A, B, N
  <1>11. ok <=> at + n <= Len(s) BY <1>6, <1>7, <1>8, SliceFits
  <1>12. ok => /\ items \in Seq(Nat) /\ Len(items) <= UMax("i32")
               /\ items = [i \in DOMAIN s |-> IF i > at /\ i <= at + n THEN v ELSE s[i]]
    <2> HAVE ok
    <2>1. at + n <= Len(s) BY <1>11
    <2>2. fill(s, at, v, n) \in Seq(Nat) /\ Len(fill(s, at, v, n)) = Len(s)
      BY <1>6, <1>7, <2>1, FillOverwrites
    <2>3. fill(s, at, v, n)
          = [i \in DOMAIN s |-> IF i > at /\ i <= at + n THEN v ELSE s[i]]
      BY <1>6, <1>7, <2>1, FillOverwrites
    <2> QED BY <1>6, <1>9, <2>2, <2>3
  <1>13. /\ StoreInv' /\ Asked' = Wasm!None
         /\ \/ ~ok /\ Wasm!Same /\ res' = Wasm!Traps("TableOutOfBounds")
            \/ ok /\ ~Wasm!Affords(n) /\ Wasm!Same /\ res' = Wasm!Traps("OutOfFuel")
            \/ /\ ok /\ Wasm!Pays(n) /\ tab' = [tab EXCEPT ![m] = items] /\ res' = Wasm!Val(0)
               /\ UNCHANGED <<mem, data, elem, glob>>
    BY <1>5, <1>7, <1>10, <1>12, TableWrite
  <1>14. /\ Asked # Wasm!None /\ Asked.name = "table.fill" /\ Asked.x = req.x
         /\ Asked.a = at /\ Asked.b = req.b.v /\ Asked.n = n
    BY <1>1, <1>2, <1>4, Asking
  <1>15. Wasm!Fits(Wasm!Tab(Asked.x), Asked.a, Asked.n) <=> at + n <= Len(s)
    BY <1>4, <1>14 DEF Wasm!Fits, Wasm!Tab
  <1>16. CASE ~ok /\ Wasm!Same /\ res' = Wasm!Traps("TableOutOfBounds")
    <2>1. Wasm!OutOfBounds BY <1>11, <1>13, <1>14, <1>15, <1>16
         DEF Wasm!OutOfBounds, Wasm!TableBulk, Wasm!TableFits
    <2> QED BY <1>13, <2>1 DEF Wasm!Operation
  <1>17. CASE ok /\ ~Wasm!Affords(n) /\ Wasm!Same /\ res' = Wasm!Traps("OutOfFuel")
    <2>1. Wasm!OutOfFuel
      BY <1>11, <1>13, <1>14, <1>15, <1>17
         DEF Wasm!OutOfFuel, Wasm!TableBulk, Wasm!TableFits
    <2> QED BY <1>13, <2>1 DEF Wasm!Operation
  <1>18. CASE /\ ok /\ Wasm!Pays(n) /\ tab' = [tab EXCEPT ![m] = items] /\ res' = Wasm!Val(0)
              /\ UNCHANGED <<mem, data, elem, glob>>
    <2>p. Wasm!Pays(Asked.n) BY <1>14, <1>18
    <2>1. Wasm!TableFill
      BY ZenonT(40), <1>4, <1>7, <1>11, <1>12, <1>13, <1>14, <1>15, <1>18, <2>p
         DEF Wasm!TableFill, Wasm!IsReq, Wasm!SetTab, Wasm!Overwrite, Wasm!Tab
    <2> QED BY <1>13, <2>1 DEF Wasm!Operation
  <1> QED BY <1>13, <1>16, <1>17, <1>18

\* memory.size, and memory.grow by the constant zero
LEMMA MemorySizeStep ==
    ASSUME StoreInv, execute_memory_size PROVE StoreInv' /\ Wasm!Operation
  <1>1. /\ req # None /\ Validated(req) /\ code = Words(req) /\ Opcode(code, "memory", "size")
        /\ Running("memory", "size")
    BY Decoded DEF execute_memory_size
  <1>2. req.name = "memory.size" \/ (req.name = "memory.grow" /\ req.n = Const(0))
    BY <1>1, Named
  <1>3. SingleWord(code, "memory", "size", req.x) BY <1>1, <1>2, SingleWords
  <1>4. PICK m, s, r : m = MemoryAt[req.x] /\ s = mem[m] /\ r = Val(Len(s) \div PageSize)
    OBVIOUS
  <1>5. m \in DOMAIN Initial.mem
    BY <1>1, <1>2, <1>4, StoreAssumption DEF Validated, MemoryOps
  <1>6. s \in Seq(Nat) /\ mem \in [DOMAIN Initial.mem -> Seq(Nat)]
    BY <1>4, <1>5 DEF StoreInv, Contents
  <1>7. Return(r) BY <1>3, <1>4 DEF execute_memory_size, SingleWord, Pages
  <1>8. StoreInv' /\ Asked' = Wasm!None /\ Wasm!Same /\ res' = r BY <1>7, ReturnAnswers
  <1>9. res' = Wasm!Val(Len(s) \div PageSize) BY <1>4, <1>8, SameTerms
  <1>10. Asked.name = req.name /\ Asked.x = req.x /\ Asked.n = req.n.v BY <1>1, Asking
  <1>11. CASE req.name = "memory.size"
    <2>1. Wasm!MemorySize
      BY <1>4, <1>8, <1>9, <1>10, <1>11 DEF Wasm!MemorySize, Wasm!IsReq, Wasm!Yield, Wasm!Mem
    <2> QED BY <1>8, <2>1 DEF Wasm!Operation
  <1>12. CASE req.name = "memory.grow" /\ req.n = Const(0)
    <2>1. Asked.n = 0 BY <1>10, <1>12 DEF Const
    <2>2. Asked.n * PageSize = 0 BY <2>1, StoreAssumption
    <2>3. PICK none : none = [i \in 1 .. 0 |-> 0] OBVIOUS
    <2>4. s \o none = s BY <1>6, <2>3, GrowByZero
    <2>5. [mem EXCEPT ![m] = s \o none] = mem BY <1>4, <1>5, <1>6, <2>4
    <2>6. [i \in 1 .. Asked.n * PageSize |-> 0] = none BY <2>2, <2>3
    <2>7. Wasm!SetMem(Asked.x, Wasm!Mem(Asked.x) \o [i \in 1 .. Asked.n * PageSize |-> 0])
      BY <1>4, <1>8, <1>10, <2>5, <2>6 DEF Wasm!SetMem, Wasm!Mem, Wasm!Same
    <2>f. Wasm!Pays(Asked.n * PageSize) BY <1>8, <2>2, NothingPaid DEF Wasm!Same
    <2>8. Wasm!MemoryGrow
      BY <1>4, <1>8, <1>9, <1>10, <1>12, <2>1, <2>7, <2>f DEF Wasm!MemoryGrow, Wasm!IsReq, Wasm!Mem
    <2> QED BY <1>8, <2>8 DEF Wasm!Operation
  <1> QED BY <1>2, <1>11, <1>12

\* table.size, and table.grow by the constant zero
LEMMA TableSizeStep ==
    ASSUME StoreInv, execute_table_size PROVE StoreInv' /\ Wasm!Operation
  <1>1. /\ req # None /\ Validated(req) /\ code = Words(req) /\ Opcode(code, "table", "size")
        /\ Running("table", "size")
    BY Decoded DEF execute_table_size
  <1>2. req.name = "table.size" \/ (req.name = "table.grow" /\ req.n = Const(0))
    BY <1>1, Named
  <1>3. SingleWord(code, "table", "size", req.x) BY <1>1, <1>2, SingleWords
  <1>4. PICK t, s, r : t = TableAt[req.x] /\ s = tab[t] /\ r = Val(Len(s)) OBVIOUS
  <1>5. t \in DOMAIN Initial.tab
    BY <1>1, <1>2, <1>4, StoreAssumption DEF Validated, TableOps
  <1>6. s \in Seq(Nat) /\ tab \in [DOMAIN Initial.tab -> Seq(Nat)]
    BY <1>4, <1>5 DEF StoreInv, Contents
  <1>7. Return(r) BY <1>3, <1>4 DEF execute_table_size, SingleWord
  <1>8. StoreInv' /\ Asked' = Wasm!None /\ Wasm!Same /\ res' = r BY <1>7, ReturnAnswers
  <1>9. res' = Wasm!Val(Len(s)) BY <1>4, <1>8, SameTerms
  <1>10. Asked.name = req.name /\ Asked.x = req.x /\ Asked.n = req.n.v BY <1>1, Asking
  <1>11. CASE req.name = "table.size"
    <2>1. Wasm!TableSize
      BY <1>4, <1>8, <1>9, <1>10, <1>11 DEF Wasm!TableSize, Wasm!IsReq, Wasm!Yield, Wasm!Tab
    <2> QED BY <1>8, <2>1 DEF Wasm!Operation
  <1>12. CASE req.name = "table.grow" /\ req.n = Const(0)
    <2>1. Asked.n = 0 BY <1>10, <1>12 DEF Const
    <2>2. PICK none : none = [i \in 1 .. 0 |-> Asked.b] OBVIOUS
    <2>3. s \o none = s BY <1>6, <2>2, GrowByZero
    <2>4. [tab EXCEPT ![t] = s \o none] = tab BY <1>4, <1>5, <1>6, <2>3
    <2>5. [i \in 1 .. Asked.n |-> Asked.b] = none BY <2>1, <2>2
    <2>6. Wasm!SetTab(Asked.x, Wasm!Tab(Asked.x) \o [i \in 1 .. Asked.n |-> Asked.b])
      BY <1>4, <1>8, <1>10, <2>4, <2>5 DEF Wasm!SetTab, Wasm!Tab, Wasm!Same
    <2>f. Wasm!Pays(Asked.n) BY <1>8, <2>1, NothingPaid DEF Wasm!Same
    <2>7. Wasm!TableGrow
      BY <1>4, <1>8, <1>9, <1>10, <1>12, <2>1, <2>6, <2>f DEF Wasm!TableGrow, Wasm!IsReq, Wasm!Tab
    <2> QED BY <1>8, <2>7 DEF Wasm!Operation
  <1> QED BY <1>2, <1>11, <1>12

\* data.drop and elem.drop
LEMMA DataDropStep ==
    ASSUME StoreInv, execute_data_drop PROVE StoreInv' /\ Wasm!Operation
  <1>1. /\ req # None /\ Validated(req) /\ code = Words(req) /\ Opcode(code, "data", "drop")
        /\ Running("data", "drop")
    BY Decoded DEF execute_data_drop
  <1>2. req.name = "data.drop" BY <1>1, Named
  <1>3. SingleWord(code, "data", "drop", req.y) BY <1>1, <1>2, SingleWords
  <1>4. /\ data' = [data EXCEPT ![req.y] = <<>>] /\ UNCHANGED <<mem, tab, elem, glob, buf, cache, fuel>>
        /\ req' = None /\ code' = <<>> /\ UNCHANGED <<limiter, rounds>> /\ res' = Val(0)
    BY <1>3 DEF execute_data_drop, SingleWord, Finish
  <1>5. Contents'
    <2>0. <<>> \in Seq(Nat) OBVIOUS
    <2>1. data' \in [DOMAIN Initial.data -> Seq(Nat)] BY <1>4, <2>0 DEF StoreInv, Contents
    <2> QED BY <1>4, <2>1 DEF StoreInv, Contents
  <1>6. fuel' \in Nat \cup {Disabled} BY <1>4 DEF StoreInv
  <1>7. StoreInv' /\ Asked' = Wasm!None BY <1>4, <1>5, <1>6, Written
  <1>8. Asked.name = "data.drop" /\ Asked.y = req.y BY <1>1, <1>2, Asking
  <1>9. Wasm!DataDrop BY <1>4, <1>7, <1>8, SameTerms DEF Wasm!DataDrop, Wasm!IsReq
  <1> QED BY <1>7, <1>9 DEF Wasm!Operation
\* elem.drop empties the segment.
LEMMA ElemDropStep ==
    ASSUME StoreInv, execute_element_drop PROVE StoreInv' /\ Wasm!Operation
  <1>1. /\ req # None /\ Validated(req) /\ code = Words(req) /\ Opcode(code, "elem", "drop")
        /\ Running("elem", "drop")
    BY Decoded DEF execute_element_drop
  <1>2. req.name = "elem.drop" BY <1>1, Named
  <1>3. SingleWord(code, "elem", "drop", req.y) BY <1>1, <1>2, SingleWords
  <1>4. /\ elem' = [elem EXCEPT ![req.y] = <<>>] /\ UNCHANGED <<mem, tab, data, glob, buf, cache, fuel>>
        /\ req' = None /\ code' = <<>> /\ UNCHANGED <<limiter, rounds>> /\ res' = Val(0)
    BY <1>3 DEF execute_element_drop, SingleWord, Finish
  <1>5. Contents'
    <2>0. <<>> \in Seq(Nat) OBVIOUS
    <2>1. elem' \in [DOMAIN Initial.elem -> Seq(Nat)] BY <1>4, <2>0 DEF StoreInv, Contents
    <2> QED BY <1>4, <2>1 DEF StoreInv, Contents
  <1>6. fuel' \in Nat \cup {Disabled} BY <1>4 DEF StoreInv
  <1>7. StoreInv' /\ Asked' = Wasm!None BY <1>4, <1>5, <1>6, Written
  <1>8. Asked.name = "elem.drop" /\ Asked.y = req.y BY <1>1, <1>2, Asking
  <1>9. Wasm!ElemDrop BY <1>4, <1>7, <1>8, SameTerms DEF Wasm!ElemDrop, Wasm!IsReq
  <1> QED BY <1>7, <1>9 DEF Wasm!Operation

\* table.get
LEMMA TableGetStep ==
    ASSUME StoreInv, execute_table_get PROVE StoreInv' /\ Wasm!Operation
  <1>1. /\ req # None /\ Validated(req) /\ code = Words(req) /\ Opcode(code, "table", "get")
        /\ Running("table", "get")
    BY Decoded DEF execute_table_get
  <1>2. req.name = "table.get" BY <1>1, Named
  <1>3. PairWords(code, "table", "get", req) /\ code[1].a.v = req.a.v
    BY <1>1, <1>2, TableAccessWords
  <1>4. PICK t, s, at : t = TableAt[req.x] /\ s = tab[t] /\ at = req.a.v OBVIOUS
  <1>5. t \in DOMAIN Initial.tab
    BY <1>1, <1>2, <1>4, StoreAssumption DEF Validated, TableOps
  <1>6. s \in Seq(Nat) /\ at \in Nat BY <1>1, <1>4, <1>5, Operands DEF StoreInv, Contents
  <1>7. PICK r : r = IF at < Len(s) THEN Val(s[at + 1]) ELSE Traps("TableOutOfBounds") OBVIOUS
  <1>8. Return(r)
    BY <1>3, <1>4, <1>7 DEF execute_table_get, PairWords, fetch_table_index, A
  <1>9. StoreInv' /\ Asked' = Wasm!None /\ Wasm!Same /\ res' = r BY <1>8, ReturnAnswers
  <1>10. /\ Asked # Wasm!None /\ Asked.name = "table.get" /\ Asked.x = req.x /\ Asked.a = at
    BY <1>1, <1>2, <1>4, Asking
  <1>11. Wasm!Fits(Wasm!Tab(Asked.x), Asked.a, 1) <=> at < Len(s)
    BY <1>4, <1>6, <1>10 DEF Wasm!Fits, Wasm!Tab
  <1>12. CASE at < Len(s)
    <2>1. res' = Wasm!Val(s[at + 1]) BY <1>7, <1>9, <1>12, SameTerms
    <2>2. Wasm!TableGet
      BY <1>4, <1>9, <1>10, <1>11, <1>12, <2>1 DEF Wasm!TableGet, Wasm!IsReq, Wasm!Yield, Wasm!Tab
    <2> QED BY <1>9, <2>2 DEF Wasm!Operation
  <1>13. CASE ~(at < Len(s))
    <2>1. res' = Wasm!Traps("TableOutOfBounds") BY <1>7, <1>9, <1>13, SameTerms
    <2>2. Wasm!OutOfBounds BY <1>9, <1>10, <1>11, <1>13, <2>1 DEF Wasm!OutOfBounds
    <2> QED BY <1>9, <2>2 DEF Wasm!Operation
  <1> QED BY <1>12, <1>13

\* table.set
LEMMA TableSetStep ==
    ASSUME StoreInv, execute_table_set PROVE StoreInv' /\ Wasm!Operation
  <1>1. /\ req # None /\ Validated(req) /\ code = Words(req) /\ Opcode(code, "table", "set")
        /\ Running("table", "set")
    BY Decoded DEF execute_table_set
  <1>2. req.name = "table.set" BY <1>1, Named
  <1>3. /\ PairWords(code, "table", "set", req) /\ code[1].a.v = req.a.v
        /\ code[1].b.v = req.b.v
    BY <1>1, <1>2, TableAccessWords
  <1>4. PICK t, s, at, v : t = TableAt[req.x] /\ s = tab[t] /\ at = req.a.v /\ v = req.b.v
    OBVIOUS
  <1>5. t \in DOMAIN Initial.tab
    BY <1>1, <1>2, <1>4, StoreAssumption DEF Validated, TableOps
  <1>6. /\ s \in Seq(Nat) /\ Len(s) <= UMax("i32") /\ at \in Nat /\ v \in Nat
        /\ tab \in [DOMAIN Initial.tab -> Seq(Nat)]
    BY <1>1, <1>4, <1>5, Operands DEF StoreInv, Contents
  <1>7. /\ Asked # Wasm!None /\ Asked.name = "table.set" /\ Asked.x = req.x
        /\ Asked.a = at /\ Asked.b = v
    BY <1>1, <1>2, <1>4, Asking
  <1>8. Wasm!Fits(Wasm!Tab(Asked.x), Asked.a, 1) <=> at < Len(s)
    BY <1>4, <1>6, <1>7 DEF Wasm!Fits, Wasm!Tab
  <1>9. IF at >= Len(s) THEN Return(Traps("TableOutOfBounds"))
        ELSE /\ tab' = [tab EXCEPT ![t][at + 1] = v] /\ Finish(Val(0))
             /\ UNCHANGED <<mem, data, elem, glob, buf, cache, fuel>>
    BY <1>3, <1>4 DEF execute_table_set, PairWords, fetch_table_index, A, B
  <1>10. CASE at >= Len(s)
    <2>1. /\ StoreInv' /\ Asked' = Wasm!None /\ Wasm!Same
          /\ res' = Wasm!Traps("TableOutOfBounds")
      BY <1>9, <1>10, ReturnAnswers, SameTerms
    <2>2. ~(at < Len(s)) BY <1>6, <1>10
    <2>3. Wasm!OutOfBounds BY <1>7, <1>8, <2>1, <2>2 DEF Wasm!OutOfBounds
    <2> QED BY <2>1, <2>3 DEF Wasm!Operation
  <1>11. CASE ~(at >= Len(s))
    <2>1. /\ tab' = [tab EXCEPT ![t][at + 1] = v] /\ Finish(Val(0))
          /\ UNCHANGED <<mem, data, elem, glob, buf, cache, fuel>>
      BY <1>9, <1>11
    <2>2. PICK items : items = [s EXCEPT ![at + 1] = v] OBVIOUS
    <2>3. at + 1 \in 1 .. Len(s) /\ at < Len(s) BY <1>6, <1>11
    <2>4. items \in Seq(Nat) /\ Len(items) = Len(s) BY <1>6, <2>2, <2>3
    <2>5. tab' = [tab EXCEPT ![t] = items] BY <1>4, <1>5, <1>6, <2>1, <2>2
    <2>6. Contents' BY <1>5, <1>6, <2>1, <2>4, <2>5, TableContents DEF StoreInv
    <2>7. fuel' \in Nat \cup {Disabled} BY <2>1 DEF StoreInv
    <2>8. req' = None /\ code' = <<>> /\ UNCHANGED <<limiter, rounds>> /\ res' = Wasm!Val(0)
      BY <2>1, SameTerms DEF Finish
    <2>9. StoreInv' /\ Asked' = Wasm!None BY <2>1, <2>6, <2>7, <2>8, Written
    <2>10. Wasm!SetTab(Asked.x, [Wasm!Tab(Asked.x) EXCEPT ![Asked.a + 1] = Asked.b])
      BY <1>4, <1>7, <2>1, <2>2, <2>5 DEF Wasm!SetTab, Wasm!Tab
    <2>11. Wasm!TableSet
      BY <1>7, <1>8, <2>1, <2>3, <2>8, <2>9, <2>10 DEF Wasm!TableSet, Wasm!IsReq
    <2> QED BY <2>9, <2>11 DEF Wasm!Operation
  <1> QED BY <1>10, <1>11

\* Both ways to a global lead to the one the index names.
LEMMA Located ==
    ASSUME StoreInv, NEW i \in DOMAIN GlobalAt PROVE global_address(i) = GlobalAt[i]
  <1>1. cache = load_caches(buf) BY DEF StoreInv, CacheFresh
  <1>2. cache.global = CachedGlobal BY <1>1 DEF load_caches
  <1>3. CASE i = 0
    <2>1. cache.global = <<GlobalAt[0]>> BY <1>2, <1>3 DEF CachedGlobal
    <2>2. cache.global[1] = GlobalAt[0] BY <2>1
    <2> QED BY <1>3, <2>2 DEF global_address
  <1>4. CASE i # 0 BY <1>4 DEF global_address
  <1> QED BY <1>3, <1>4

\* global.get
LEMMA GlobalGetStep ==
    ASSUME StoreInv, execute_global_get PROVE StoreInv' /\ Wasm!Operation
  <1>1. /\ req # None /\ Validated(req) /\ code = Words(req) /\ Opcode(code, "global", "get")
        /\ Running("global", "get")
    BY Decoded DEF execute_global_get
  <1>2. /\ req.name = "global.get" /\ req.x \notin DOMAIN Frozen /\ req.x \notin DOMAIN FuncGlobals
        /\ req.x \in DOMAIN GlobalAt
    BY <1>1, Named DEF Validated
  <1>3. SingleWord(code, "global", "get", req.x) BY <1>1, <1>2, SingleWords
  <1>a. global_address(req.x) = GlobalAt[req.x] BY <1>2, Located
  <1>4. PICK r : r = Val(glob[GlobalAt[req.x]]) OBVIOUS
  <1>5. Return(r) BY <1>3, <1>4, <1>a DEF execute_global_get, SingleWord
  <1>6. StoreInv' /\ Asked' = Wasm!None /\ Wasm!Same /\ res' = r BY <1>5, ReturnAnswers
  <1>7. Asked.name = "global.get" /\ Asked.x = req.x BY <1>1, <1>2, Asking
  <1>8. Wasm!GlobalGet
    BY <1>4, <1>6, <1>7, SameTerms DEF Wasm!GlobalGet, Wasm!IsReq, Wasm!Yield
  <1> QED BY <1>6, <1>8 DEF Wasm!Operation

\* ref.func, and global.get of an immutable global with a known function
LEMMA RefFuncStep ==
    ASSUME StoreInv, execute_ref_func PROVE StoreInv' /\ Wasm!Operation
  <1>1. /\ req # None /\ Validated(req) /\ code = Words(req) /\ Opcode(code, "ref", "func")
        /\ Running("ref", "func")
    BY Decoded DEF execute_ref_func
  <1>2. \/ req.name = "ref.func"
        \/ /\ req.name = "global.get" /\ req.x \notin DOMAIN Frozen
           /\ req.x \in DOMAIN FuncGlobals
    BY <1>1, Named
  <1>3. Asked.name = req.name /\ Asked.x = req.x BY <1>1, Asking
  <1>4. CASE req.name = "ref.func"
    <2>1. SingleWord(code, "ref", "func", req.x) BY <1>1, <1>4, SingleWords
    <2>2. PICK r : r = Val(FuncAt[req.x]) OBVIOUS
    <2>3. Return(r) BY <2>1, <2>2 DEF execute_ref_func, SingleWord
    <2>4. StoreInv' /\ Asked' = Wasm!None /\ Wasm!Same /\ res' = r BY <2>3, ReturnAnswers
    <2>5. Wasm!RefFunc
      BY <1>3, <1>4, <2>2, <2>4, SameTerms DEF Wasm!RefFunc, Wasm!IsReq, Wasm!Yield
    <2> QED BY <2>4, <2>5 DEF Wasm!Operation
  <1>5. CASE /\ req.name = "global.get" /\ req.x \notin DOMAIN Frozen
             /\ req.x \in DOMAIN FuncGlobals
    <2>1. SingleWord(code, "ref", "func", FuncGlobals[req.x]) BY <1>1, <1>5, SingleWords
    <2>2. PICK r : r = Val(FuncAt[FuncGlobals[req.x]]) OBVIOUS
    <2>3. Return(r) BY <2>1, <2>2 DEF execute_ref_func, SingleWord
    <2>4. StoreInv' /\ Asked' = Wasm!None /\ Wasm!Same /\ res' = r BY <2>3, ReturnAnswers
    <2>5. glob[GlobalAt[req.x]] = FuncAt[FuncGlobals[req.x]]
      <3>1. glob[GlobalAt[req.x]] = Initial.glob[GlobalAt[req.x]]
        BY <1>5 DEF StoreInv, Contents, Immutable
      <3>2. Initial.glob[GlobalAt[req.x]] = FuncAt[FuncGlobals[req.x]] BY <1>5, GlobalAssumption
      <3> QED BY <3>1, <3>2
    <2>6. Wasm!GlobalGet
      BY <1>3, <1>5, <2>2, <2>4, <2>5, SameTerms DEF Wasm!GlobalGet, Wasm!IsReq, Wasm!Yield
    <2> QED BY <2>4, <2>6 DEF Wasm!Operation
  <1> QED BY <1>2, <1>4, <1>5

\* global.get of an immutable global with a known value
LEMMA ForwardStep ==
    ASSUME StoreInv, forward_global PROVE StoreInv' /\ Wasm!Operation
  <1>1. req # None /\ code = <<>> BY DEF forward_global
  <1>2. Validated(req) /\ code = Words(req) BY <1>1, Asking
  <1>3. req.name = "global.get" /\ req.x \in DOMAIN Frozen BY <1>1, <1>2, Named
  <1>4. glob[GlobalAt[req.x]] = Frozen[req.x]
    <2>1. glob[GlobalAt[req.x]] = Initial.glob[GlobalAt[req.x]]
      BY <1>3 DEF StoreInv, Contents, Immutable
    <2>2. Initial.glob[GlobalAt[req.x]] = Frozen[req.x] BY <1>3, GlobalAssumption
    <2> QED BY <2>1, <2>2
  <1>5. PICK r : r = Val(Frozen[req.x]) OBVIOUS
  <1>6. Return(r) BY <1>5 DEF forward_global
  <1>7. StoreInv' /\ Asked' = Wasm!None /\ Wasm!Same /\ res' = r BY <1>6, ReturnAnswers
  <1>8. Asked.name = "global.get" /\ Asked.x = req.x BY <1>1, <1>3, Asking
  <1>9. Wasm!GlobalGet
    BY <1>4, <1>5, <1>7, <1>8, SameTerms DEF Wasm!GlobalGet, Wasm!IsReq, Wasm!Yield
  <1> QED BY <1>7, <1>9 DEF Wasm!Operation

\* global.set
LEMMA GlobalSetStep ==
    ASSUME StoreInv, execute_global_set PROVE StoreInv' /\ Wasm!Operation
  <1>1. /\ req # None /\ Validated(req) /\ code = Words(req) /\ Opcode(code, "global", "set")
        /\ Running("global", "set")
    BY Decoded DEF execute_global_set
  <1>2. req.name = "global.set" BY <1>1, Named
  <1>3. /\ SingleWord(code, "global", "set", req.x)
        /\ \/ code[1].opcode[3] = {} /\ code[1].b.v = req.b.v
           \/ /\ code[1].opcode[3] = {"i32imm16"}
              /\ Wrap("i32", Signed("i16", code[1].b)) = req.b.v
           \/ /\ code[1].opcode[3] = {"i64imm16"}
              /\ Wrap("i64", Signed("i16", code[1].b)) = req.b.v
    BY <1>1, <1>2, GlobalSetWords
  <1>4. PICK v, g : v = req.b.v /\ g = GlobalAt[req.x] OBVIOUS
  <1>5. global_set_input = v
    <2>1. CASE code[1].opcode[3] = {} /\ code[1].b.v = req.b.v
      BY <1>4, <2>1 DEF global_set_input, B
    <2>2. CASE /\ code[1].opcode[3] = {"i32imm16"}
               /\ Wrap("i32", Signed("i16", code[1].b)) = req.b.v
      BY <1>4, <2>2 DEF global_set_input
    <2>3. CASE /\ code[1].opcode[3] = {"i64imm16"}
               /\ Wrap("i64", Signed("i16", code[1].b)) = req.b.v
      BY <1>4, <2>3 DEF global_set_input
    <2> QED BY <1>3, <2>1, <2>2, <2>3
  <1>8. req.x \in DOMAIN GlobalAt /\ req.x \notin Immutable /\ g \in DOMAIN Initial.glob
    BY <1>1, <1>2, <1>4, StoreAssumption DEF Validated
  <1>a. global_address(code[1].a) = g BY <1>3, <1>4, <1>8, Located DEF SingleWord
  <1>6. /\ glob' = [glob EXCEPT ![g] = v] /\ UNCHANGED <<mem, tab, data, elem, buf, cache, fuel>>
        /\ req' = None /\ code' = <<>> /\ UNCHANGED <<limiter, rounds>> /\ res' = Val(0)
    BY <1>5, <1>a DEF execute_global_set, Finish
  <1>7. v \in Nat BY <1>1, <1>4, Operands
  <1>9. Contents'
    <2>0. glob \in [DOMAIN Initial.glob -> Nat] BY DEF StoreInv, Contents
    <2>1. glob' \in [DOMAIN Initial.glob -> Nat] BY <1>6, <1>7, <2>0
    <2>2. ASSUME NEW i \in Immutable PROVE glob'[GlobalAt[i]] = Initial.glob[GlobalAt[i]]
      <3>1. i \in DOMAIN GlobalAt /\ GlobalAt[i] # g BY <1>4, <1>8, GlobalAssumption
      <3>2. GlobalAt[i] \in DOMAIN Initial.glob BY <3>1, StoreAssumption
      <3>3. glob[GlobalAt[i]] = Initial.glob[GlobalAt[i]] BY DEF StoreInv, Contents
      <3> QED BY <1>6, <2>0, <3>1, <3>2, <3>3
    <2> QED BY <1>6, <2>1, <2>2 DEF StoreInv, Contents
  <1>10. fuel' \in Nat \cup {Disabled} BY <1>6 DEF StoreInv
  <1>11. StoreInv' /\ Asked' = Wasm!None BY <1>6, <1>9, <1>10, Written
  <1>12. Asked.name = "global.set" /\ Asked.x = req.x /\ Asked.b = v BY <1>1, <1>2, <1>4, Asking
  <1>13. Wasm!GlobalSet BY <1>4, <1>6, <1>11, <1>12, SameTerms DEF Wasm!GlobalSet, Wasm!IsReq
  <1> QED BY <1>11, <1>13 DEF Wasm!Operation

\* A load from memory 0, through the cache
LEMMA LoadStep ==
    ASSUME StoreInv, execute_load8 PROVE StoreInv' /\ Wasm!Operation
  <1>1. /\ req # None /\ Validated(req) /\ code = Words(req) /\ Opcode(code, "i32", "load8_u")
        /\ Running("i32", "load8_u")
    BY Decoded DEF execute_load8
  <1>2. req.name = "load8" BY <1>1, Named
  <1>3. code[1].a.v = req.a.v BY <1>1, <1>2, SingleWords
  <1>4. PICK m, s, at : m = MemoryAt[0] /\ s = mem[m] /\ at = req.a.v OBVIOUS
  <1>5. m \in DOMAIN Initial.mem BY <1>1, <1>2, <1>4, StoreAssumption DEF Validated
  <1>6. s \in Seq(Nat) /\ at \in Nat BY <1>1, <1>4, <1>5, Operands DEF StoreInv, Contents
  <1>7. cache.memory = CachedMemory(buf) BY DEF StoreInv, CacheFresh, load_caches
  <1>8. PICK r : r = IF Slice(s, at, 1) THEN Val(s[at + 1]) ELSE Traps("MemoryOutOfBounds") OBVIOUS
  <1>9. Return(r) BY <1>3, <1>4, <1>7, <1>8 DEF execute_load8, A
  <1>10. StoreInv' /\ Asked' = Wasm!None /\ Wasm!Same /\ res' = r BY <1>9, ReturnAnswers
  <1>11. Asked # Wasm!None /\ Asked.name = "load8" /\ Asked.a = at BY <1>1, <1>2, <1>4, Asking
  <1>12. Slice(s, at, 1) <=> Wasm!Fits(Wasm!Mem(0), Asked.a, 1)
    BY <1>4, <1>6, <1>11, SliceFits DEF Wasm!Fits, Wasm!Mem
  <1>13. CASE Slice(s, at, 1)
    <2>1. res' = Wasm!Val(s[at + 1]) BY <1>8, <1>10, <1>13, SameTerms
    <2>2. Wasm!Load8
      BY <1>4, <1>10, <1>11, <1>12, <1>13, <2>1 DEF Wasm!Load8, Wasm!IsReq, Wasm!Yield, Wasm!Mem
    <2> QED BY <1>10, <2>2 DEF Wasm!Operation
  <1>14. CASE ~Slice(s, at, 1)
    <2>1. res' = Wasm!Traps("MemoryOutOfBounds") BY <1>8, <1>10, <1>14, SameTerms
    <2>2. Wasm!OutOfBounds BY <1>10, <1>11, <1>12, <1>14, <2>1 DEF Wasm!OutOfBounds
    <2> QED BY <1>10, <2>2 DEF Wasm!Operation
  <1> QED BY <1>13, <1>14

\* The limiter says yes to what is within its limits, and no, or an error, only to
\* what is not.
LEMMA GrowingAnswers ==
    ASSUME NEW limit, NEW desired, NEW maximum
    PROVE  /\ Growing(limit, desired, maximum) \in {"yes", "no", "trap"}
           /\ Growing(limit, desired, maximum) = "yes" /\ limiter.on => desired <= limit
           /\ Growing(limit, desired, maximum) \in {"no", "trap"} =>
                 limiter.on /\ ~(desired <= limit /\ desired <= maximum)
           /\ Growing(limit, desired, maximum) = "trap" => limiter.trap
  BY DEF Growing

\* The sizes a memory and a table may grow to.
MemoryAllows(m, size) == /\ size <= PagesMax /\ size <= MaxPages[m]
                         /\ limiter.on => size <= limiter.memory_size
TableAllows(t, size) == /\ size <= UMax("i32") /\ size <= MaxElems[t]
                        /\ limiter.on => size <= limiter.table_elements

\* The quotient of natural numbers is one.
LEMMA Quotient == ASSUME NEW a \in Nat, NEW b \in Nat \ {0} PROVE a \div b \in Nat
  <1>1. a \in Int /\ a >= 0 /\ b \in Int /\ b > 0 OBVIOUS
  <1>2. a \div b \in Int BY <1>1
  <1>3. a \div b >= 0
    <2> SUFFICES ASSUME NEW c \in Int, NEW d \in Int, c >= 0, d > 0 PROVE c \div d >= 0 BY <1>1
    <2> QED BY SMTT(30)
  <1> QED BY <1>2, <1>3

\* What comes of growing a memory, and why.
LEMMA MemoryGrowAnswers ==
    ASSUME NEW m \in DOMAIN Initial.mem, NEW n \in Nat, StoreInv, NEW result,
           result = memory_grow_result(m, n), NEW size, size = Pages(m) + n
    PROVE  \/ result = "grows" /\ MemoryAllows(m, size) /\ HasFuel(n * PageSize)
           \/ result = "invalid" /\ ~MemoryAllows(m, size)
           \/ /\ result = "GrowthOperationLimited" /\ ~MemoryAllows(m, size)
              /\ limiter.on /\ limiter.trap
           \/ result = "OutOfFuel" /\ MemoryAllows(m, size) /\ ~HasFuel(n * PageSize)
  <1>1. PagesMax \in Nat /\ PageSize \in Nat \ {0} /\ MaxPages[m] \in Nat BY StoreAssumption
  <1>2. Len(mem[m]) \in Nat BY DEF StoreInv, Contents
  <1>3. Len(mem[m]) \div PageSize \in Nat BY <1>1, <1>2, Quotient
  <1>4. size \in Nat /\ n <= size BY <1>3 DEF Pages
  <1>5. PICK c, asked : /\ c = IF size <= PagesMax THEN size ELSE PagesMax
                        /\ asked = memory_growing(c, MaxPages[m])
    OBVIOUS
  <1>6. result = CASE n > PagesMax -> "invalid"
         [] n <= PagesMax /\ asked = "no" -> "invalid"
         [] n <= PagesMax /\ asked = "trap" -> "GrowthOperationLimited"
         [] n <= PagesMax /\ asked = "yes" ->
              IF size > PagesMax \/ size > MaxPages[m] THEN "invalid"
              ELSE IF ~HasFuel(n * PageSize) THEN "OutOfFuel" ELSE "grows"
    BY <1>5 DEF memory_grow_result
  <1>7. /\ asked \in {"yes", "no", "trap"}
        /\ asked = "yes" /\ limiter.on => c <= limiter.memory_size
        /\ asked \in {"no", "trap"} =>
              limiter.on /\ ~(c <= limiter.memory_size /\ c <= MaxPages[m])
        /\ asked = "trap" => limiter.trap
    BY <1>5, GrowingAnswers DEF memory_growing
  <1>8. CASE n > PagesMax
    <2>1. ~(size <= PagesMax) BY <1>1, <1>4, <1>8
    <2>2. result = "invalid" BY <1>1, <1>6, <1>8
    <2> QED BY <2>1, <2>2 DEF MemoryAllows
  <1>9. CASE n <= PagesMax /\ asked \in {"no", "trap"}
    <2>1. ~MemoryAllows(m, size) BY <1>5, <1>7, <1>9 DEF MemoryAllows
    <2>2. ~(n > PagesMax) BY <1>1, <1>9
    <2>3. result = IF asked = "no" THEN "invalid" ELSE "GrowthOperationLimited"
      BY <1>6, <1>9, <2>2
    <2> QED BY <1>7, <1>9, <2>1, <2>3
  <1>10. CASE n <= PagesMax /\ asked = "yes"
    <2>1. ~(n > PagesMax) BY <1>1, <1>10
    <2>2. result = IF size > PagesMax \/ size > MaxPages[m] THEN "invalid"
                   ELSE IF ~HasFuel(n * PageSize) THEN "OutOfFuel" ELSE "grows"
      BY <1>6, <1>10, <2>1
    <2>3. CASE size > PagesMax \/ size > MaxPages[m]
      <3>1. ~(size <= PagesMax /\ size <= MaxPages[m]) BY <1>1, <1>4, <2>3
      <3> QED BY <2>2, <2>3, <3>1 DEF MemoryAllows
    <2>4. CASE ~(size > PagesMax \/ size > MaxPages[m])
      <3>1. size <= PagesMax /\ size <= MaxPages[m] BY <1>1, <1>4, <2>4
      <3>2. c = size BY <1>5, <3>1
      <3>3. MemoryAllows(m, size) BY <1>7, <1>10, <3>1, <3>2 DEF MemoryAllows
      <3> QED BY <2>2, <2>4, <3>3
    <2> QED BY <2>3, <2>4
  <1>11. n > PagesMax \/ n <= PagesMax BY <1>1
  <1> QED BY <1>7, <1>8, <1>9, <1>10, <1>11

\* memory.grow
LEMMA MemoryGrowStep ==
    ASSUME StoreInv, execute_memory_grow PROVE StoreInv' /\ Wasm!Operation
  <1>1. /\ req # None /\ Validated(req) /\ code = Words(req) /\ Opcode(code, "memory", "grow")
        /\ Running("memory", "grow")
    BY Decoded DEF execute_memory_grow
  <1>2. req.name = "memory.grow" /\ req.n # Const(0) BY <1>1, Named
  <1>3. PairWords(code, "memory", "grow", req) /\ code[1].n.v = req.n.v BY <1>1, <1>2, GrowWords
  <1>4. PICK m, s, n, result :
          m = MemoryAt[req.x] /\ s = mem[m] /\ n = req.n.v /\ result = memory_grow_result(m, n)
    OBVIOUS
  <1>5. m \in DOMAIN Initial.mem
    BY <1>1, <1>2, <1>4, StoreAssumption DEF Validated, MemoryOps
  <1>6. s \in Seq(Nat) /\ n \in Nat /\ mem \in [DOMAIN Initial.mem -> Seq(Nat)]
    BY <1>1, <1>4, <1>5, Operands DEF StoreInv, Contents
  <1>8. PICK pages, size : pages = Len(s) \div PageSize /\ size = pages + n OBVIOUS
  <1>7. \/ result = "grows" /\ MemoryAllows(m, size) /\ HasFuel(n * PageSize)
        \/ result = "invalid" /\ ~MemoryAllows(m, size)
        \/ /\ result = "GrowthOperationLimited" /\ ~MemoryAllows(m, size)
           /\ limiter.on /\ limiter.trap
        \/ result = "OutOfFuel" /\ MemoryAllows(m, size) /\ ~HasFuel(n * PageSize)
    <2>1. size = Pages(m) + n BY <1>4, <1>8 DEF Pages
    <2> QED BY <1>4, <1>5, <1>6, <2>1, MemoryGrowAnswers
  <1>9. IF n = 0 THEN Return(Val(pages))
        ELSE IF result = "invalid" THEN Return(Val(UMax("i32")))
        ELSE IF result # "grows" THEN Return(Traps(result))
        ELSE /\ consume_fuel(n * PageSize) /\ Finish(Val(pages))
             /\ mem' = [mem EXCEPT ![m] = s \o [i \in 1 .. n * PageSize |-> 0]]
             /\ buf' = [buf EXCEPT ![m] = @ + 1]
             /\ cache' = [cache EXCEPT !.memory = CachedMemory(buf')]
             /\ UNCHANGED <<tab, data, elem, glob>>
    <2>1. fetch_memory_index(1) = m /\ N = n
      BY <1>3, <1>4 DEF PairWords, fetch_memory_index, N
    <2>2. Pages(m) = pages /\ memory_grow_result(m, n) = result /\ mem[m] = s
      BY <1>4, <1>8 DEF Pages
    <2> QED BY <2>1, <2>2 DEF execute_memory_grow
  <1>10. /\ Asked.name = "memory.grow" /\ Asked.x = req.x /\ Asked.n = n
         /\ Wasm!Mem(Asked.x) = s
    BY <1>1, <1>2, <1>4, Asking DEF Wasm!Mem
  <1>r. Wasm!MemoryRoom <=> MemoryAllows(m, size)
    BY <1>4, <1>8, <1>10 DEF Wasm!MemoryRoom, MemoryAllows
  <1>11. CASE n = 0
    <2>1. StoreInv' /\ Asked' = Wasm!None /\ Wasm!Same /\ res' = Wasm!Val(pages)
      BY <1>9, <1>11, ReturnAnswers, SameTerms
    <2>2. n * PageSize = 0 BY <1>11, StoreAssumption
    <2>3. PICK none : none = [i \in 1 .. 0 |-> 0] OBVIOUS
    <2>4. s \o none = s BY <1>6, <2>3, GrowByZero
    <2>5. [mem EXCEPT ![m] = s \o none] = mem BY <1>4, <1>5, <1>6, <2>4
    <2>6. [i \in 1 .. n * PageSize |-> 0] = none BY <2>2, <2>3
    <2>7. Wasm!SetMem(Asked.x, s \o [i \in 1 .. n * PageSize |-> 0])
      BY <1>4, <1>10, <2>1, <2>5, <2>6 DEF Wasm!SetMem, Wasm!Same
    <2>f. Wasm!Pays(Asked.n * PageSize) BY <1>10, <2>1, <2>2, NothingPaid DEF Wasm!Same
    <2>8. Wasm!MemoryGrow
      BY <1>8, <1>10, <1>11, <2>1, <2>7, <2>f DEF Wasm!MemoryGrow, Wasm!IsReq
    <2> QED BY <2>1, <2>8 DEF Wasm!Operation
  <1>12. CASE n # 0 /\ result = "invalid"
    <2>1. StoreInv' /\ Asked' = Wasm!None /\ Wasm!Same /\ res' = Wasm!Val(UMax("i32"))
      BY <1>9, <1>12, ReturnAnswers, SameTerms
    <2>2. ~Wasm!MemoryRoom BY <1>7, <1>12, <1>r
    <2>3. Wasm!GrowRefused BY <1>10, <1>12, <2>1, <2>2 DEF Wasm!GrowRefused
    <2> QED BY <2>1, <2>3 DEF Wasm!Operation
  <1>13. CASE n # 0 /\ result = "GrowthOperationLimited"
    <2>1. StoreInv' /\ Asked' = Wasm!None /\ Wasm!Same /\ res' = Wasm!Traps(result)
      BY <1>9, <1>13, ReturnAnswers, SameTerms
    <2>2. ~Wasm!MemoryRoom /\ limiter.on /\ limiter.trap BY <1>7, <1>13, <1>r
    <2>3. Wasm!GrowRefused BY <1>10, <1>13, <2>1, <2>2 DEF Wasm!GrowRefused
    <2> QED BY <2>1, <2>3 DEF Wasm!Operation
  <1>o. CASE n # 0 /\ result = "OutOfFuel"
    <2>1. StoreInv' /\ Asked' = Wasm!None /\ Wasm!Same /\ res' = Wasm!Traps(result)
      BY <1>9, <1>o, ReturnAnswers, SameTerms
    <2>2. Wasm!MemoryRoom /\ ~HasFuel(n * PageSize) BY <1>7, <1>o, <1>r
    <2>3. ~Wasm!Affords(Asked.n * PageSize) BY <1>10, <2>2, SameFuel
    <2>4. Wasm!OutOfFuel BY <1>10, <1>o, <2>1, <2>2, <2>3 DEF Wasm!OutOfFuel
    <2> QED BY <2>1, <2>4 DEF Wasm!Operation
  <1>14. CASE n # 0 /\ result = "grows"
    <2>1. /\ consume_fuel(n * PageSize) /\ Finish(Val(pages))
          /\ mem' = [mem EXCEPT ![m] = s \o [i \in 1 .. n * PageSize |-> 0]]
          /\ buf' = [buf EXCEPT ![m] = @ + 1]
          /\ cache' = [cache EXCEPT !.memory = CachedMemory(buf')]
          /\ UNCHANGED <<tab, data, elem, glob>>
      BY <1>9, <1>14
    <2>2. PICK len \in Nat : len = n * PageSize BY <1>6, StoreAssumption
    <2>3. PICK bytes : bytes = s \o [i \in 1 .. len |-> 0] OBVIOUS
    <2>4. bytes \in Seq(Nat) BY <1>6, <2>3, GrowAppends
    <2>5. mem' = [mem EXCEPT ![m] = bytes] BY <2>1, <2>2, <2>3
    <2>6. Contents' BY <1>5, <2>1, <2>4, <2>5, MemoryContents DEF StoreInv
    <2>m. MemoryAllows(m, size) /\ HasFuel(n * PageSize) BY <1>7, <1>14
    <2>f. HasFuel(len) /\ consume_fuel(len) BY <2>1, <2>2, <2>m
    <2>7. fuel' \in Nat \cup {Disabled} /\ Wasm!Pays(len) BY <2>f, FuelTyped
    <2>8. /\ req' = None /\ code' = <<>> /\ UNCHANGED <<limiter, rounds>>
          /\ res' = Wasm!Val(pages)
      BY <2>1, SameTerms DEF Finish
    <2>9. buf' \in [DOMAIN Initial.mem -> Nat]
      <3>1. buf \in [DOMAIN Initial.mem -> Nat] BY DEF StoreInv
      <3>2. buf[m] + 1 \in Nat BY <1>5, <3>1
      <3> QED BY <2>1, <3>1, <3>2
    <2>10. CacheFresh'
      <3>1. PICK b, f : b = CachedMemory(buf') /\ f = CachedMemory(buf) OBVIOUS
      <3>2. cache = [memory |-> f, global |-> CachedGlobal]
        BY <3>1 DEF StoreInv, CacheFresh, load_caches
      <3>3. cache' = [cache EXCEPT !.memory = b] BY <2>1, <3>1
      <3>4. cache' = [memory |-> b, global |-> CachedGlobal] BY <3>2, <3>3
      <3> QED BY <3>1, <3>4 DEF CacheFresh, load_caches, CachedMemory, CachedGlobal
    <2>11. Translated' BY <2>8 DEF Translated
    <2>12. StoreInv' BY <2>6, <2>7, <2>8, <2>9, <2>10, <2>11 DEF StoreInv
    <2>13. Asked' = Wasm!None BY <2>8, Ended
    <2>14. Wasm!SetMem(Asked.x, s \o [i \in 1 .. n * PageSize |-> 0])
      BY <1>4, <1>10, <2>1 DEF Wasm!SetMem
    <2>p. Wasm!MemoryRoom /\ Wasm!Pays(Asked.n * PageSize) BY <1>10, <1>r, <2>2, <2>7, <2>m
    <2>15. Wasm!MemoryGrow
      BY <1>8, <1>10, <2>8, <2>13, <2>14, <2>p DEF Wasm!MemoryGrow, Wasm!IsReq
    <2> QED BY <2>12, <2>15 DEF Wasm!Operation
  <1> QED BY <1>7, <1>11, <1>12, <1>13, <1>14, <1>o

\* What comes of growing a table, and why.
LEMMA TableGrowAnswers ==
    ASSUME NEW t \in DOMAIN Initial.tab, NEW n \in Nat, StoreInv, NEW result,
           result = table_grow_result(t, n), NEW size, size = Len(tab[t]) + n
    PROVE  \/ result = "grows" /\ TableAllows(t, size) /\ HasFuel(n)
           \/ result = "invalid" /\ (~TableAllows(t, size) \/ ~HasFuel(n))
           \/ /\ result = "GrowthOperationLimited" /\ ~TableAllows(t, size)
              /\ limiter.on /\ limiter.trap
  <1>1. UMax("i32") \in Nat /\ MaxElems[t] \in Nat BY StoreAssumption, Powers
  <1>2. Len(tab[t]) \in Nat BY DEF StoreInv, Contents
  <1>3. size \in Nat BY <1>2
  <1>4. PICK c, asked : /\ c = IF size <= UMax("i32") THEN size ELSE UMax("i32")
                        /\ asked = table_growing(c, MaxElems[t])
    OBVIOUS
  <1>5. result = CASE asked = "no" -> "invalid"
         [] asked = "trap" -> "GrowthOperationLimited"
         [] asked = "yes" -> IF size > UMax("i32") \/ size > MaxElems[t] \/ ~HasFuel(n)
                             THEN "invalid" ELSE "grows"
    BY <1>4 DEF table_grow_result
  <1>6. /\ asked \in {"yes", "no", "trap"}
        /\ asked = "yes" /\ limiter.on => c <= limiter.table_elements
        /\ asked \in {"no", "trap"} =>
              limiter.on /\ ~(c <= limiter.table_elements /\ c <= MaxElems[t])
        /\ asked = "trap" => limiter.trap
    BY <1>4, GrowingAnswers DEF table_growing
  <1>7. CASE asked \in {"no", "trap"}
    <2>1. ~TableAllows(t, size) BY <1>4, <1>6, <1>7 DEF TableAllows
    <2>2. result = IF asked = "no" THEN "invalid" ELSE "GrowthOperationLimited" BY <1>5, <1>7
    <2> QED BY <1>6, <1>7, <2>1, <2>2
  <1>8. CASE asked = "yes"
    <2>1. result = IF size > UMax("i32") \/ size > MaxElems[t] \/ ~HasFuel(n)
                   THEN "invalid" ELSE "grows"
      BY <1>5, <1>8
    <2>2. CASE size > UMax("i32") \/ size > MaxElems[t]
      <3>1. ~(size <= UMax("i32") /\ size <= MaxElems[t]) BY <1>1, <1>3, <2>2
      <3> QED BY <2>1, <2>2, <3>1 DEF TableAllows
    <2>3. CASE ~(size > UMax("i32") \/ size > MaxElems[t])
      <3>1. size <= UMax("i32") /\ size <= MaxElems[t] BY <1>1, <1>3, <2>3
      <3>2. c = size BY <1>4, <3>1
      <3>3. TableAllows(t, size) BY <1>6, <1>8, <3>1, <3>2 DEF TableAllows
      <3> QED BY <2>1, <2>3, <3>3
    <2> QED BY <2>2, <2>3
  <1> QED BY <1>6, <1>7, <1>8

\* table.grow
LEMMA TableGrowStep ==
    ASSUME StoreInv, execute_table_grow PROVE StoreInv' /\ Wasm!Operation
  <1>1. /\ req # None /\ Validated(req) /\ code = Words(req) /\ Opcode(code, "table", "grow")
        /\ Running("table", "grow")
    BY Decoded DEF execute_table_grow
  <1>2. req.name = "table.grow" /\ req.n # Const(0) BY <1>1, Named
  <1>3. /\ PairWords(code, "table", "grow", req) /\ code[1].n.v = req.n.v
        /\ code[1].b.v = req.b.v
    BY <1>1, <1>2, GrowWords
  <1>4. PICK t, s, n, v, result :
          /\ t = TableAt[req.x] /\ s = tab[t] /\ n = req.n.v /\ v = req.b.v
          /\ result = table_grow_result(t, n)
    OBVIOUS
  <1>5. t \in DOMAIN Initial.tab
    BY <1>1, <1>2, <1>4, StoreAssumption DEF Validated, TableOps
  <1>6. s \in Seq(Nat) /\ n \in Nat /\ v \in Nat /\ tab \in [DOMAIN Initial.tab -> Seq(Nat)]
    BY <1>1, <1>4, <1>5, Operands DEF StoreInv, Contents
  <1>z. PICK size : size = Len(s) + n OBVIOUS
  <1>7. \/ result = "grows" /\ TableAllows(t, size) /\ HasFuel(n)
        \/ result = "invalid" /\ (~TableAllows(t, size) \/ ~HasFuel(n))
        \/ /\ result = "GrowthOperationLimited" /\ ~TableAllows(t, size)
           /\ limiter.on /\ limiter.trap
    <2>1. size = Len(tab[t]) + n BY <1>4, <1>z
    <2> QED BY <1>4, <1>5, <1>6, <2>1, TableGrowAnswers
  <1>8. IF n = 0 THEN Return(Val(Len(s)))
        ELSE IF result = "invalid" THEN Return(Val(UMax("i32")))
        ELSE IF result # "grows" THEN Return(Traps(result))
        ELSE /\ consume_fuel(n) /\ Finish(Val(Len(s)))
             /\ tab' = [tab EXCEPT ![t] = s \o [i \in 1 .. n |-> v]]
             /\ UNCHANGED <<mem, data, elem, glob, buf, cache>>
    <2>1. fetch_table_index(1) = t /\ N = n /\ B = v
      BY <1>3, <1>4 DEF PairWords, fetch_table_index, N, B
    <2>2. table_grow_result(t, n) = result /\ tab[t] = s BY <1>4
    <2> QED BY <2>1, <2>2 DEF execute_table_grow
  <1>9. /\ Asked.name = "table.grow" /\ Asked.x = req.x /\ Asked.n = n /\ Asked.b = v
        /\ Wasm!Tab(Asked.x) = s
    BY <1>1, <1>2, <1>4, Asking DEF Wasm!Tab
  <1>r. Wasm!TableRoom <=> TableAllows(t, size)
    BY <1>4, <1>9, <1>z DEF Wasm!TableRoom, TableAllows
  <1>10. CASE n = 0
    <2>1. StoreInv' /\ Asked' = Wasm!None /\ Wasm!Same /\ res' = Wasm!Val(Len(s))
      BY <1>8, <1>10, ReturnAnswers, SameTerms
    <2>2. PICK none : none = [i \in 1 .. 0 |-> v] OBVIOUS
    <2>3. s \o none = s BY <1>6, <2>2, GrowByZero
    <2>4. [tab EXCEPT ![t] = s \o none] = tab BY <1>4, <1>5, <1>6, <2>3
    <2>5. [i \in 1 .. n |-> v] = none BY <1>10, <2>2
    <2>6. Wasm!SetTab(Asked.x, s \o [i \in 1 .. n |-> v])
      BY <1>4, <1>9, <2>1, <2>4, <2>5 DEF Wasm!SetTab, Wasm!Same
    <2>f. Wasm!Pays(Asked.n) BY <1>9, <1>10, <2>1, NothingPaid DEF Wasm!Same
    <2>7. Wasm!TableGrow BY <1>9, <1>10, <2>1, <2>6, <2>f DEF Wasm!TableGrow, Wasm!IsReq
    <2> QED BY <2>1, <2>7 DEF Wasm!Operation
  <1>11. CASE n # 0 /\ result = "invalid"
    <2>1. StoreInv' /\ Asked' = Wasm!None /\ Wasm!Same /\ res' = Wasm!Val(UMax("i32"))
      BY <1>8, <1>11, ReturnAnswers, SameTerms
    <2>2. ~Wasm!TableRoom \/ ~Wasm!Affords(Asked.n) BY <1>7, <1>9, <1>11, <1>r, SameFuel
    <2>3. Wasm!GrowRefused BY <1>9, <1>11, <2>1, <2>2 DEF Wasm!GrowRefused
    <2> QED BY <2>1, <2>3 DEF Wasm!Operation
  <1>12. CASE n # 0 /\ result = "GrowthOperationLimited"
    <2>1. StoreInv' /\ Asked' = Wasm!None /\ Wasm!Same /\ res' = Wasm!Traps(result)
      BY <1>8, <1>12, ReturnAnswers, SameTerms
    <2>2. ~Wasm!TableRoom /\ limiter.on /\ limiter.trap BY <1>7, <1>12, <1>r
    <2>3. Wasm!GrowRefused BY <1>9, <1>12, <2>1, <2>2 DEF Wasm!GrowRefused
    <2> QED BY <2>1, <2>3 DEF Wasm!Operation
  <1>13. CASE n # 0 /\ result = "grows"
    <2>1. /\ consume_fuel(n) /\ Finish(Val(Len(s)))
          /\ tab' = [tab EXCEPT ![t] = s \o [i \in 1 .. n |-> v]]
          /\ UNCHANGED <<mem, data, elem, glob, buf, cache>>
      BY <1>8, <1>13
    <2>2. PICK items : items = s \o [i \in 1 .. n |-> v] OBVIOUS
    <2>3. items \in Seq(Nat) /\ Len(items) = Len(s) + n BY <1>6, <2>2, GrowAppends
    <2>4. tab' = [tab EXCEPT ![t] = items] BY <2>1, <2>2
    <2>a. TableAllows(t, size) /\ HasFuel(n) BY <1>7, <1>13
    <2>b. Len(items) <= UMax("i32") BY <1>z, <2>3, <2>a DEF TableAllows
    <2>5. Contents' BY <1>5, <2>1, <2>3, <2>4, <2>b, TableContents DEF StoreInv
    <2>6. fuel' \in Nat \cup {Disabled} /\ Wasm!Pays(n) BY <1>6, <2>1, <2>a, FuelTyped
    <2>7. /\ req' = None /\ code' = <<>> /\ UNCHANGED <<limiter, rounds>>
          /\ res' = Wasm!Val(Len(s))
      BY <2>1, SameTerms DEF Finish
    <2>8. StoreInv' /\ Asked' = Wasm!None BY <2>1, <2>5, <2>6, <2>7, Written
    <2>9. Wasm!SetTab(Asked.x, s \o [i \in 1 .. n |-> v]) BY <1>4, <1>9, <2>1 DEF Wasm!SetTab
    <2>c. Wasm!TableRoom /\ Wasm!Pays(Asked.n) BY <1>9, <1>r, <2>6, <2>a
    <2>10. Wasm!TableGrow BY <1>9, <2>7, <2>8, <2>9, <2>c DEF Wasm!TableGrow, Wasm!IsReq
    <2> QED BY <2>8, <2>10 DEF Wasm!Operation
  <1> QED BY <1>7, <1>10, <1>11, <1>12, <1>13

\* An operator is translated.
LEMMA VisitStep ==
    ASSUME StoreInv, visit PROVE StoreInv' /\ Wasm!Operation
  <1>1. PICK o \in Setup \cup All : req' = o /\ code' = Words(o) BY DEF visit
  <1>2. /\ req = None /\ rounds > 0 /\ rounds' = rounds - 1
        /\ UNCHANGED <<store, res, limiter>>
    BY DEF visit
  <1>3. /\ mem' = mem /\ tab' = tab /\ data' = data /\ elem' = elem /\ glob' = glob
        /\ buf' = buf /\ cache' = cache /\ fuel' = fuel /\ limiter' = limiter /\ res' = res
    BY <1>2 DEF store
  <1>4. Validated(o) /\ o # None BY RequestAssumption, Plain
  <1>5. Contents' BY <1>3 DEF StoreInv, Contents
  <1>6. Translated' BY <1>1, <1>4 DEF Translated
  <1>7. CacheFresh' BY <1>3 DEF StoreInv, CacheFresh, load_caches, CachedMemory
  <1>8. rounds' \in Nat BY <1>2 DEF StoreInv
  <1>9. StoreInv' BY <1>3, <1>5, <1>6, <1>7, <1>8 DEF StoreInv
  <1>10. Asked' = [name |-> o.name, x |-> o.x, y |-> o.y, a |-> o.a.v, b |-> o.b.v, n |-> o.n.v]
    BY <1>1, <1>4 DEF Asked
  <1>11. Asked' \in Wasm!Requests BY <1>4, <1>10, Plain
  <1>12. Asked = Wasm!None BY <1>2, SameTerms DEF Asked
  <1>13. Wasm!Request BY <1>3, <1>11, <1>12 DEF Wasm!Request
  <1> QED BY <1>9, <1>13 DEF Wasm!Operation

\* Steps that change nothing.
LEMMA Stutter ==
    ASSUME StoreInv, UNCHANGED vars PROVE StoreInv' /\ UNCHANGED Wasm!vars
  <1>1. /\ mem' = mem /\ tab' = tab /\ data' = data /\ elem' = elem /\ glob' = glob
        /\ buf' = buf /\ cache' = cache /\ fuel' = fuel /\ limiter' = limiter /\ rounds' = rounds
        /\ req' = req /\ code' = code /\ res' = res
    BY DEF vars, store
  <1>2. Contents' BY <1>1 DEF StoreInv, Contents
  <1>3. Translated' BY <1>1 DEF StoreInv, Translated
  <1>4. CacheFresh' BY <1>1 DEF StoreInv, CacheFresh, load_caches, CachedMemory
  <1>5. Asked' = Asked BY <1>1 DEF Asked
  <1> QED BY <1>1, <1>2, <1>3, <1>4, <1>5 DEF StoreInv, Wasm!vars

-----------------------------------------------------------------------------
(* Theorems *)

\* The store starts as instantiation left it, with a fresh cache.
LEMMA Initially == Init => StoreInv /\ Asked = Wasm!None
  <1> SUFFICES ASSUME Init PROVE StoreInv /\ Asked = Wasm!None OBVIOUS
  <1>1. Contents
    <2>1. /\ mem = Initial.mem /\ tab = Initial.tab /\ data = Initial.data
          /\ elem = Initial.elem /\ glob = Initial.glob
      BY DEF Init
    <2> QED BY <2>1, StoreAssumption DEF Contents
  <1>2. Translated BY DEF Init, Translated
  <1>3. CacheFresh BY DEF Init, CacheFresh
  <1>4. /\ buf \in [DOMAIN Initial.mem -> Nat] /\ fuel \in Nat \cup {Disabled} /\ rounds \in Nat
        /\ limiter \in Limiters
    BY StoreAssumption DEF Init
  <1>5. Asked = Wasm!None BY SameTerms DEF Init, Asked
  <1> QED BY <1>1, <1>2, <1>3, <1>4, <1>5 DEF StoreInv

\* The limiter is the embedder's: no step changes it.
LEMMA LimiterKept == ASSUME [Next]_vars PROVE limiter' = limiter
  <1>1. ASSUME NEW r, Return(r) PROVE limiter' = limiter BY <1>1 DEF Return, Finish
  <1>2. ASSUME NEW m, NEW ok, NEW len, NEW bytes, WriteMemory(m, ok, len, bytes)
        PROVE  limiter' = limiter
    BY <1>2 DEF WriteMemory, Return, Finish
  <1>3. ASSUME NEW t, NEW ok, NEW len, NEW items, WriteTable(t, ok, len, items)
        PROVE  limiter' = limiter
    BY <1>3 DEF WriteTable, Return, Finish
  <1>4. CASE UNCHANGED vars \/ Done BY <1>4 DEF vars, Done
  <1>5. CASE visit BY <1>5 DEF visit
  <1>6. CASE execute_memory_size BY <1>6 DEF execute_memory_size, Return, Finish
  <1>7. CASE execute_memory_grow BY <1>7 DEF execute_memory_grow, Return, Finish
  <1>8. CASE execute_memory_copy BY <1>1, <1>2, <1>8 DEF execute_memory_copy
  <1>9. CASE execute_memory_fill BY <1>2, <1>9 DEF execute_memory_fill
  <1>10. CASE execute_memory_init BY <1>2, <1>10 DEF execute_memory_init
  <1>11. CASE execute_data_drop BY <1>11 DEF execute_data_drop, Finish
  <1>12. CASE execute_load8 BY <1>12 DEF execute_load8, Return, Finish
  <1>13. CASE execute_table_size BY <1>13 DEF execute_table_size, Return, Finish
  <1>14. CASE execute_table_get BY <1>14 DEF execute_table_get, Return, Finish
  <1>15. CASE execute_table_set BY <1>15 DEF execute_table_set, Return, Finish
  <1>16. CASE execute_table_copy BY <1>1, <1>3, <1>16 DEF execute_table_copy
  <1>17. CASE execute_table_init BY <1>3, <1>17 DEF execute_table_init
  <1>18. CASE execute_table_fill BY <1>3, <1>18 DEF execute_table_fill
  <1>19. CASE execute_table_grow BY <1>19 DEF execute_table_grow, Return, Finish
  <1>20. CASE execute_element_drop BY <1>20 DEF execute_element_drop, Finish
  <1>21. CASE execute_global_get BY <1>21 DEF execute_global_get, Return, Finish
  <1>22. CASE execute_global_set BY <1>22 DEF execute_global_set, Finish
  <1>23. CASE execute_ref_func BY <1>23 DEF execute_ref_func, Return, Finish
  <1>24. CASE forward_global BY <1>24 DEF forward_global, Return, Finish
  <1> QED
    BY <1>4, <1>5, <1>6, <1>7, <1>8, <1>9, <1>10, <1>11, <1>12, <1>13, <1>14, <1>15, <1>16,
       <1>17, <1>18, <1>19, <1>20, <1>21, <1>22, <1>23, <1>24 DEF Next

\* Every step keeps the invariant and, unless an entity has two indices, is one
\* that Wasm allows.
LEMMA EveryStep ==
    ASSUME StoreInv, [Next]_vars PROVE StoreInv' /\ (NoAlias => [Wasm!Next]_(Wasm!vars))
  <1> SUFFICES StoreInv' /\ (NoAlias => Wasm!Operation \/ UNCHANGED Wasm!vars)
    BY LimiterKept DEF Wasm!Next
  <1>1. CASE UNCHANGED vars BY <1>1, Stutter
  <1>2. CASE visit BY <1>2, VisitStep
  <1>3. CASE execute_memory_size BY <1>3, MemorySizeStep
  <1>4. CASE execute_memory_grow BY <1>4, MemoryGrowStep
  <1>5. CASE execute_memory_copy BY <1>5, MemoryCopyStep
  <1>6. CASE execute_memory_fill BY <1>6, MemoryFillStep
  <1>7. CASE execute_memory_init BY <1>7, MemoryInitStep
  <1>8. CASE execute_data_drop BY <1>8, DataDropStep
  <1>9. CASE execute_load8 BY <1>9, LoadStep
  <1>10. CASE execute_table_size BY <1>10, TableSizeStep
  <1>11. CASE execute_table_get BY <1>11, TableGetStep
  <1>12. CASE execute_table_set BY <1>12, TableSetStep
  <1>13. CASE execute_table_copy BY <1>13, TableCopyStep
  <1>14. CASE execute_table_init BY <1>14, TableInitStep
  <1>15. CASE execute_table_fill BY <1>15, TableFillStep
  <1>16. CASE execute_table_grow BY <1>16, TableGrowStep
  <1>17. CASE execute_element_drop BY <1>17, ElemDropStep
  <1>18. CASE execute_global_get BY <1>18, GlobalGetStep
  <1>19. CASE execute_global_set BY <1>19, GlobalSetStep
  <1>20. CASE forward_global BY <1>20, ForwardStep
  <1>21. CASE Done BY <1>21, Stutter DEF Done
  <1>22. CASE execute_ref_func BY <1>22, RefFuncStep
  <1> QED BY <1>1, <1>2, <1>3, <1>4, <1>5, <1>6, <1>7, <1>8, <1>9, <1>10, <1>11, <1>12, <1>13, <1>14, <1>15, <1>16, <1>17, <1>18, <1>19, <1>20, <1>21, <1>22 DEF Next

\* The contents, the words of the operator under way and the cache stay right, for
\* every module, every limiter, every fuel and any number of operators.
THEOREM Invariance == Spec => []StoreInv
  <1>1. StoreInv /\ [Next]_vars => StoreInv' BY EveryStep
  <1> QED BY <1>1, Initially, PTL DEF Spec

\* The cached pointers to memory 0 and global 0 are never stale: whatever grows, and
\* however often.
THEOREM FreshCache == Spec => []CacheFresh
  <1>1. StoreInv => CacheFresh BY DEF StoreInv
  <1> QED BY <1>1, Invariance, PTL

\* Unless one entity has two indices, each operator with each mix of immediates and
\* registers does what Wasm says, as a whole or not at all: a global is read and
\* written in the cell its index names, whichever way leads there, nothing grows
\* beyond its maximum or the limiter's, and no growth is refused that has room and
\* fuel.
THEOREM Refinement == NoAlias => (Spec => Refines)
  <1> SUFFICES ASSUME NoAlias PROVE Spec => Refines OBVIOUS
  <1>1. StoreInv /\ [Next]_vars => [Wasm!Next]_(Wasm!vars) BY EveryStep
  <1>2. Init => Asked = Wasm!None BY Initially
  <1> QED BY <1>1, <1>2, Invariance, PTL DEF Spec, Refines, Wasm!Spec
=============================================================================

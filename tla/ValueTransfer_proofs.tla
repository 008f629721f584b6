------------------------ MODULE ValueTransfer_proofs ------------------------
(***************************************************************************)
(* Proofs about ValueTransfer, for every number of values, every register  *)
(* they come from, every label and every constant.                         *)
(***************************************************************************)
EXTENDS ValueTransfer, SequenceTheorems, WellFoundedInduction, TLAPS

-----------------------------------------------------------------------------
(* Induction: about sets, which the provers can instantiate.               *)

\* A set of naturals that is not empty has a least element.
LEMMA LeastNat ==
    ASSUME NEW T, T \subseteq Nat, T # {}
    PROVE  \E x \in T : \A y \in T : x <= y
  <1> DEFINE R == {ss \in Nat \X Nat : ss[1] < ss[2]}
  <1>1. IsWellFoundedOn(R, Nat) BY NatLessThanWellFounded DEF OpToRel
  <1>2. \A x, y \in Nat : <<y, x>> \in R <=> y < x OBVIOUS
  <1> HIDE DEF R
  <1>3. PICK x \in T : \A y \in T : ~ (<<y, x>> \in R) BY <1>1, WFMin
  <1>4. ASSUME NEW y \in T PROVE x <= y
    <2>1. x \in Nat /\ y \in Nat OBVIOUS
    <2>2. ~ (y < x) BY <1>2, <1>3, <2>1
    <2> QED BY <2>1, <2>2
  <1> QED BY <1>4

\* A set that holds 0 and with each number up to m the next one holds all of them.
LEMMA UpTo ==
    ASSUME NEW T, NEW m \in Nat, 0 \in T, \A n \in 0 .. m - 1 : n \in T => n + 1 \in T
    PROVE  \A n \in 0 .. m : n \in T
  <1> SUFFICES ASSUME NEW n \in 0 .. m, n \notin T PROVE FALSE
    OBVIOUS
  <1>1. PICK D : D = {k \in 0 .. m : k \notin T} OBVIOUS
  <1>2. D \subseteq Nat /\ D # {} BY <1>1
  <1>3. PICK x \in D : \A y \in D : x <= y BY <1>2, LeastNat
  <1>4. x \in 0 .. m /\ x \notin T /\ x # 0 BY <1>1, <1>3
  <1>5. x - 1 \in 0 .. m - 1 BY <1>4
  <1>6. x - 1 \in T
    <2> SUFFICES ASSUME x - 1 \notin T PROVE FALSE OBVIOUS
    <2>1. x - 1 \in D BY <1>1, <1>5
    <2> QED BY <1>3, <1>4, <2>1
  <1>7. (x - 1) + 1 \in T BY <1>5, <1>6
  <1> QED BY <1>4, <1>7

\* A set of numbers up to m that is not empty has a greatest element.
LEMMA GreatestUpTo ==
    ASSUME NEW m \in Nat, NEW S, S \subseteq 0 .. m, S # {}
    PROVE  Max(S) \in S /\ \A y \in S : y <= Max(S)
  <1>1. PICK T : T = {m - s : s \in S} OBVIOUS
  <1>2. T \subseteq Nat /\ T # {}
    <2>1. \A s \in S : s \in 0 .. m /\ m - s \in Nat OBVIOUS
    <2> QED BY <1>1, <2>1
  <1>3. PICK x \in T : \A y \in T : x <= y BY <1>2, LeastNat
  <1>4. PICK s \in S : x = m - s BY <1>1
  <1>5. \A y \in S : s >= y
    <2> TAKE y \in S
    <2>1. m - y \in T /\ m - s <= m - y BY <1>1, <1>3, <1>4
    <2>2. s \in Int /\ y \in Int OBVIOUS
    <2> QED BY <2>1, <2>2
  <1>6. \E z \in S : \A y \in S : z >= y BY <1>5
  <1>7. Max(S) \in S /\ \A y \in S : Max(S) >= y
    <2>1. PICK z : z \in S /\ \A y \in S : z >= y BY <1>6
    <2> QED BY <2>1, Zenon DEF Max
  <1>8. PICK z \in 0 .. m : z = Max(S) BY <1>7
  <1>9. \A y \in S : y \in 0 .. m /\ z >= y BY <1>7, <1>8
  <1>10. \A y \in S : y <= z BY <1>9
  <1> QED BY <1>7, <1>8, <1>10

-----------------------------------------------------------------------------
(* Copies one after the other, and at once.                                *)

\* What an instruction word names: a register of the frame or one of a constant.
Cells == [k : {"reg"}, r : 0 .. NRegs - 1] \cup [k : {"const_reg"}, v : Nat]
Frames == [0 .. NRegs - 1 -> Nat]
Val(rs, p) == IF IsReg(p) THEN rs[p.r] ELSE p.v

\* All values are read before the first is written.
AtOnce(rs, head, ps) ==
    [r \in 0 .. NRegs - 1 |-> IF r \in head .. head + Len(ps) - 1 THEN Val(rs, ps[r - head + 1]) ELSE rs[r]]

\* Functions with the same values are the same.
LEMMA SameFunction ==
    ASSUME NEW S, NEW T, NEW f \in [S -> T], NEW h \in [S -> T], \A x \in S : f[x] = h[x]
    PROVE  f = h
  OBVIOUS

\* Frames with the same registers are the same.
LEMMA SameFrame ==
    ASSUME NEW f \in Frames, NEW h \in Frames, \A r \in 0 .. NRegs - 1 : f[r] = h[r]
    PROVE  f = h
  <1>1. PICK S : S = 0 .. NRegs - 1 OBVIOUS
  <1>2. f \in [S -> Nat] /\ h \in [S -> Nat] /\ \A r \in S : f[r] = h[r] BY <1>1 DEF Frames
  <1> QED BY <1>2, SameFunction

\* A cell has a value.
LEMMA CellValue == ASSUME NEW rs \in Frames, NEW p \in Cells PROVE Val(rs, p) \in Nat
  BY DEF Cells, Frames, Val, IsReg

\* The registers after values were moved at once.
LEMMA AtOnceTyped ==
    ASSUME NEW rs \in Frames, NEW head \in Nat, NEW ps \in Seq(Cells), head + Len(ps) <= NRegs
    PROVE  AtOnce(rs, head, ps) \in Frames
  <1> SUFFICES ASSUME NEW r \in 0 .. NRegs - 1
               PROVE  (IF r \in head .. head + Len(ps) - 1 THEN Val(rs, ps[r - head + 1]) ELSE rs[r]) \in Nat
    BY DEF AtOnce, Frames
  <1>1. NRegs \in Nat BY TransferAssumption
  <1>2. CASE r \in head .. head + Len(ps) - 1
    <2>1. r - head + 1 \in 1 .. Len(ps) BY <1>1, <1>2
    <2>2. ps[r - head + 1] \in Cells BY <2>1
    <2> QED BY <1>2, <2>2, CellValue
  <1>3. CASE r \notin head .. head + Len(ps) - 1 BY <1>3 DEF Frames
  <1> QED BY <1>2, <1>3

\* With a buffer all values are read first.
LEMMA BufferedIs ==
    ASSUME regs \in Frames, NEW head \in Nat, NEW ps \in Seq(Cells)
    PROVE  Buffered(head, ps) = AtOnce(regs, head, ps)
  <1>1. NRegs \in Nat /\ DOMAIN regs = 0 .. NRegs - 1 BY TransferAssumption DEF Frames
  <1>2. ASSUME NEW r \in 0 .. NRegs - 1, r \in head .. head + Len(ps) - 1
        PROVE  Values(ps)[r - head + 1] = Val(regs, ps[r - head + 1])
    <2>1. r - head + 1 \in DOMAIN ps BY <1>1, <1>2
    <2> QED BY <2>1 DEF Values, get_register, Val
  <1> QED BY <1>1, <1>2 DEF Buffered, AtOnce

\* If no value is read after a copy before it has overwritten it, copying one
\* after the other is copying at once.
LEMMA OneByOneIs ==
    ASSUME regs \in Frames, NEW head \in Nat, NEW ps \in Seq(Cells), head + Len(ps) <= NRegs,
           \A i \in 1 .. Len(ps) : IsReg(ps[i]) => ~(head <= ps[i].r /\ ps[i].r < head + i - 1)
    PROVE  OneByOne(head, ps) = AtOnce(regs, head, ps)
  <1> DEFINE After(f, n) == [f[n - 1] EXCEPT ![head + n - 1] =
                                IF IsReg(ps[n]) THEN f[n - 1][ps[n].r] ELSE ps[n].v]
             Eqn(f) == f = [n \in 0 .. Len(ps) |-> IF n = 0 THEN regs ELSE After(f, n)]
             g == [n \in 0 .. Len(ps) |->
                     [r \in 0 .. NRegs - 1 |-> IF r \in head .. head + n - 1
                                               THEN Val(regs, ps[r - head + 1]) ELSE regs[r]]]
             ff == CHOOSE f : Eqn(f)
  <1>0. NRegs \in Nat /\ Len(ps) \in Nat BY TransferAssumption
  <1>t. ASSUME NEW n \in 0 .. Len(ps) PROVE g[n] \in Frames
    <2> SUFFICES ASSUME NEW r \in 0 .. NRegs - 1
                 PROVE  (IF r \in head .. head + n - 1 THEN Val(regs, ps[r - head + 1]) ELSE regs[r]) \in Nat
      BY DEF Frames
    <2>1. CASE r \in head .. head + n - 1
      <3>1. r - head + 1 \in 1 .. Len(ps) BY <1>0, <2>1
      <3>2. ps[r - head + 1] \in Cells BY <3>1
      <3> QED BY <2>1, <3>2, CellValue
    <2>2. CASE r \notin head .. head + n - 1 BY <2>2 DEF Frames
    <2> QED BY <2>1, <2>2
  <1>1. g[0] = regs BY <1>0 DEF Frames
  <1>2. ASSUME NEW n \in 1 .. Len(ps) PROVE g[n] = After(g, n)
    <2>1. n - 1 \in 0 .. Len(ps) /\ head + n - 1 \in 0 .. NRegs - 1 /\ ps[n] \in Cells BY <1>0
    <2>2. (IF IsReg(ps[n]) THEN g[n - 1][ps[n].r] ELSE ps[n].v) = Val(regs, ps[n])
      <3>1. CASE ~IsReg(ps[n]) BY <3>1 DEF Val
      <3>2. CASE IsReg(ps[n])
        <4>1. ps[n].r \in 0 .. NRegs - 1 BY <2>1, <3>2 DEF Cells, IsReg
        <4>2. ps[n].r \notin head .. head + (n - 1) - 1 BY <1>0, <3>2, <4>1
        <4>3. g[n - 1][ps[n].r] = regs[ps[n].r] BY <2>1, <4>1, <4>2
        <4> QED BY <3>2, <4>3 DEF Val
      <3> QED BY <3>1, <3>2
    <2>3. ASSUME NEW r \in 0 .. NRegs - 1 PROVE g[n][r] = After(g, n)[r]
      <3>1. CASE r = head + n - 1
        <4>1. r - head + 1 = n /\ r \in head .. head + n - 1 BY <1>0, <3>1
        <4>2. g[n][r] = Val(regs, ps[n]) BY <4>1
        <4>3. After(g, n)[r] = Val(regs, ps[n]) BY <2>1, <2>2, <3>1
        <4> QED BY <4>2, <4>3
      <3>2. CASE r # head + n - 1
        <4>1. After(g, n)[r] = g[n - 1][r] BY <2>1, <3>2
        <4>2. r \in head .. head + n - 1 <=> r \in head .. head + (n - 1) - 1 BY <1>0, <3>2
        <4> QED BY <2>1, <4>1, <4>2
      <3> QED BY <3>1, <3>2
    <2>4. g[n] \in Frames /\ g[n - 1] \in Frames
      <3>1. n \in 0 .. Len(ps) BY <1>0
      <3> QED BY <1>t, <2>1, <3>1
    <2>5. After(g, n) \in Frames
      <3>1. Val(regs, ps[n]) \in Nat BY <2>1, CellValue
      <3> HIDE DEF g
      <3> QED BY <2>1, <2>2, <2>4, <3>1 DEF Frames
    <2> HIDE DEF g, After
    <2> QED BY <2>3, <2>4, <2>5, SameFrame
  <1>3. Eqn(g)
    <2>1. PICK h : h = g OBVIOUS
    <2>2. h = [n \in 0 .. Len(ps) |-> h[n]] BY <2>1
    <2> HIDE DEF g, After
    <2>3. ASSUME NEW n \in 0 .. Len(ps) PROVE h[n] = IF n = 0 THEN regs ELSE After(h, n)
      <3>1. CASE n = 0 BY <1>1, <2>1, <3>1
      <3>2. CASE n # 0
        <4>1. n \in 1 .. Len(ps) BY <1>0, <3>2
        <4> QED BY <1>2, <2>1, <3>2, <4>1
      <3> QED BY <3>1, <3>2
    <2>4. Eqn(h) BY <2>2, <2>3
    <2> QED BY <2>1, <2>4
  <1>4. Eqn(ff) BY <1>3, Zenon
  <1>5. OneByOne(head, ps) = ff[Len(ps)] BY DEF OneByOne
  <1> HIDE DEF ff
  <1>6. PICK T : T = {n \in 0 .. Len(ps) : ff[n] = g[n]} OBVIOUS
  <1>7. 0 \in T
    <2>1. 0 \in 0 .. Len(ps) BY <1>0
    <2> HIDE DEF g, After
    <2>2. ff[0] = regs BY <1>4, <2>1
    <2> QED BY <1>1, <1>6, <2>1, <2>2
  <1>8. ASSUME NEW n \in 0 .. Len(ps) - 1, n \in T PROVE n + 1 \in T
    <2>1. n + 1 \in 1 .. Len(ps) /\ n + 1 \in 0 .. Len(ps) /\ n + 1 # 0 /\ (n + 1) - 1 = n BY <1>0
    <2>2. ff[n] = g[n] BY <1>6, <1>8
    <2>3. ff[n + 1] = After(ff, n + 1) BY <1>4, <2>1
    <2>4. g[n + 1] = After(g, n + 1) BY <1>2, <2>1
    <2>5. After(ff, n + 1) = After(g, n + 1) BY <2>1, <2>2
    <2> QED BY <1>6, <2>1, <2>3, <2>4, <2>5
  <1>9. Len(ps) \in T
    <2> HIDE DEF g, After
    <2>1. \A n \in 0 .. Len(ps) : n \in T BY <1>0, <1>7, <1>8, UpTo
    <2> QED BY <1>0, <2>1
  <1> QED BY <1>0, <1>5, <1>6, <1>9 DEF AtOnce

-----------------------------------------------------------------------------
(* Lists of registers.                                                     *)

\* The beginning of a sequence and what follows it up to b.
LEMMA Joined ==
    ASSUME NEW S, NEW s \in Seq(S), NEW a \in 0 .. Len(s), NEW b \in a .. Len(s)
    PROVE  SubSeq(s, 1, a) \o SubSeq(s, a + 1, b) = SubSeq(s, 1, b)
  <1>1. PICK p : p = SubSeq(s, 1, a) OBVIOUS
  <1>2. PICK q : q = SubSeq(s, a + 1, b) OBVIOUS
  <1>3. PICK r : r = SubSeq(s, 1, b) OBVIOUS
  <1>4. p \in Seq(S) /\ Len(p) = a /\ \A i \in 1 .. a : p[i] = s[i] BY <1>1
  <1>5. q \in Seq(S) /\ Len(q) = b - a /\ \A i \in 1 .. b - a : q[i] = s[a + i] BY <1>2
  <1>6. r \in Seq(S) /\ Len(r) = b /\ \A i \in 1 .. b : r[i] = s[i] BY <1>3
  <1>7. p \o q \in Seq(S) /\ Len(p \o q) = b
    <2>1. a + (b - a) = b /\ a \in Nat /\ b - a \in Nat BY LenProperties
    <2> QED BY <1>4, <1>5, <2>1, ConcatProperties
  <1>8. ASSUME NEW i \in 1 .. b PROVE (p \o q)[i] = r[i]
    <2>1. CASE i <= a BY <1>4, <1>5, <1>6, <2>1
    <2>2. CASE ~(i <= a)
      <3>1. i - a \in 1 .. b - a /\ a + (i - a) = i BY <2>2
      <3>2. (p \o q)[i] = q[i - a] BY <1>4, <1>5, <2>2
      <3>3. q[i - a] = s[a + (i - a)] BY <1>5, <3>1
      <3> QED BY <1>6, <3>1, <3>2, <3>3
    <2> QED BY <2>1, <2>2
  <1>9. p \o q = r BY <1>6, <1>7, <1>8, SeqEqual
  <1> QED BY <1>1, <1>2, <1>3, <1>9

\* Threes put together again are the sequence they were taken from.
Three(s, i) == SubSeq(s, 3 * i - 2, IF 3 * i < Len(s) THEN 3 * i ELSE Len(s))
LEMMA FlattenThrees ==
    ASSUME NEW S, NEW s \in Seq(S), Len(s) > 0, NEW n, n = (Len(s) + 2) \div 3
    PROVE  FlattenSeq([i \in 1 .. n |-> Three(s, i)]) = s
  <1> DEFINE seqs == [i \in 1 .. n |-> Three(s, i)]
             Eqn(f) == f = [i \in 1 .. n |-> IF i = 1 THEN seqs[i] ELSE f[i - 1] \o seqs[i]]
             Upper(i) == IF 3 * i < Len(s) THEN 3 * i ELSE Len(s)
             g == [i \in 1 .. n |-> SubSeq(s, 1, Upper(i))]
             ff == CHOOSE f : Eqn(f)
  <1>0. /\ Len(s) \in Nat /\ n \in Nat /\ n >= 1 /\ 3 * n >= Len(s) /\ 3 * (n - 1) < Len(s)
    <2>1. Len(s) \in Nat OBVIOUS
    <2> QED BY <2>1
  <1>1. Len(seqs) = n /\ DOMAIN seqs = 1 .. n
    <2>1. seqs \in Seq({Three(s, i) : i \in 1 .. n}) BY <1>0
    <2> QED BY <1>0, <2>1
  <1>2. g[1] = seqs[1]
    <2>1. 1 \in 1 .. n /\ 3 * 1 - 2 = 1 BY <1>0
    <2> QED BY <2>1 DEF Three
  <1>3. ASSUME NEW i \in 1 .. n, i # 1 PROVE g[i] = g[i - 1] \o seqs[i]
    <2>1. i - 1 \in 1 .. n /\ 3 * (i - 1) < Len(s) /\ 3 * i - 2 = 3 * (i - 1) + 1 BY <1>0, <1>3
    <2>2. 3 * (i - 1) \in 0 .. Len(s) /\ Upper(i) \in 3 * (i - 1) .. Len(s) BY <1>0, <2>1
    <2>3. g[i - 1] = SubSeq(s, 1, 3 * (i - 1)) BY <2>1
    <2>4. seqs[i] = SubSeq(s, 3 * (i - 1) + 1, Upper(i)) BY <2>1 DEF Three
    <2>5. g[i] = SubSeq(s, 1, Upper(i)) OBVIOUS
    <2> HIDE DEF g, seqs, Upper
    <2> QED BY <2>2, <2>3, <2>4, <2>5, Joined
  <1>4. PICK h : h = g OBVIOUS
  <1>5. h = [i \in 1 .. n |-> h[i]] BY <1>4
  <1>6. h[n] = s
    <2>1. n \in 1 .. n /\ Upper(n) = Len(s) BY <1>0
    <2>2. h[n] = SubSeq(s, 1, Len(s)) BY <1>4, <2>1
    <2> QED BY <2>2
  <1> HIDE DEF g, seqs, Upper
  <1>7. \A i \in 1 .. n : h[i] = IF i = 1 THEN seqs[i] ELSE h[i - 1] \o seqs[i] BY <1>2, <1>3, <1>4
  <1>8. Eqn(h) BY <1>5, <1>7
  <1>9. Eqn(ff) BY <1>8, Zenon
  <1>10. FlattenSeq(seqs) = ff[n]
    <2>1. Len(seqs) # 0 BY <1>0, <1>1
    <2> QED BY <1>1, <2>1 DEF FlattenSeq
  <1> HIDE DEF ff
  <1>11. PICK T : T = {m \in 0 .. n - 1 : ff[m + 1] = h[m + 1]} OBVIOUS
  <1>12. 0 \in T BY <1>0, <1>8, <1>9, <1>11
  <1>13. ASSUME NEW m \in 0 .. (n - 1) - 1, m \in T PROVE m + 1 \in T
    <2>1. PICK i \in 1 .. n : i = (m + 1) + 1 /\ i # 1 /\ i - 1 = m + 1 /\ m + 1 \in 0 .. n - 1 BY <1>0
    <2>2. ff[i - 1] = h[i - 1] BY <1>11, <1>13, <2>1
    <2>3. ff[i] = ff[i - 1] \o seqs[i] BY <1>9, <2>1
    <2>4. h[i] = h[i - 1] \o seqs[i] BY <1>7, <2>1
    <2>5. ff[i] = h[i] BY <2>2, <2>3, <2>4
    <2> QED BY <1>11, <2>1, <2>5
  <1>14. n - 1 \in T
    <2>1. n - 1 \in Nat BY <1>0
    <2>2. \A m \in 0 .. n - 1 : m \in T BY <1>12, <1>13, <2>1, UpTo
    <2> QED BY <2>1, <2>2
  <1>15. ff[n] = h[n] BY <1>0, <1>11, <1>14
  <1> QED BY <1>6, <1>10, <1>15 DEF seqs

\* The operands of an instruction word.
LEMMA RegsTyped ==
    ASSUME NEW ps \in Seq(Providers)
    PROVE  /\ Regs(ps) \in Seq(Cells) /\ Len(Regs(ps)) = Len(ps) /\ Len(ps) \in Nat
           /\ \A i \in 1 .. Len(ps) : Regs(ps)[i] = provider2reg(ps[i]) /\ provider2reg(ps[i]) \in Cells
  <1>1. DOMAIN ps = 1 .. Len(ps) /\ Len(ps) \in Nat OBVIOUS
  <1>2. \A i \in 1 .. Len(ps) : ps[i] \in Providers OBVIOUS
  <1>3. \A p \in Providers : provider2reg(p) \in Cells
    BY DEF Providers, Cells, provider2reg, alloc_const, IsReg
  <1>4. Regs(ps) \in [1 .. Len(ps) -> Cells] BY <1>1, <1>2, <1>3 DEF Regs
  <1>5. Regs(ps) \in Seq(Cells) /\ Len(Regs(ps)) = Len(ps) BY <1>1, <1>4
  <1> QED BY <1>1, <1>2, <1>3, <1>5 DEF Regs

ListLen(ps) == (Len(ps) + 2) \div 3
LastWords == {Param("register"), Param("register2"), Param("register3")}

\* The words of a list: threes, and the word that ends it.
LEMMA ListWords ==
    ASSUME NEW ps \in Seq(Providers), Len(ps) > 0
    PROVE  /\ ListLen(ps) \in Nat /\ ListLen(ps) >= 1
           /\ \E W : encode_register_list(ps) \in Seq(W)
           /\ Len(encode_register_list(ps)) = ListLen(ps)
           /\ \A i \in 1 .. ListLen(ps) :
                /\ encode_register_list(ps)[i].regs = Three(Regs(ps), i)
                /\ i < ListLen(ps) => encode_register_list(ps)[i].opcode = Param("register_list")
           /\ encode_register_list(ps)[ListLen(ps)].opcode \in LastWords
  <1> DEFINE n == ListLen(ps)
             Chunk(i) == SubSeq(Regs(ps), 3 * i - 2, IF 3 * i < Len(ps) THEN 3 * i ELSE Len(ps))
             Name(i) == IF i < n THEN "register_list"
                        ELSE CASE Len(Chunk(i)) = 1 -> "register" [] Len(Chunk(i)) = 2 -> "register2"
                               [] Len(Chunk(i)) = 3 -> "register3"
             word(i) == [opcode |-> Param(Name(i)), regs |-> Chunk(i)]
  <1>1. Regs(ps) \in Seq(Cells) /\ Len(Regs(ps)) = Len(ps) /\ Len(ps) \in Nat BY RegsTyped
  <1>2. n \in Nat /\ n >= 1 /\ 3 * n >= Len(ps) /\ 3 * (n - 1) < Len(ps) BY <1>1 DEF ListLen
  <1>3. encode_register_list(ps) = [i \in 1 .. n |-> word(i)]
    BY DEF encode_register_list, ListLen
  <1>4. Name(n) \in {"register", "register2", "register3"}
    <2>1. ~(n < n) /\ 3 * n - 2 \in 1 .. Len(ps) + 1 BY <1>1, <1>2
    <2>2. (IF 3 * n < Len(ps) THEN 3 * n ELSE Len(ps)) = Len(ps) BY <1>1, <1>2
    <2>3. Len(Chunk(n)) = Len(ps) - (3 * n - 2) + 1
      <3>1. PICK a, b : a = 3 * n - 2 /\ b = Len(ps) OBVIOUS
      <3>2. a \in 1 .. b + 1 /\ b \in (a - 1) .. Len(Regs(ps)) BY <1>1, <1>2, <2>1, <3>1
      <3>3. Len(SubSeq(Regs(ps), a, b)) = b - a + 1 BY <1>1, <3>2, SubSeqProperties
      <3>4. Chunk(n) = SubSeq(Regs(ps), a, b) BY <2>2, <3>1
      <3> QED BY <3>1, <3>3, <3>4
    <2>4. Len(Chunk(n)) \in 1 .. 3 BY <1>1, <1>2, <2>3
    <2> HIDE DEF Chunk
    <2> QED BY <2>1, <2>4
  <1>5. \A i \in 1 .. n : Chunk(i) = Three(Regs(ps), i) BY <1>1 DEF Three
  <1> HIDE DEF n, Chunk
  <1> HIDE DEF word
  <1>6. PICK W : W = {word(i) : i \in 1 .. n} OBVIOUS
  <1>7. encode_register_list(ps) \in [1 .. n -> W] BY <1>3, <1>6
  <1>8. encode_register_list(ps) \in Seq(W) /\ Len(encode_register_list(ps)) = n
    <2>1. PICK e : e = encode_register_list(ps) OBVIOUS
    <2>2. e \in [1 .. n -> W] BY <1>7, <2>1
    <2>3. e \in Seq(W) /\ Len(e) = n BY <1>2, <2>2
    <2> QED BY <2>1, <2>3
  <1>9. \A i \in 1 .. n : /\ encode_register_list(ps)[i].regs = Chunk(i)
                          /\ encode_register_list(ps)[i].opcode = Param(Name(i))
    <2>1. \A i \in 1 .. n : encode_register_list(ps)[i] = word(i) BY <1>3
    <2>2. \A i \in 1 .. n : word(i).regs = Chunk(i) /\ word(i).opcode = Param(Name(i))
      <3> HIDE DEF Name
      <3> QED BY DEF word
    <2> HIDE DEF Name
    <2> QED BY <2>1, <2>2
  <1>10. n \in 1 .. n BY <1>2
  <1>11. encode_register_list(ps)[n].opcode \in LastWords
    <2>1. encode_register_list(ps)[n].opcode = Param(Name(n)) BY <1>9, <1>10
    <2> HIDE DEF Name
    <2> QED BY <1>4, <2>1 DEF LastWords
  <1> QED BY <1>2, <1>5, <1>8, <1>9, <1>11 DEF n

\* The list stands at position first.
ListAt(words, first, ps) ==
    /\ first + ListLen(ps) - 1 <= Len(words)
    /\ \A i \in 1 .. ListLen(ps) : words[first + i - 1] = encode_register_list(ps)[i]

\* Where the list ends.
LEMMA ListEnd ==
    ASSUME NEW W, code \in Seq(W), NEW first \in Nat, NEW ps \in Seq(Providers), Len(ps) > 0,
           ListAt(code, first, ps),
           NEW n \in first .. Len(code)
    PROVE  (/\ code[n].opcode # Param("register_list")
            /\ \A m \in first .. n - 1 : code[m].opcode = Param("register_list"))
           <=> n = first + ListLen(ps) - 1
  <1>1. PICK l \in Nat : l = ListLen(ps) /\ l >= 1 BY ListWords
  <1>2. ASSUME NEW m \in first .. first + l - 2 PROVE code[m].opcode = Param("register_list")
    <2>1. m - first + 1 \in 1 .. l /\ m - first + 1 < l /\ first + (m - first + 1) - 1 = m BY <1>1
    <2> QED BY <1>1, <2>1, ListWords DEF ListAt
  <1>3. code[first + l - 1].opcode # Param("register_list")
    <2>1. l \in 1 .. l BY <1>1
    <2>2. code[first + l - 1] = encode_register_list(ps)[l] BY <1>1, <2>1 DEF ListAt
    <2>3. code[first + l - 1].opcode \in LastWords BY <1>1, <2>2, ListWords
    <2> QED BY <2>3 DEF LastWords, Param
  <1>4. CASE n < first + l - 1
    <2>1. n \in first .. first + l - 2 BY <1>1, <1>4
    <2>2. code[n].opcode = Param("register_list") BY <1>2, <2>1
    <2> QED BY <1>1, <1>4, <2>2
  <1>5. CASE n = first + l - 1
    <2>1. \A m \in first .. n - 1 : m \in first .. first + l - 2 BY <1>1, <1>5
    <2> QED BY <1>1, <1>2, <1>3, <1>5, <2>1
  <1>6. CASE n > first + l - 1
    <2>1. first + l - 1 \in first .. n - 1 BY <1>1, <1>6
    <2> QED BY <1>1, <1>3, <1>6, <2>1
  <1>7. n \in Int BY LenProperties
  <1> QED BY <1>1, <1>4, <1>5, <1>6, <1>7

\* The executor skips the list and reads its registers.
LEMMA ListRead ==
    ASSUME NEW W, code \in Seq(W), NEW first \in Nat, first >= 1, NEW ps \in Seq(Providers), Len(ps) > 0,
           ListAt(code, first, ps)
    PROVE  /\ skip_register_list(first) = first + ListLen(ps)
           /\ ListRegs(first) = Regs(ps)
  <1> DEFINE Ends(n) == /\ code[n].opcode # Param("register_list")
                        /\ \A m \in first .. n - 1 : code[m].opcode = Param("register_list")
             end == CHOOSE n \in first .. Len(code) : Ends(n)
  <1>1. PICK l \in Nat : l = ListLen(ps) /\ l >= 1 BY ListWords
  <1>2. \A n \in first .. Len(code) : Ends(n) <=> n = first + l - 1 BY <1>1, ListEnd
  <1>3. first + l - 1 \in first .. Len(code) BY <1>1, LenProperties DEF ListAt
  <1> HIDE DEF Ends
  <1>4. end \in first .. Len(code) /\ Ends(end)
    <2>1. \E n : n \in first .. Len(code) /\ Ends(n) BY <1>2, <1>3
    <2> QED BY <2>1, Zenon
  <1>5. end = first + l - 1 BY <1>2, <1>4
  <1>6. skip_register_list(first) = 1 + end BY DEF skip_register_list, Ends
  <1>7. ListRegs(first) = FlattenSeq([i \in 1 .. end - first + 1 |-> code[first + i - 1].regs])
    BY DEF ListRegs, Ends
  <1> HIDE DEF end
  <1>8. end - first + 1 = l BY <1>1, <1>5
  <1>9. PICK R : R = Regs(ps) OBVIOUS
  <1>10. R \in Seq(Cells) /\ Len(R) = Len(ps) /\ Len(ps) \in Nat BY <1>9, RegsTyped
  <1>11. [i \in 1 .. l |-> code[first + i - 1].regs] = [i \in 1 .. l |-> Three(R, i)]
    <2>1. \A i \in 1 .. l : code[first + i - 1] = encode_register_list(ps)[i] BY <1>1 DEF ListAt
    <2>2. \A i \in 1 .. l : encode_register_list(ps)[i].regs = Three(R, i) BY <1>1, <1>9, ListWords
    <2>3. \A i \in 1 .. l : code[first + i - 1].regs = Three(R, i) BY <2>1, <2>2
    <2> QED BY <2>3
  <1>12. FlattenSeq([i \in 1 .. l |-> Three(R, i)]) = R
    BY <1>1, <1>10, FlattenThrees DEF ListLen
  <1>13. [i \in 1 .. end - first + 1 |-> code[first + i - 1].regs] = [i \in 1 .. l |-> Three(R, i)]
    BY <1>8, <1>11
  <1>14. ListRegs(first) = R BY <1>7, <1>12, <1>13
  <1>15. skip_register_list(first) = first + l BY <1>1, <1>5, <1>6
  <1> QED BY <1>1, <1>9, <1>14, <1>15

-----------------------------------------------------------------------------
(* The encoder: words are added at the end.                                *)

Encoded(c) == \E W : c \in [words : Seq(W), last : Nat]

\* d is c with words added.
Extends(c, d) ==
    /\ Encoded(d) /\ Len(c.words) <= Len(d.words)
    /\ \A i \in 1 .. Len(c.words) : d.words[i] = c.words[i]

\* The words of an encoder are counted.
LEMMA EncodedLen == ASSUME NEW c, Encoded(c) PROVE Len(c.words) \in Nat
  BY DEF Encoded

\* A code extends itself, and what extends an extension extends the code.
LEMMA ExtendsTrans ==
    ASSUME NEW c, NEW d, NEW e, Encoded(c), Extends(c, d), Extends(d, e)
    PROVE  Extends(c, e)
  <1>1. Len(c.words) \in Nat /\ Len(d.words) \in Nat /\ Len(e.words) \in Nat
    BY EncodedLen DEF Extends
  <1>2. \A i \in 1 .. Len(c.words) : i \in 1 .. Len(d.words) BY <1>1 DEF Extends
  <1> QED BY <1>1, <1>2 DEF Extends

\* Both fields of an encoder are replaced.
LEMMA Replaced ==
    ASSUME NEW s, NEW l, NEW t, NEW m
    PROVE  /\ [[words |-> s, last |-> l] EXCEPT !.words = t, !.last = m] = [words |-> t, last |-> m]
           /\ [[words |-> s, last |-> l] EXCEPT !.words = t] = [words |-> t, last |-> l]
  <1>1. PICK r : r = [[words |-> s, last |-> l] EXCEPT !.words = t, !.last = m] OBVIOUS
  <1>2. PICK q : q = [[words |-> s, last |-> l] EXCEPT !.words = t] OBVIOUS
  <1>3. DOMAIN r = {"words", "last"} /\ r.words = t /\ r.last = m /\ r = [f \in {"words", "last"} |-> r[f]]
    BY <1>1
  <1>4. DOMAIN q = {"words", "last"} /\ q.words = t /\ q.last = l /\ q = [f \in {"words", "last"} |-> q[f]]
    BY <1>2
  <1>5. r = [words |-> t, last |-> m] BY <1>3
  <1>6. q = [words |-> t, last |-> l] BY <1>4
  <1> QED BY <1>1, <1>2, <1>5, <1>6

\* An instruction is pushed.
LEMMA Pushed ==
    ASSUME NEW c, Encoded(c), NEW x
    PROVE  /\ Extends(c, push_instr(c, x))
           /\ Len(push_instr(c, x).words) = Len(c.words) + 1
           /\ push_instr(c, x).words[Len(c.words) + 1] = x
           /\ push_instr(c, x).last = Len(c.words) + 1
           /\ push_instr(c, x) = [words |-> Append(c.words, x), last |-> Len(c.words) + 1]
  <1>1. PICK W : c \in [words : Seq(W), last : Nat] BY DEF Encoded
  <1>2. PICK s : s = c.words OBVIOUS
  <1>3. s \in Seq(W) /\ Len(s) \in Nat BY <1>1, <1>2
  <1>4. push_instr(c, x) = [words |-> Append(s, x), last |-> Len(s) + 1]
    <2>1. PICK l : c = [words |-> s, last |-> l] BY <1>1, <1>2
    <2>2. c.words = s BY <2>1
    <2>3. push_instr(c, x) = [c EXCEPT !.words = Append(s, x), !.last = Len(s) + 1] BY <2>2 DEF push_instr
    <2>4. PICK t, m : t = Append(s, x) /\ m = Len(s) + 1 OBVIOUS
    <2>5. push_instr(c, x) = [c EXCEPT !.words = t, !.last = m] BY <2>3, <2>4
    <2>6. push_instr(c, x) = [words |-> t, last |-> m] BY <2>1, <2>5, Replaced
    <2> QED BY <2>4, <2>6
  <1>5. PICK t : t = Append(s, x) OBVIOUS
  <1>6. PICK V : V = W \cup {x} OBVIOUS
  <1>7. s \in Seq(V) /\ x \in V BY <1>3, <1>6
  <1>8. t \in Seq(V) /\ Len(t) = Len(s) + 1 /\ t[Len(s) + 1] = x /\ \A i \in 1 .. Len(s) : t[i] = s[i]
    BY <1>5, <1>7
  <1>9. push_instr(c, x) = [words |-> t, last |-> Len(s) + 1] BY <1>4, <1>5
  <1>10. Encoded(push_instr(c, x))
    <2>1. push_instr(c, x) \in [words : Seq(V), last : Nat] BY <1>3, <1>8, <1>9
    <2> QED BY <2>1, Zenon DEF Encoded
  <1> QED BY <1>2, <1>3, <1>4, <1>8, <1>9, <1>10 DEF Extends

\* Parameter words are appended.
LEMMA Appended ==
    ASSUME NEW c, Encoded(c), NEW V, NEW ws \in Seq(V)
    PROVE  /\ Extends(c, append_instrs(c, ws))
           /\ Len(append_instrs(c, ws).words) = Len(c.words) + Len(ws)
           /\ \A i \in 1 .. Len(ws) : append_instrs(c, ws).words[Len(c.words) + i] = ws[i]
           /\ append_instrs(c, ws).last = c.last
  <1>1. PICK W : c \in [words : Seq(W), last : Nat] BY DEF Encoded
  <1>2. PICK s : s = c.words OBVIOUS
  <1>3. s \in Seq(W) /\ Len(s) \in Nat /\ Len(ws) \in Nat BY <1>1, <1>2
  <1>4. append_instrs(c, ws) = [words |-> s \o ws, last |-> c.last]
    <2>1. PICK l : c = [words |-> s, last |-> l] BY <1>1, <1>2
    <2>2. c.words = s /\ c.last = l BY <2>1
    <2>3. append_instrs(c, ws) = [c EXCEPT !.words = s \o ws] BY <2>2 DEF append_instrs
    <2>4. PICK t : t = s \o ws OBVIOUS
    <2>5. append_instrs(c, ws) = [c EXCEPT !.words = t] BY <2>3, <2>4
    <2>6. append_instrs(c, ws) = [words |-> t, last |-> l] BY <2>1, <2>5, Replaced
    <2> QED BY <2>2, <2>4, <2>6
  <1>5. PICK t : t = s \o ws OBVIOUS
  <1>6. PICK X : X = W \cup V OBVIOUS
  <1>7. s \in Seq(X) /\ ws \in Seq(X) BY <1>3, <1>6
  <1>8. /\ t \in Seq(X) /\ Len(t) = Len(s) + Len(ws)
        /\ \A i \in 1 .. Len(s) + Len(ws) : t[i] = IF i <= Len(s) THEN s[i] ELSE ws[i - Len(s)]
    BY <1>5, <1>7, ConcatProperties
  <1>9. \A i \in 1 .. Len(s) : t[i] = s[i]
    <2> TAKE i \in 1 .. Len(s)
    <2>1. i \in 1 .. Len(s) + Len(ws) /\ i <= Len(s) BY <1>3
    <2> QED BY <1>8, <2>1
  <1>10. \A i \in 1 .. Len(ws) : t[Len(s) + i] = ws[i]
    <2> TAKE i \in 1 .. Len(ws)
    <2>1. PICK j \in 1 .. Len(s) + Len(ws) : j = Len(s) + i /\ ~(j <= Len(s)) /\ j - Len(s) = i BY <1>3
    <2> QED BY <1>8, <2>1
  <1>11. append_instrs(c, ws) = [words |-> t, last |-> c.last] BY <1>4, <1>5
  <1>12. Encoded(append_instrs(c, ws))
    <2>1. append_instrs(c, ws) \in [words : Seq(X), last : Nat] BY <1>1, <1>8, <1>11
    <2> QED BY <2>1, Zenon DEF Encoded
  <1> QED BY <1>2, <1>3, <1>8, <1>9, <1>10, <1>11, <1>12 DEF Extends

\* A list is appended.
LEMMA AppendedList ==
    ASSUME NEW c, Encoded(c), NEW ps \in Seq(Providers), Len(ps) > 0
    PROVE  /\ Extends(c, append_instrs(c, encode_register_list(ps)))
           /\ Len(append_instrs(c, encode_register_list(ps)).words) = Len(c.words) + ListLen(ps)
           /\ ListAt(append_instrs(c, encode_register_list(ps)).words, Len(c.words) + 1, ps)
  <1>1. PICK e : e = encode_register_list(ps) OBVIOUS
  <1>2. PICK W, l : e \in Seq(W) /\ Len(e) = l /\ l = ListLen(ps) /\ l \in Nat BY <1>1, ListWords
  <1>3. PICK d : d = append_instrs(c, e) OBVIOUS
  <1>4. Len(c.words) \in Nat BY EncodedLen
  <1>5. Extends(c, d) /\ Len(d.words) = Len(c.words) + l /\ \A i \in 1 .. l : d.words[Len(c.words) + i] = e[i]
    <2>0. e \in Seq(W) BY <1>2
    <2>1. /\ Extends(c, append_instrs(c, e))
          /\ Len(append_instrs(c, e).words) = Len(c.words) + Len(e)
          /\ \A i \in 1 .. Len(e) : append_instrs(c, e).words[Len(c.words) + i] = e[i]
      BY <2>0, Appended
    <2> QED BY <1>2, <1>3, <2>1
  <1>6. \A i \in 1 .. l : Len(c.words) + 1 + i - 1 = Len(c.words) + i BY <1>2, <1>4
  <1>7. Len(c.words) + 1 + l - 1 <= Len(d.words) BY <1>2, <1>4, <1>5
  <1>8. ListAt(d.words, Len(c.words) + 1, ps) BY <1>1, <1>2, <1>5, <1>6, <1>7 DEF ListAt
  <1> QED BY <1>1, <1>2, <1>3, <1>5, <1>8

\* A list stays where it is when words are added.
LEMMA ListStays ==
    ASSUME NEW c, NEW d, Encoded(c), Extends(c, d), NEW first \in Nat, first >= 1,
           NEW ps \in Seq(Providers), Len(ps) > 0, ListAt(c.words, first, ps)
    PROVE  ListAt(d.words, first, ps)
  <1>1. PICK l \in Nat : l = ListLen(ps) BY ListWords
  <1>2. Len(c.words) \in Nat /\ Len(d.words) \in Nat BY EncodedLen DEF Extends
  <1>3. \A i \in 1 .. l : first + i - 1 \in 1 .. Len(c.words) BY <1>1, <1>2 DEF ListAt
  <1>4. first + l - 1 <= Len(d.words) BY <1>1, <1>2 DEF ListAt, Extends
  <1> QED BY <1>1, <1>3, <1>4 DEF ListAt, Extends

-----------------------------------------------------------------------------
(* What the encoder puts at a position: a copy of cells to the registers   *)
(* from head on, in words p .. q - 1.                                      *)

NoClash(head, cells) ==
    \A i \in 1 .. Len(cells) : IsReg(cells[i]) => ~(head <= cells[i].r /\ cells[i].r < head + i - 1)
Forms32 == {"imm32", "i64imm32", "f64imm32"}

OneWordCopy(w, head, cells) ==
    \/ w.opcode = <<"copy", "reg">> /\ Len(cells) = 1 /\ w.values = cells
    \/ w.opcode = <<"copy", "2">> /\ Len(cells) = 2 /\ w.values = cells
    \/ \E form \in Forms32 : /\ w.opcode = <<"copy", form>>
                             /\ cells = <<[k |-> "const_reg", v |-> Decode32(form, w.imm)]>>
    \/ w.opcode = <<"copy", "span">> /\ w.values = cells
    \/ w.opcode = <<"copy", "span_non_overlapping">> /\ w.values = cells /\ NoClash(head, cells)
ListCopy(words, p, q, head, cells) ==
    /\ \/ words[p].opcode = <<"copy", "many">>
       \/ words[p].opcode = <<"copy", "many_non_overlapping">> /\ NoClash(head, cells)
    /\ \E ps \in Seq(Providers) :
          /\ Len(ps) > 0 /\ ListAt(words, p + 1, ps) /\ q = p + 1 + ListLen(ps)
          /\ cells = words[p].values \o Regs(ps)
CopyAt(words, p, q, head, cells) ==
    /\ p \in 1 .. Len(words) /\ words[p].result = head
    /\ head \in Nat /\ cells \in Seq(Cells) /\ head + Len(cells) <= NRegs
    /\ \/ OneWordCopy(words[p], head, cells) /\ q = p + 1
       \/ ListCopy(words, p, q, head, cells)

\* A constant that fits the immediate is decoded to itself.
LEMMA Decoded ==
    ASSUME NEW p \in Providers, ~IsReg(p), Fits32(p)
    PROVE  Decode32(Form32(p), Encode32(p)) = p.v /\ Form32(p) \in Forms32
  <1>1. p.ty \in {"i32", "i64", "f32", "f64", "ref"} BY DEF Providers, IsReg
  <1>2. CASE p.ty = "i64" BY <1>2 DEF Fits32, Form32, Encode32, Decode32, Forms32
  <1>3. CASE p.ty = "f64"
    <2>1. p.v \in Range(Promote) BY <1>3 DEF Fits32
    <2>2. PICK u \in DOMAIN Promote : Promote[u] = p.v BY <2>1 DEF Range
    <2>3. PICK x : x = CHOOSE y \in DOMAIN Promote : Promote[y] = p.v OBVIOUS
    <2>4. Promote[x] = p.v BY <2>2, <2>3
    <2>5. Form32(p) = "f64imm32" /\ Encode32(p) = x BY <1>3, <2>3 DEF Form32, Encode32
    <2> QED BY <2>4, <2>5 DEF Decode32, Forms32
  <1>4. CASE p.ty \notin {"i64", "f64"} BY <1>4 DEF Form32, Encode32, Decode32, Forms32
  <1> QED BY <1>1, <1>2, <1>3, <1>4

\* One operand as a cell.
LEMMA CellOf ==
    ASSUME NEW p \in Providers
    PROVE  /\ provider2reg(p) \in Cells /\ <<provider2reg(p)>> \in Seq(Cells)
           /\ Len(<<provider2reg(p)>>) = 1 /\ <<provider2reg(p)>>[1] = provider2reg(p)
           /\ IsReg(p) => provider2reg(p) = p
           /\ ~IsReg(p) => provider2reg(p) = [k |-> "const_reg", v |-> p.v]
  <1>1. provider2reg(p) \in Cells BY DEF Providers, Cells, provider2reg, alloc_const, IsReg
  <1> QED BY <1>1 DEF provider2reg, alloc_const

\* A copy stays where it is when words are added.
LEMMA CopyStays ==
    ASSUME NEW c, NEW d, Encoded(c), Extends(c, d), NEW p, NEW q, NEW head, NEW cells,
           CopyAt(c.words, p, q, head, cells)
    PROVE  CopyAt(d.words, p, q, head, cells)
  <1>1. Len(c.words) \in Nat /\ Len(d.words) \in Nat BY EncodedLen DEF Extends
  <1>2. p \in 1 .. Len(c.words) /\ p \in 1 .. Len(d.words) /\ d.words[p] = c.words[p]
    BY <1>1 DEF CopyAt, Extends
  <1>3. CASE OneWordCopy(c.words[p], head, cells) /\ q = p + 1 BY <1>2, <1>3 DEF CopyAt
  <1>4. CASE ListCopy(c.words, p, q, head, cells)
    <2>1. PICK ps \in Seq(Providers) :
            /\ Len(ps) > 0 /\ ListAt(c.words, p + 1, ps) /\ q = p + 1 + ListLen(ps)
            /\ cells = c.words[p].values \o Regs(ps)
      BY <1>4 DEF ListCopy
    <2>2. p + 1 \in Nat /\ p + 1 >= 1 BY <1>1, <1>2
    <2>3. ListAt(d.words, p + 1, ps) BY <2>1, <2>2, ListStays
    <2>4. cells = d.words[p].values \o Regs(ps) BY <1>2, <2>1
    <2>5. ListCopy(d.words, p, q, head, cells) BY <1>2, <1>4, <2>1, <2>3, <2>4 DEF ListCopy
    <2> QED BY <1>2, <2>5 DEF CopyAt
  <1> QED BY <1>3, <1>4 DEF CopyAt

\* A pushed copy of one word.
LEMMA PushedCopy ==
    ASSUME NEW c, Encoded(c), NEW w, NEW head \in Nat, NEW cells \in Seq(Cells), head + Len(cells) <= NRegs,
           w.result = head, OneWordCopy(w, head, cells)
    PROVE  /\ Extends(c, push_instr(c, w)) /\ Len(push_instr(c, w).words) = Len(c.words) + 1
           /\ CopyAt(push_instr(c, w).words, Len(c.words) + 1, Len(c.words) + 2, head, cells)
  <1>1. PICK d : d = push_instr(c, w) OBVIOUS
  <1>2. Extends(c, d) /\ Len(d.words) = Len(c.words) + 1 /\ d.words[Len(c.words) + 1] = w BY <1>1, Pushed
  <1>3. PICK n \in Nat : n = Len(c.words) BY EncodedLen
  <1>4. n + 1 \in 1 .. Len(d.words) /\ n + 2 = (n + 1) + 1 BY <1>2, <1>3
  <1>5. CopyAt(d.words, n + 1, n + 2, head, cells) BY <1>2, <1>3, <1>4 DEF CopyAt
  <1> QED BY <1>1, <1>2, <1>3, <1>5

\* A copy of one value that is not merged with the copy before it.
NotMerged(c) == c.last = 0 \/ c.words[c.last].opcode # <<"copy", "reg">>
Unchanged(c, d, result, p) == d = c /\ p = Reg(result)
Copied1(c, d, result, p) ==
    /\ Extends(c, d) /\ Len(d.words) = Len(c.words) + 1 /\ d.last = Len(c.words) + 1
    /\ CopyAt(d.words, Len(c.words) + 1, Len(c.words) + 2, result, <<provider2reg(p)>>)
LEMMA EncodeCopy ==
    ASSUME NEW c, Encoded(c), NEW result \in 0 .. NRegs - 1, NEW p \in Providers,
           merge_copy_instrs(c, result, p) = {}
    PROVE  \/ Unchanged(c, encode_copy(c, result, p), result, p)
           \/ Copied1(c, encode_copy(c, result, p), result, p)
  <1>1. CASE p = Reg(result) BY <1>1 DEF encode_copy, Unchanged
  <1>2. CASE p # Reg(result)
    <2>0. /\ NRegs \in Nat /\ result \in Nat /\ result + 1 <= NRegs BY TransferAssumption
    <2>1. PICK cells : cells = <<provider2reg(p)>> OBVIOUS
    <2>2. cells \in Seq(Cells) /\ Len(cells) = 1 BY <2>1, CellOf
    <2>3. CASE ~IsReg(p) /\ Fits32(p)
      <3>1. PICK w : w = [opcode |-> <<"copy", Form32(p)>>, result |-> result, imm |-> Encode32(p)]
        OBVIOUS
      <3>2. encode_copy(c, result, p) = push_instr(c, w) BY <1>2, <2>3, <3>1 DEF encode_copy
      <3>3. cells = <<[k |-> "const_reg", v |-> Decode32(Form32(p), w.imm)]>>
        BY <2>1, <2>3, <3>1, CellOf, Decoded
      <3>4. OneWordCopy(w, result, cells) BY <2>3, <3>1, <3>3, Decoded DEF OneWordCopy
      <3>5. w.result = result BY <3>1
      <3>6. result + Len(cells) <= NRegs BY <2>0, <2>2
      <3>7. /\ Extends(c, push_instr(c, w)) /\ Len(push_instr(c, w).words) = Len(c.words) + 1
            /\ CopyAt(push_instr(c, w).words, Len(c.words) + 1, Len(c.words) + 2, result, cells)
        BY <2>0, <2>2, <3>4, <3>5, <3>6, PushedCopy
      <3>8. push_instr(c, w).last = Len(c.words) + 1 BY Pushed
      <3> QED BY <2>1, <3>2, <3>7, <3>8 DEF Copied1
    <2>4. CASE ~(~IsReg(p) /\ Fits32(p))
      <3>1. PICK w : w = Copy("reg", result, cells) OBVIOUS
      <3>2. encode_copy(c, result, p) = push_instr(c, w) BY <1>2, <2>1, <2>4, <3>1 DEF encode_copy
      <3>3. OneWordCopy(w, result, cells) /\ w.result = result BY <2>2, <3>1 DEF OneWordCopy, Copy
      <3>6. result + Len(cells) <= NRegs BY <2>0, <2>2
      <3>7. /\ Extends(c, push_instr(c, w)) /\ Len(push_instr(c, w).words) = Len(c.words) + 1
            /\ CopyAt(push_instr(c, w).words, Len(c.words) + 1, Len(c.words) + 2, result, cells)
        BY <2>0, <2>2, <3>3, <3>6, PushedCopy
      <3>8. push_instr(c, w).last = Len(c.words) + 1 BY Pushed
      <3> QED BY <2>1, <3>2, <3>7, <3>8 DEF Copied1
    <2> QED BY <2>3, <2>4
  <1> QED BY <1>1, <1>2

-----------------------------------------------------------------------------
(* The encoder of several copies.                                          *)

\* Registers one after the other are a span.
LEMMA SpanIs ==
    ASSUME NEW ps \in Seq(Providers), Len(ps) > 0, from_providers(ps)
    PROVE  /\ Regs(ps) = SpanRegs(ps[1].r, Len(ps))
           /\ ps[1].r \in Nat
           /\ \A i \in 1 .. Len(ps) : IsReg(Regs(ps)[i]) /\ Regs(ps)[i].r = ps[1].r + i - 1
  <1>1. Len(ps) \in Nat /\ DOMAIN ps = 1 .. Len(ps) /\ \A i \in 1 .. Len(ps) : ps[i] \in Providers OBVIOUS
  <1>2. \A i \in 1 .. Len(ps) : IsReg(ps[i]) BY <1>1 DEF from_providers
  <1>3. \A i \in 1 .. Len(ps) : ps[i].r \in Nat /\ ps[i] = [k |-> "reg", r |-> ps[i].r]
    <2>1. NRegs \in Nat BY TransferAssumption
    <2>2. \A p \in Providers : IsReg(p) => p.r \in Nat /\ p = [k |-> "reg", r |-> p.r]
      BY <2>1 DEF Providers, IsReg
    <2> QED BY <1>1, <1>2, <2>2
  <1>4. PICK T : T = {n \in 0 .. Len(ps) - 1 : ps[n + 1].r = ps[1].r + n} OBVIOUS
  <1>5. 0 \in T
    <2>1. 0 \in 0 .. Len(ps) - 1 /\ ps[0 + 1].r = ps[1].r + 0 BY <1>1, <1>3
    <2> QED BY <1>4, <2>1
  <1>6. ASSUME NEW n \in 0 .. (Len(ps) - 1) - 1, n \in T PROVE n + 1 \in T
    <2>1. PICK j \in 1 .. Len(ps) - 1 : j = n + 1 BY <1>1
    <2>2. j \in 1 .. Len(ps) /\ j + 1 \in 1 .. Len(ps) /\ n + 1 \in 0 .. Len(ps) - 1 BY <1>1, <2>1
    <2>3. ps[j + 1].r - ps[j].r = 1 BY <2>1 DEF from_providers
    <2>4. ps[j].r = ps[1].r + n BY <1>4, <1>6, <2>1
    <2>5. 1 \in 1 .. Len(ps) BY <1>1
    <2>6. ps[1].r \in Nat /\ ps[j].r \in Nat /\ ps[j + 1].r \in Nat BY <1>3, <2>2, <2>5
    <2>7. ps[j + 1].r = ps[1].r + j
      <3>1. PICK x \in Nat, y \in Nat, z \in Nat : x = ps[1].r /\ y = ps[j].r /\ z = ps[j + 1].r BY <2>6
      <3>2. z - y = 1 /\ y = x + n BY <2>3, <2>4, <3>1
      <3>3. z = x + j BY <2>1, <3>2
      <3> QED BY <3>1, <3>3
    <2> QED BY <1>4, <2>1, <2>2, <2>7
  <1>7. \A n \in 0 .. Len(ps) - 1 : n \in T
    <2>1. Len(ps) - 1 \in Nat BY <1>1
    <2> QED BY <1>5, <1>6, <2>1, UpTo
  <1>8. ASSUME NEW i \in 1 .. Len(ps) PROVE ps[i].r = ps[1].r + i - 1
    <2>1. i - 1 \in 0 .. Len(ps) - 1 /\ (i - 1) + 1 = i BY <1>1
    <2>2. i - 1 \in T BY <1>7, <2>1
    <2>3. ps[i].r = ps[1].r + (i - 1) BY <1>4, <2>1, <2>2
    <2>4. 1 \in 1 .. Len(ps) BY <1>1
    <2>5. ps[1].r \in Nat BY <1>3, <2>4
    <2> QED BY <2>3, <2>5
  <1>9. \A i \in 1 .. Len(ps) : provider2reg(ps[i]) = Reg(ps[1].r + i - 1) BY <1>2, <1>3, <1>8 DEF provider2reg, Reg
  <1>10. Regs(ps) = SpanRegs(ps[1].r, Len(ps)) BY <1>1, <1>9 DEF Regs, SpanRegs
  <1>11. \A i \in 1 .. Len(ps) : Regs(ps)[i] = Reg(ps[1].r + i - 1) BY <1>9, RegsTyped
  <1>12. 1 \in 1 .. Len(ps) BY <1>1
  <1>13. \A v : IsReg(Reg(v)) /\ Reg(v).r = v BY DEF IsReg, Reg
  <1>14. \A i \in 1 .. Len(ps) : IsReg(Regs(ps)[i]) /\ Regs(ps)[i].r = ps[1].r + i - 1 BY <1>11, <1>13
  <1> QED BY <1>3, <1>10, <1>12, <1>14

\* Spans that do not overlap do not clash.
LEMMA SpanNoClash ==
    ASSUME NEW ps \in Seq(Providers), Len(ps) > 0, from_providers(ps), NEW head \in Nat,
           ~has_overlapping_copy_spans(head, ps[1].r, Len(ps))
    PROVE  NoClash(head, Regs(ps))
  <1>1. Len(Regs(ps)) = Len(ps) /\ Len(ps) \in Nat BY RegsTyped
  <1> SUFFICES ASSUME NEW i \in 1 .. Len(ps), head <= Regs(ps)[i].r, Regs(ps)[i].r < head + i - 1
               PROVE  FALSE
    BY <1>1 DEF NoClash
  <1>2. ps[1].r \in Nat /\ Regs(ps)[i].r = ps[1].r + i - 1 BY SpanIs
  <1>3. PICK v \in Nat : v = ps[1].r BY <1>2
  <1>4. ~(Len(ps) > 1 /\ v < head /\ v + Len(ps) - 1 >= head) BY <1>3 DEF has_overlapping_copy_spans
  <1>5. head <= v + i - 1 /\ v + i - 1 < head + i - 1 BY <1>2, <1>3
  <1> QED BY <1>1, <1>4, <1>5

\* Values that do not overlap do not clash.
LEMMA ManyNoClash ==
    ASSUME NEW ps \in Seq(Providers), NEW head \in Nat, ~has_overlapping_copies(head, ps)
    PROVE  NoClash(head, Regs(ps))
  <1>1. Len(Regs(ps)) = Len(ps) /\ Len(ps) \in Nat /\ DOMAIN ps = 1 .. Len(ps) BY RegsTyped
  <1> SUFFICES ASSUME NEW i \in 1 .. Len(ps), IsReg(Regs(ps)[i]), head <= Regs(ps)[i].r,
                      Regs(ps)[i].r < head + i - 1
               PROVE  FALSE
    BY <1>1 DEF NoClash
  <1>2. Regs(ps)[i] = provider2reg(ps[i]) BY RegsTyped
  <1>3. IsReg(ps[i]) /\ Regs(ps)[i] = ps[i] BY <1>2 DEF provider2reg, alloc_const, IsReg
  <1> QED BY <1>1, <1>3 DEF has_overlapping_copies

\* Values that move to where they are need no copy.
Within(cells, A, a, first) ==
    /\ A \in Seq(Cells) /\ cells \in Seq(Cells) /\ first \in Nat /\ a \in Nat
    /\ first + Len(A) <= NRegs /\ a + Len(cells) <= Len(A)
    /\ \A i \in 1 .. Len(cells) : cells[i] = A[a + i]
    /\ \A i \in 1 .. Len(A) : i <= a \/ i > a + Len(cells) => A[i] = Reg(first + i - 1)
LEMMA Trimmed ==
    ASSUME NEW rs \in Frames, NEW first, NEW A, NEW a, NEW cells, Within(cells, A, a, first)
    PROVE  AtOnce(rs, first + a, cells) = AtOnce(rs, first, A)
  <1> USE DEF Within
  <1>0. NRegs \in Nat /\ Len(A) \in Nat /\ Len(cells) \in Nat /\ first + a \in Nat BY TransferAssumption
  <1>1. first + a + Len(cells) <= NRegs BY <1>0
  <1>2. AtOnce(rs, first + a, cells) \in Frames /\ AtOnce(rs, first, A) \in Frames
    BY <1>0, <1>1, AtOnceTyped
  <1>3. ASSUME NEW r \in 0 .. NRegs - 1 PROVE AtOnce(rs, first + a, cells)[r] = AtOnce(rs, first, A)[r]
    <2>1. CASE r \in first + a .. first + a + Len(cells) - 1
      <3>1. PICK i \in 1 .. Len(cells) : i = r - (first + a) + 1 BY <1>0, <2>1
      <3>2. r \in first .. first + Len(A) - 1 /\ r - first + 1 = a + i BY <1>0, <2>1, <3>1
      <3>3. AtOnce(rs, first + a, cells)[r] = Val(rs, cells[i]) BY <2>1, <3>1 DEF AtOnce
      <3>4. AtOnce(rs, first, A)[r] = Val(rs, A[a + i]) BY <3>2 DEF AtOnce
      <3> QED BY <3>1, <3>3, <3>4
    <2>2. CASE r \notin first + a .. first + a + Len(cells) - 1
      <3>1. AtOnce(rs, first + a, cells)[r] = rs[r] BY <2>2 DEF AtOnce
      <3>2. CASE r \in first .. first + Len(A) - 1
        <4>1. PICK i \in 1 .. Len(A) : i = r - first + 1 BY <1>0, <3>2
        <4>2. i <= a \/ i > a + Len(cells) BY <1>0, <2>2, <4>1
        <4>3. A[i] = Reg(first + i - 1) /\ first + i - 1 = r
          <5>1. A[i] = Reg(first + i - 1) BY <4>2
          <5>2. first + i - 1 = r BY <1>0, <4>1
          <5> QED BY <5>1, <5>2
        <4>4. Val(rs, A[i]) = rs[r] BY <4>3 DEF Val, Reg, IsReg
        <4>5. AtOnce(rs, first, A)[r] = Val(rs, A[i]) BY <3>2, <4>1 DEF AtOnce
        <4> QED BY <3>1, <4>4, <4>5
      <3>3. CASE r \notin first .. first + Len(A) - 1 BY <3>1, <3>3 DEF AtOnce
      <3> QED BY <3>2, <3>3
    <2> QED BY <2>1, <2>2
  <1> QED BY <1>2, <1>3, SameFrame

\* Nothing moves.
LEMMA Untouched == ASSUME NEW rs \in Frames, NEW head \in Nat PROVE AtOnce(rs, head, <<>>) = rs
  <1>1. NRegs \in Nat BY TransferAssumption
  <1>2. \A r \in 0 .. NRegs - 1 : r \notin head .. head + Len(<<>>) - 1 BY <1>1
  <1> QED BY <1>2 DEF AtOnce, Frames

\* The operands in the instruction and those in the list are all of them.
LEMMA RegsSplit ==
    ASSUME NEW ps \in Seq(Providers), NEW a \in 0 .. Len(ps)
    PROVE  /\ SubSeq(ps, 1, a) \in Seq(Providers) /\ Len(SubSeq(ps, 1, a)) = a
           /\ SubSeq(ps, a + 1, Len(ps)) \in Seq(Providers) /\ Len(SubSeq(ps, a + 1, Len(ps))) = Len(ps) - a
           /\ \A i \in 1 .. Len(ps) - a : SubSeq(ps, a + 1, Len(ps))[i] = ps[a + i]
           /\ Regs(SubSeq(ps, 1, a)) \o Regs(SubSeq(ps, a + 1, Len(ps))) = Regs(ps)
  <1>1. PICK p : p = SubSeq(ps, 1, a) OBVIOUS
  <1>2. PICK q : q = SubSeq(ps, a + 1, Len(ps)) OBVIOUS
  <1>3. PICK l \in Nat : l = Len(ps) OBVIOUS
  <1>4. a \in Nat /\ l - a \in Nat /\ a + (l - a) = l BY <1>3
  <1>5. p \in Seq(Providers) /\ Len(p) = a /\ \A i \in 1 .. a : p[i] = ps[i] BY <1>1
  <1>6. q \in Seq(Providers) /\ Len(q) = l - a /\ \A i \in 1 .. l - a : q[i] = ps[a + i] BY <1>2, <1>3
  <1>7. PICK P : P = Regs(p) OBVIOUS
  <1>8. PICK Q : Q = Regs(q) OBVIOUS
  <1>9. PICK R : R = Regs(ps) OBVIOUS
  <1>10. P \in Seq(Cells) /\ Len(P) = a /\ \A i \in 1 .. a : P[i] = provider2reg(ps[i])
    BY <1>5, <1>7, RegsTyped
  <1>11. Q \in Seq(Cells) /\ Len(Q) = l - a /\ \A i \in 1 .. l - a : Q[i] = provider2reg(ps[a + i])
    BY <1>6, <1>8, RegsTyped
  <1>12. R \in Seq(Cells) /\ Len(R) = l /\ \A i \in 1 .. l : R[i] = provider2reg(ps[i])
    BY <1>3, <1>9, RegsTyped
  <1>13. P \o Q \in Seq(Cells) /\ Len(P \o Q) = l BY <1>4, <1>10, <1>11, ConcatProperties
  <1>14. ASSUME NEW i \in 1 .. l PROVE (P \o Q)[i] = R[i]
    <2>1. CASE i <= a
      <3>1. i \in 1 .. a BY <1>4, <2>1
      <3>2. (P \o Q)[i] = P[i] BY <1>4, <1>10, <1>11, <2>1
      <3> QED BY <1>10, <1>12, <3>1, <3>2
    <2>2. CASE ~(i <= a)
      <3>1. PICK j \in 1 .. l - a : j = i - a /\ a + j = i BY <1>4, <2>2
      <3>2. (P \o Q)[i] = Q[j] BY <1>4, <1>10, <1>11, <2>2, <3>1
      <3> QED BY <1>11, <1>12, <3>1, <3>2
    <2> QED BY <2>1, <2>2
  <1>15. P \o Q = R BY <1>12, <1>13, <1>14, SeqEqual
  <1> QED BY <1>1, <1>2, <1>3, <1>5, <1>6, <1>7, <1>8, <1>9, <1>15

\* A copy of a list is pushed and its list appended.
LEMMA PushedListCopy ==
    ASSUME NEW c, Encoded(c), NEW w, NEW head \in Nat, NEW ps \in Seq(Providers), Len(ps) > 2,
           head + Len(ps) <= NRegs, w.result = head, w.values = Regs(SubSeq(ps, 1, 2)),
           \/ w.opcode = <<"copy", "many">>
           \/ w.opcode = <<"copy", "many_non_overlapping">> /\ NoClash(head, Regs(ps)),
           NEW d, d = append_instrs(push_instr(c, w), encode_register_list(SubSeq(ps, 3, Len(ps))))
    PROVE  Extends(c, d) /\ CopyAt(d.words, Len(c.words) + 1, Len(d.words) + 1, head, Regs(ps))
  <1>1. PICK b : b = push_instr(c, w) OBVIOUS
  <1>2. PICK n \in Nat : n = Len(c.words) BY EncodedLen
  <1>3. Extends(c, b) /\ Len(b.words) = n + 1 /\ b.words[n + 1] = w BY <1>1, <1>2, Pushed
  <1>4. PICK q : q = SubSeq(ps, 3, Len(ps)) OBVIOUS
  <1>5. Len(ps) \in Nat /\ 2 \in 0 .. Len(ps) /\ 2 + 1 = 3 OBVIOUS
  <1>6. q \in Seq(Providers) /\ Len(q) = Len(ps) - 2 /\ w.values \o Regs(q) = Regs(ps)
    BY <1>4, <1>5, RegsSplit
  <1>7. Len(q) > 0 BY <1>5, <1>6
  <1>8. Encoded(b) BY <1>3 DEF Extends
  <1>9. Extends(b, d) /\ Len(d.words) = (n + 1) + ListLen(q) /\ ListAt(d.words, (n + 1) + 1, q)
    BY <1>1, <1>3, <1>4, <1>6, <1>7, <1>8, AppendedList
  <1>10. ListLen(q) \in Nat /\ ListLen(q) >= 1 BY <1>6, <1>7, ListWords
  <1>l. PICK k \in Nat : k = ListLen(q) /\ k >= 1 /\ Len(d.words) = (n + 1) + k BY <1>9, <1>10
  <1>m. \A x, y, z \in Nat : z >= 1 /\ y = (x + 1) + z =>
            x + 1 \in 1 .. x + 1 /\ x + 1 \in 1 .. y /\ y + 1 = (x + 1) + 1 + z OBVIOUS
  <1>k. Len(d.words) \in Nat BY <1>9, EncodedLen DEF Extends
  <1>11. n + 1 \in 1 .. Len(b.words) /\ n + 1 \in 1 .. Len(d.words) BY <1>3, <1>k, <1>l, <1>m
  <1>12. d.words[n + 1] = w BY <1>3, <1>9, <1>11 DEF Extends
  <1>13. Len(d.words) + 1 = (n + 1) + 1 + ListLen(q)
    <2>1. PICK y \in Nat : y = Len(d.words) BY <1>k
    <2>2. y + 1 = (n + 1) + 1 + k BY <1>l, <1>m, <2>1
    <2> QED BY <1>l, <2>1, <2>2
  <1>14. ListCopy(d.words, n + 1, Len(d.words) + 1, head, Regs(ps))
    BY <1>6, <1>7, <1>9, <1>12, <1>13 DEF ListCopy
  <1>15. Regs(ps) \in Seq(Cells) /\ Len(Regs(ps)) = Len(ps) BY RegsTyped
  <1>16. CopyAt(d.words, n + 1, Len(d.words) + 1, head, Regs(ps))
    BY <1>11, <1>12, <1>14, <1>15 DEF CopyAt
  <1>17. Extends(c, d) BY <1>3, <1>9, ExtendsTrans
  <1> QED BY <1>2, <1>16, <1>17

\* The values are moved: nothing to do, or a copy that moves them.
Moved(c, d, first, all) ==
    \/ d = c /\ \A rs \in Frames : AtOnce(rs, first, Regs(all)) = rs
    \/ /\ Extends(c, d)
       /\ \E head, cells :
             /\ CopyAt(d.words, Len(c.words) + 1, Len(d.words) + 1, head, cells)
             /\ \A rs \in Frames : AtOnce(rs, head, cells) = AtOnce(rs, first, Regs(all))

\* Three values or more.
LEMMA EncodeLongCopy ==
    ASSUME NEW c, Encoded(c), NEW head \in Nat, NEW ps \in Seq(Providers), Len(ps) > 2,
           head + Len(ps) <= NRegs,
           NEW d, d = IF from_providers(ps)
              THEN push_instr(c, Copy(IF has_overlapping_copy_spans(head, ps[1].r, Len(ps))
                                      THEN "span" ELSE "span_non_overlapping",
                                      head, SpanRegs(ps[1].r, Len(ps))))
              ELSE append_instrs(
                     push_instr(c, Copy(IF has_overlapping_copies(head, ps)
                                        THEN "many" ELSE "many_non_overlapping",
                                        head, Regs(SubSeq(ps, 1, 2)))),
                     encode_register_list(SubSeq(ps, 3, Len(ps))))
    PROVE  Extends(c, d) /\ CopyAt(d.words, Len(c.words) + 1, Len(d.words) + 1, head, Regs(ps))
  <1>1. Regs(ps) \in Seq(Cells) /\ Len(Regs(ps)) = Len(ps) /\ Len(ps) \in Nat BY RegsTyped
  <1>2. CASE from_providers(ps)
    <2>1. PICK form : form = IF has_overlapping_copy_spans(head, ps[1].r, Len(ps))
                             THEN "span" ELSE "span_non_overlapping" OBVIOUS
    <2>2. PICK cells : cells = Regs(ps) OBVIOUS
    <2>3. cells = SpanRegs(ps[1].r, Len(ps)) BY <1>1, <1>2, <2>2, SpanIs
    <2>4. PICK w : w = Copy(form, head, cells) OBVIOUS
    <2>5. d = push_instr(c, w) BY <1>2, <2>1, <2>3, <2>4
    <2>6. w.opcode = <<"copy", form>> /\ w.result = head /\ w.values = cells BY <2>4 DEF Copy
    <2>7. form = "span" \/ (form = "span_non_overlapping" /\ NoClash(head, cells))
      BY <1>1, <1>2, <2>1, <2>2, SpanNoClash
    <2>8. OneWordCopy(w, head, cells) BY <2>6, <2>7 DEF OneWordCopy
    <2>9. cells \in Seq(Cells) /\ head + Len(cells) <= NRegs BY <1>1, <2>2
    <2>10. /\ Extends(c, d) /\ Len(d.words) = Len(c.words) + 1
           /\ CopyAt(d.words, Len(c.words) + 1, Len(c.words) + 2, head, cells)
      BY <2>5, <2>6, <2>8, <2>9, PushedCopy
    <2>n. PICK n \in Nat : n = Len(c.words) BY EncodedLen
    <2>11. Len(c.words) + 2 = Len(d.words) + 1
      <3>1. \A x \in Nat : x + 2 = (x + 1) + 1 OBVIOUS
      <3> QED BY <2>10, <2>n, <3>1
    <2> QED BY <2>2, <2>10, <2>11
  <1>3. CASE ~from_providers(ps)
    <2>1. PICK form : form = IF has_overlapping_copies(head, ps) THEN "many" ELSE "many_non_overlapping" OBVIOUS
    <2>2. PICK w : w = Copy(form, head, Regs(SubSeq(ps, 1, 2))) OBVIOUS
    <2>3. d = append_instrs(push_instr(c, w), encode_register_list(SubSeq(ps, 3, Len(ps))))
      BY <1>3, <2>1, <2>2
    <2>4. w.opcode = <<"copy", form>> /\ w.result = head /\ w.values = Regs(SubSeq(ps, 1, 2)) BY <2>2 DEF Copy
    <2>5. form = "many" \/ (form = "many_non_overlapping" /\ NoClash(head, Regs(ps))) BY <2>1, ManyNoClash
    <2>6. \/ w.opcode = <<"copy", "many">>
          \/ w.opcode = <<"copy", "many_non_overlapping">> /\ NoClash(head, Regs(ps))
      BY <2>4, <2>5
    <2>7. w.result = head /\ w.values = Regs(SubSeq(ps, 1, 2)) BY <2>4
    <2>8. PICK e : e = append_instrs(push_instr(c, w), encode_register_list(SubSeq(ps, 3, Len(ps)))) OBVIOUS
    <2>9. Extends(c, e) /\ CopyAt(e.words, Len(c.words) + 1, Len(e.words) + 1, head, Regs(ps))
      BY <2>6, <2>7, <2>8, PushedListCopy
    <2> QED BY <2>3, <2>8, <2>9
  <1> QED BY <1>2, <1>3

\* Any number of values, after an instruction that is no copy.
LEMMA EncodeCopies ==
    ASSUME NEW c, Encoded(c), NotMerged(c), NEW first \in Nat, NEW all \in Seq(Providers),
           first + Len(all) <= NRegs
    PROVE  Moved(c, encode_copies(c, first, all), first, all)
  <1>0. NRegs \in Nat BY TransferAssumption
  <1>1. PICK l \in Nat : l = Len(all) OBVIOUS
  <1>2. PICK S : S = {n \in 0 .. Len(all) : \A i \in 1 .. n : all[i] = Reg(first + i - 1)} OBVIOUS
  <1>3. PICK skip : skip = Max(S) OBVIOUS
  <1>4. skip \in 0 .. l /\ \A i \in 1 .. skip : all[i] = Reg(first + i - 1)
    <2>1. S \subseteq 0 .. l BY <1>1, <1>2
    <2>2. 0 \in S BY <1>1, <1>2
    <2>3. Max(S) \in S BY <2>1, <2>2, GreatestUpTo
    <2> QED BY <1>1, <1>2, <1>3, <2>3
  <1>5. PICK ps : ps = SubSeq(all, skip + 1, Len(all)) OBVIOUS
  <1>6. ps \in Seq(Providers) /\ Len(ps) = l - skip /\ \A i \in 1 .. l - skip : ps[i] = all[skip + i]
    BY <1>1, <1>4, <1>5, RegsSplit
  <1>7. PICK m \in Nat : m = l - skip /\ Len(ps) = m /\ l = skip + m BY <1>4, <1>6
  <1>8. PICK head \in Nat : head = first + skip /\ head + m <= NRegs BY <1>0, <1>1, <1>4, <1>7
  <1>9. PICK A : A = Regs(all) OBVIOUS
  <1>10. A \in Seq(Cells) /\ Len(A) = l /\ \A i \in 1 .. l : A[i] = provider2reg(all[i])
    BY <1>1, <1>9, RegsTyped
  <1>a. A \in Seq(Cells) /\ first + Len(A) <= NRegs BY <1>1, <1>10
  <1>11. \A x : provider2reg(Reg(x)) = Reg(x) BY DEF provider2reg, Reg, IsReg
  <1>12. PICK d : d = encode_copies(c, first, all) OBVIOUS
  <1>e. d = CASE ps = <<>> -> c
              [] Len(ps) = 1 -> encode_copy(c, head, ps[1])
              [] Len(ps) = 2 -> IF ps[2] = Reg(head + 1) THEN encode_copy(c, head, ps[1])
                                ELSE push_instr(c, Copy("2", head, Regs(ps)))
              [] Len(ps) > 2 ->
                   IF from_providers(ps)
                   THEN push_instr(c, Copy(IF has_overlapping_copy_spans(head, ps[1].r, Len(ps))
                                           THEN "span" ELSE "span_non_overlapping",
                                           head, SpanRegs(ps[1].r, Len(ps))))
                   ELSE append_instrs(
                          push_instr(c, Copy(IF has_overlapping_copies(head, ps)
                                             THEN "many" ELSE "many_non_overlapping",
                                             head, Regs(SubSeq(ps, 1, 2)))),
                          encode_register_list(SubSeq(ps, 3, Len(ps))))
    BY <1>2, <1>3, <1>5, <1>8, <1>12 DEF encode_copies
  <1>13. ASSUME \A i \in 1 .. l : all[i] = Reg(first + i - 1), NEW rs \in Frames
         PROVE  AtOnce(rs, first, A) = rs
    <2>0. <<>> \in Seq(Cells) /\ Len(<<>>) = 0 OBVIOUS
    <2>1. PICK cells \in Seq(Cells) : cells = <<>> /\ Len(cells) = 0 BY <2>0
    <2>2. \A i \in 1 .. l : A[i] = Reg(first + i - 1) BY <1>10, <1>11, <1>13
    <2>3. 0 \in Nat /\ 0 + Len(cells) <= Len(A) /\ first + 0 = first BY <1>10, <2>1
    <2>4. \A i \in 1 .. Len(cells) : cells[i] = A[0 + i] BY <2>1
    <2>6. Within(cells, A, 0, first) BY <1>a, <1>10, <2>2, <2>3, <2>4 DEF Within
    <2>5. AtOnce(rs, first + 0, cells) = AtOnce(rs, first, A)
      BY <2>6, Trimmed
    <2> QED BY <2>1, <2>3, <2>5, Untouched
  <1>14. ASSUME NEW cells \in Seq(Cells), Len(cells) <= m,
                \A i \in 1 .. Len(cells) : cells[i] = provider2reg(ps[i]),
                \A i \in 1 .. m : i > Len(cells) => ps[i] = Reg(head + i - 1),
                NEW rs \in Frames
         PROVE  AtOnce(rs, head, cells) = AtOnce(rs, first, A)
    <2>1. PICK k \in Nat : k = Len(cells) OBVIOUS
    <2>2. skip \in Nat /\ skip + k <= l BY <1>4, <1>7, <1>14, <2>1
    <2>3. ASSUME NEW i \in 1 .. k PROVE cells[i] = A[skip + i]
      <3>1. i \in 1 .. m /\ skip + i \in 1 .. l BY <1>4, <1>7, <1>14, <2>1
      <3> QED BY <1>6, <1>7, <1>10, <1>14, <2>1, <3>1
    <2>4. ASSUME NEW i \in 1 .. l, i <= skip \/ i > skip + k PROVE A[i] = Reg(first + i - 1)
      <3>1. CASE i <= skip
        <4>1. i \in 1 .. skip BY <2>2, <3>1
        <4> QED BY <1>4, <1>10, <1>11, <4>1
      <3>2. CASE i > skip + k
        <4>1. PICK j \in 1 .. m : j = i - skip /\ j > k /\ skip + j = i BY <1>7, <2>2, <3>2
        <4>2. ps[j] = all[i] BY <1>6, <1>7, <4>1
        <4>3. ps[j] = Reg(head + j - 1) BY <1>14, <2>1, <4>1
        <4>4. head + j - 1 = first + i - 1 BY <1>8, <2>2, <4>1
        <4> QED BY <1>10, <1>11, <4>2, <4>3, <4>4
      <3> QED BY <2>4, <3>1, <3>2
    <2>6. Within(cells, A, skip, first) BY <1>a, <1>10, <2>1, <2>2, <2>3, <2>4 DEF Within
    <2>5. AtOnce(rs, first + skip, cells) = AtOnce(rs, first, A)
      BY <2>6, Trimmed
    <2> QED BY <1>8, <2>5
  <1>15. CASE m = 0
    <2>1. ps = <<>> BY <1>6, <1>7, <1>15
    <2>2. d = c BY <1>e, <2>1
    <2>3. \A i \in 1 .. l : all[i] = Reg(first + i - 1) BY <1>4, <1>7, <1>15
    <2>4. \A rs \in Frames : AtOnce(rs, first, A) = rs BY <1>13, <2>3
    <2> QED BY <1>9, <1>12, <2>2, <2>4 DEF Moved
  <1>16. CASE m >= 1 /\ d = encode_copy(c, head, ps[1]) /\ \A i \in 1 .. m : i > 1 => ps[i] = Reg(head + i - 1)
    <2>1. 1 \in 1 .. m /\ head \in 0 .. NRegs - 1 BY <1>0, <1>8, <1>16
    <2>2. ps[1] \in Providers BY <1>6, <1>7, <2>1
    <2>3. merge_copy_instrs(c, head, ps[1]) = {} BY DEF merge_copy_instrs, NotMerged
    <2>4. \/ Unchanged(c, d, head, ps[1])
          \/ Copied1(c, d, head, ps[1])
      BY <1>16, <2>1, <2>2, <2>3, EncodeCopy
    <2>5. CASE Unchanged(c, d, head, ps[1])
      <3>1. d = c /\ ps[1] = Reg(head) BY <2>5 DEF Unchanged
      <3>2. ASSUME NEW i \in 1 .. l PROVE all[i] = Reg(first + i - 1)
        <4>1. CASE i <= skip
          <5>1. i \in 1 .. skip BY <1>4, <4>1
          <5> QED BY <1>4, <5>1
        <4>2. CASE ~(i <= skip)
          <5>1. PICK j \in 1 .. m : j = i - skip /\ skip + j = i BY <1>4, <1>7, <4>2
          <5>2. ps[j] = all[i] BY <1>6, <1>7, <5>1
          <5>3. head + j - 1 = first + i - 1 /\ head + 1 - 1 = head BY <1>4, <1>8, <5>1
          <5>4. ps[j] = Reg(head + j - 1)
            <6>1. CASE j = 1 BY <3>1, <5>3, <6>1
            <6>2. CASE j # 1
              <7>1. j > 1 BY <6>2
              <7> QED BY <1>16, <7>1
            <6> QED BY <6>1, <6>2
          <5> QED BY <5>2, <5>3, <5>4
        <4> QED BY <4>1, <4>2
      <3>3. \A rs \in Frames : AtOnce(rs, first, A) = rs BY <1>13, <3>2
      <3> QED BY <1>9, <1>12, <3>1, <3>3 DEF Moved
    <2>6. CASE Copied1(c, d, head, ps[1])
      <3>1. PICK cells : cells = <<provider2reg(ps[1])>> OBVIOUS
      <3>2. cells \in Seq(Cells) /\ Len(cells) = 1 /\ cells[1] = provider2reg(ps[1]) BY <2>2, <3>1, CellOf
      <3>3. \A rs \in Frames : AtOnce(rs, head, cells) = AtOnce(rs, first, A)
        <4>1. Len(cells) <= m /\ \A i \in 1 .. Len(cells) : cells[i] = provider2reg(ps[i]) BY <1>16, <3>2
        <4>2. \A i \in 1 .. m : i > Len(cells) => ps[i] = Reg(head + i - 1) BY <1>16, <3>2
        <4> QED BY <1>14, <3>2, <4>1, <4>2
      <3>4. Extends(c, d) /\ CopyAt(d.words, Len(c.words) + 1, Len(d.words) + 1, head, cells)
        <4>1. /\ Extends(c, d) /\ Len(d.words) = Len(c.words) + 1
              /\ CopyAt(d.words, Len(c.words) + 1, Len(c.words) + 2, head, cells)
          BY <2>6, <3>1 DEF Copied1
        <4>2. PICK n \in Nat : n = Len(c.words) BY EncodedLen
        <4>3. \A x \in Nat : x + 2 = (x + 1) + 1 OBVIOUS
        <4> QED BY <4>1, <4>2, <4>3
      <3> QED BY <1>9, <1>12, <3>3, <3>4 DEF Moved
    <2> QED BY <2>4, <2>5, <2>6
  <1>17. CASE Extends(c, d) /\ CopyAt(d.words, Len(c.words) + 1, Len(d.words) + 1, head, Regs(ps))
    <2>1. PICK cells : cells = Regs(ps) OBVIOUS
    <2>2. cells \in Seq(Cells) /\ Len(cells) = m /\ \A i \in 1 .. m : cells[i] = provider2reg(ps[i])
      BY <1>6, <1>7, <2>1, RegsTyped
    <2>3. \A i \in 1 .. m : ~(i > Len(cells)) BY <2>2
    <2>4. \A rs \in Frames : AtOnce(rs, head, cells) = AtOnce(rs, first, A) BY <1>14, <2>2, <2>3
    <2> QED BY <1>9, <1>12, <1>17, <2>1, <2>4 DEF Moved
  <1>18. CASE m = 1
    <2>1. ps # <<>> BY <1>7, <1>18
    <2>2. d = encode_copy(c, head, ps[1]) BY <1>e, <1>7, <1>18, <2>1
    <2>3. \A i \in 1 .. m : i > 1 => ps[i] = Reg(head + i - 1) BY <1>18
    <2> QED BY <1>16, <1>18, <2>2, <2>3
  <1>19. CASE m = 2
    <2>1. ps # <<>> /\ Len(ps) # 1 BY <1>7, <1>19
    <2>2. CASE ps[2] = Reg(head + 1)
      <3>1. d = encode_copy(c, head, ps[1]) BY <1>e, <1>7, <1>19, <2>1, <2>2
      <3>2. \A i \in 1 .. m : i > 1 => i = 2 /\ head + i - 1 = head + 1 BY <1>19
      <3>3. \A i \in 1 .. m : i > 1 => ps[i] = Reg(head + i - 1) BY <2>2, <3>2
      <3> QED BY <1>16, <1>19, <3>1, <3>3
    <2>3. CASE ps[2] # Reg(head + 1)
      <3>1. PICK cells : cells = Regs(ps) OBVIOUS
      <3>2. cells \in Seq(Cells) /\ Len(cells) = 2 BY <1>6, <1>7, <1>19, <3>1, RegsTyped
      <3>3. PICK w : w = Copy("2", head, cells) OBVIOUS
      <3>4. d = push_instr(c, w) BY <1>e, <1>7, <1>19, <2>1, <2>3, <3>1, <3>3
      <3>5. w.result = head /\ OneWordCopy(w, head, cells) BY <3>2, <3>3 DEF Copy, OneWordCopy
      <3>6. head + Len(cells) <= NRegs BY <1>8, <1>19, <3>2
      <3>7. /\ Extends(c, d) /\ Len(d.words) = Len(c.words) + 1
            /\ CopyAt(d.words, Len(c.words) + 1, Len(c.words) + 2, head, cells)
        BY <3>2, <3>4, <3>5, <3>6, PushedCopy
      <3>8. PICK n \in Nat : n = Len(c.words) BY EncodedLen
      <3>9. \A x \in Nat : x + 2 = (x + 1) + 1 OBVIOUS
      <3>10. CopyAt(d.words, Len(c.words) + 1, Len(d.words) + 1, head, cells) BY <3>7, <3>8, <3>9
      <3> QED BY <1>17, <3>1, <3>7, <3>10
    <2> QED BY <2>2, <2>3
  <1>20. CASE m > 2
    <2>1. ps # <<>> /\ Len(ps) # 1 /\ Len(ps) # 2 /\ Len(ps) > 2 BY <1>7, <1>20
    <2>2. PICK e : e = IF from_providers(ps)
                   THEN push_instr(c, Copy(IF has_overlapping_copy_spans(head, ps[1].r, Len(ps))
                                           THEN "span" ELSE "span_non_overlapping",
                                           head, SpanRegs(ps[1].r, Len(ps))))
                   ELSE append_instrs(
                          push_instr(c, Copy(IF has_overlapping_copies(head, ps)
                                             THEN "many" ELSE "many_non_overlapping",
                                             head, Regs(SubSeq(ps, 1, 2)))),
                          encode_register_list(SubSeq(ps, 3, Len(ps))))
      OBVIOUS
    <2>3. d = e BY <1>e, <2>1, <2>2
    <2>4. head + Len(ps) <= NRegs BY <1>7, <1>8
    <2>5. Extends(c, e) /\ CopyAt(e.words, Len(c.words) + 1, Len(e.words) + 1, head, Regs(ps))
      BY <1>6, <2>1, <2>2, <2>4, EncodeLongCopy
    <2> QED BY <1>17, <2>3, <2>5
  <1> QED BY <1>7, <1>15, <1>18, <1>19, <1>20

-----------------------------------------------------------------------------
(* The invariant.  Before execution the frame is as it was at the start;   *)
(* once translated, the words from ip on take control and values to where  *)
(* Wasm sends them.                                                        *)

Start == [r \in 0 .. NRegs - 1 |-> r]
Originals == [i \in DOMAIN src.values |-> Original(src.values[i])]

\* With registers rs, control leaves the words at p for target t, as registers w.
Leaves(words, p, rs, t, w) ==
    /\ rs = w /\ t # ReturnLabel /\ t # Inside
    /\ \/ p > Len(words) /\ t = FallThrough
       \/ p \in 1 .. Len(words) /\ words[p].opcode = branch /\ words[p].label = t
Goes1(words, p, rs, t, w) ==
    \E q, head, cells : /\ CopyAt(words, p, q, head, cells)
                        /\ Leaves(words, q, AtOnce(rs, head, cells), t, w)
Goes2(words, p, rs, t, w) ==
    \E q, head, cells : /\ CopyAt(words, p, q, head, cells)
                        /\ Goes1(words, q, AtOnce(rs, head, cells), t, w)
Goes(words, p, rs, t, w) ==
    \/ Leaves(words, p, rs, t, w)
    \/ Goes1(words, p, rs, t, w)
    \/ Goes2(words, p, rs, t, w)

\* A return of cells, in one word or in words p .. q - 1.
OneWordReturn(w, family, cells) ==
    \/ w.opcode = <<family, "none">> /\ cells = <<>>
    \/ \E form \in {"reg", "reg2", "reg3", "span"} :
          w.opcode = <<family, form>> /\ w.values = cells /\ Len(cells) > 0
    \/ \E form \in Forms32 : /\ w.opcode = <<family, form>>
                             /\ cells = <<[k |-> "const_reg", v |-> Decode32(form, w.values[1])]>>
ListReturn(words, p, q, family, cells) ==
    /\ words[p].opcode = <<family, "many">>
    /\ \E ps \in Seq(Providers) :
          /\ Len(ps) > 0 /\ ListAt(words, p + 1, ps) /\ q = p + 1 + ListLen(ps)
          /\ cells = words[p].values \o Regs(ps)
ReturnAt(words, p, q, family, cells) ==
    /\ p \in 1 .. Len(words)
    /\ \/ OneWordReturn(words[p], family, cells) /\ q = p + 1
       \/ ListReturn(words, p, q, family, cells)

\* The word at p is the target of a table with values vs of this form.
TargetAt(words, p, label, vs, form) ==
    /\ p \in 1 .. Len(words)
    /\ IF label = ReturnLabel
       THEN IF form = "many" THEN words[p].opcode = <<"return", "none">>
            ELSE ReturnAt(words, p, p + 1, "return", Regs(vs))
       ELSE /\ words[p].label = label
            /\ IF vs = <<>> THEN words[p].opcode = branch
               ELSE /\ words[p].head = BlockParams[label]
                    /\ \/ words[p].opcode = Param("branch_table_target")
                       \/ /\ words[p].opcode = Param("branch_table_target_non_overlapping")
                          /\ form \in {"span", "many"} /\ NoClash(BlockParams[label], Regs(vs))

\* The values of a table stand between its first word at p and position b.
TableValues(words, p, b, vs, form) ==
    \/ form = "0" /\ b = p /\ vs = <<>>
    \/ form = "1" /\ b = p + 1 /\ Len(vs) = 1
       /\ IF words[p + 1].opcode = Param("register") THEN words[p + 1].regs = Regs(vs)
          ELSE Regs(vs) = <<[k |-> "const_reg", v |-> Decode32(words[p + 1].form, words[p + 1].imm)]>>
    \/ form \in {"2", "3", "span"} /\ b = p + 1 /\ vs # <<>> /\ words[p + 1].regs = Regs(vs)
    \/ form = "many" /\ b = p + ListLen(vs) /\ vs # <<>> /\ ListAt(words, p + 1, vs)
TableAt(words, p, test, targets, vs) ==
    /\ p \in 1 .. Len(words) /\ words[p].index = test /\ words[p].len = Len(targets)
    /\ \E form \in {"0", "1", "2", "3", "span", "many"}, b \in Nat :
          /\ words[p].opcode = <<"branch_table", form>>
          /\ TableValues(words, p, b, vs, form)
          /\ \A k \in 1 .. Len(targets) : TargetAt(words, b + k, targets[k], vs, form)

Unmoved == regs = Start /\ out = <<>>
Going == out = <<>> /\ Goes(code, ip, regs, WasmTarget, WasmRegs)
Leaving == /\ Unmoved /\ WasmTarget = ReturnLabel
           /\ \E q : ReturnAt(code, ip, q, "return", Regs(src.values))
LeavingTable == /\ WasmTarget = ReturnLabel /\ out = Originals
                /\ ip \in 1 .. Len(code) /\ Instr.opcode = <<"return", "none">>
MayLeave == /\ Unmoved /\ src.kind = "br_if" /\ IsReg(src.test) /\ src.label = ReturnLabel
            /\ ReturnAt(code, ip, Len(code) + 1, "return_nez", Regs(src.values))
            /\ Instr.cond = src.test
MayBranch == /\ Unmoved /\ src.kind = "br_if" /\ IsReg(src.test) /\ src.label # ReturnLabel
             /\ ip \in 1 .. Len(code) /\ Instr.cond = src.test
             /\ \/ /\ Instr.opcode = <<"i32", "ne", "branch_imm">> /\ Instr.label = src.label
                   /\ ip = Len(code) /\ WasmRegs = Start
                \/ /\ Instr.opcode = <<"i32", "eq", "branch_imm">> /\ Instr.label = FallThrough
                   /\ src.test.r # 0 => Goes(code, ip + 1, Start, WasmTarget, WasmRegs)
AtTable == /\ Unmoved /\ src.kind = "br_table" /\ IsReg(src.test)
           /\ TableAt(code, ip, src.test, src.targets, src.values)
Ready == Going \/ Leaving \/ LeavingTable \/ MayLeave \/ MayBranch \/ AtTable

\* The first of two assignments is translated.
SetOnce ==
    \/ code = <<>> /\ last_instr = 0 /\ src.values[1] = Reg(src.into[1])
    \/ /\ Len(code) = 1 /\ last_instr = 1
       /\ CopyAt(code, 1, 2, src.into[1], <<provider2reg(src.values[1])>>)
Untranslated ==
    /\ Unmoved /\ ip = 1 /\ at = Inside
    /\ \/ next = 1 /\ code = <<>> /\ last_instr = 0
       \/ next = 2 /\ src.kind = "sets" /\ SetOnce
Arrived ==
    /\ at = WasmTarget
    /\ at = ReturnLabel => out = Originals
    /\ at # ReturnLabel => regs = WasmRegs /\ out = <<>>

TransferInv ==
    /\ src \in Sources /\ regs \in Frames /\ next \in Nat /\ ip \in Nat \ {0} /\ Encoded(Now)
    /\ next <= Remaining => Untranslated
    /\ next > Remaining /\ at = Inside => Ready
    /\ at # Inside => next > Remaining /\ Arrived

-----------------------------------------------------------------------------
(* The encoder of returns.                                                 *)

ReturnedBy(c, d, family, ps) ==
    /\ Extends(c, d) /\ d.words[Len(c.words) + 1].cond = src.test
    /\ ReturnAt(d.words, Len(c.words) + 1, Len(d.words) + 1, family, Regs(ps))

\* A return of one word is pushed.
LEMMA PushedReturn ==
    ASSUME NEW c, Encoded(c), NEW family, NEW ps \in Seq(Providers), NEW w, w.cond = src.test,
           OneWordReturn(w, family, Regs(ps))
    PROVE  /\ ReturnedBy(c, push_instr(c, w), family, ps)
           /\ Len(push_instr(c, w).words) = Len(c.words) + 1
  <1>1. PICK d : d = push_instr(c, w) OBVIOUS
  <1>2. PICK n \in Nat : n = Len(c.words) BY EncodedLen
  <1>3. Extends(c, d) /\ Len(d.words) = n + 1 /\ d.words[n + 1] = w BY <1>1, <1>2, Pushed
  <1>4. n + 1 \in 1 .. n + 1 OBVIOUS
  <1>5. ReturnAt(d.words, n + 1, (n + 1) + 1, family, Regs(ps)) BY <1>3, <1>4 DEF ReturnAt
  <1>6. ReturnedBy(c, d, family, ps) BY <1>2, <1>3, <1>5 DEF ReturnedBy
  <1> QED BY <1>1, <1>2, <1>3, <1>6

\* A return of a list is pushed and its list appended.
LEMMA PushedListReturn ==
    ASSUME NEW c, Encoded(c), NEW family, NEW ps \in Seq(Providers), NEW a \in Nat, a < Len(ps),
           NEW w, w.cond = src.test, w.opcode = <<family, "many">>, w.values = Regs(SubSeq(ps, 1, a)),
           NEW d, d = append_instrs(push_instr(c, w), encode_register_list(SubSeq(ps, a + 1, Len(ps))))
    PROVE  ReturnedBy(c, d, family, ps)
  <1>1. PICK b : b = push_instr(c, w) OBVIOUS
  <1>2. PICK n \in Nat : n = Len(c.words) BY EncodedLen
  <1>3. Extends(c, b) /\ Len(b.words) = n + 1 /\ b.words[n + 1] = w BY <1>1, <1>2, Pushed
  <1>4. PICK q : q = SubSeq(ps, a + 1, Len(ps)) OBVIOUS
  <1>5. Len(ps) \in Nat /\ a \in 0 .. Len(ps) OBVIOUS
  <1>6. q \in Seq(Providers) /\ Len(q) = Len(ps) - a /\ w.values \o Regs(q) = Regs(ps)
    BY <1>4, <1>5, RegsSplit
  <1>7. Len(q) > 0 BY <1>5, <1>6
  <1>8. Encoded(b) BY <1>3 DEF Extends
  <1>9. Extends(b, d) /\ Len(d.words) = (n + 1) + ListLen(q) /\ ListAt(d.words, (n + 1) + 1, q)
    BY <1>1, <1>3, <1>4, <1>6, <1>7, <1>8, AppendedList
  <1>10. PICK k \in Nat : k = ListLen(q) /\ k >= 1 BY <1>6, <1>7, ListWords
  <1>m. \A x, z \in Nat : z >= 1 => /\ (x + 1) + z \in Nat /\ x + 1 \in 1 .. x + 1
                                   /\ x + 1 \in 1 .. (x + 1) + z
                                   /\ ((x + 1) + z) + 1 = (x + 1) + 1 + z
    OBVIOUS
  <1>11. PICK m \in Nat : m = Len(d.words) /\ m = (n + 1) + k BY <1>9, <1>10, <1>m
  <1>12. n + 1 \in 1 .. n + 1 /\ n + 1 \in 1 .. m /\ m + 1 = (n + 1) + 1 + k
    <2>1. /\ n + 1 \in 1 .. n + 1 /\ n + 1 \in 1 .. (n + 1) + k
          /\ ((n + 1) + k) + 1 = (n + 1) + 1 + k
      BY <1>10, <1>m, Zenon
    <2> QED BY <1>11, <2>1, Zenon
  <1>13. d.words[n + 1] = w BY <1>3, <1>9, <1>12 DEF Extends
  <1>14. ListReturn(d.words, n + 1, m + 1, family, Regs(ps))
    BY <1>6, <1>7, <1>9, <1>10, <1>12, <1>13 DEF ListReturn
  <1>15. ReturnAt(d.words, n + 1, m + 1, family, Regs(ps)) BY <1>11, <1>12, <1>14 DEF ReturnAt
  <1>16. Extends(c, d) BY <1>3, <1>9, ExtendsTrans
  <1> QED BY <1>2, <1>11, <1>13, <1>15, <1>16 DEF ReturnedBy

\* Any number of values is returned.
LEMMA EncodeReturn ==
    ASSUME NEW c, Encoded(c), NEW family, NEW inline \in {2, 3}, NEW ps \in Seq(Providers)
    PROVE  /\ ReturnedBy(c, Returning(c, family, inline, ps), family, ps)
           /\ Len(ps) <= inline \/ from_providers(ps) =>
                Len(Returning(c, family, inline, ps).words) = Len(c.words) + 1
  <1> DEFINE Return(form, values) == [opcode |-> <<family, form>>, cond |-> src.test, values |-> values]
             d == Returning(c, family, inline, ps)
             Good(w) == w.cond = src.test /\ OneWordReturn(w, family, Regs(ps))
  <1>0. Len(ps) \in Nat /\ Len(Regs(ps)) = Len(ps) /\ Regs(ps) \in Seq(Cells) /\ inline \in Nat BY RegsTyped
  <1>1. \A form, values : /\ Return(form, values).cond = src.test
                          /\ Return(form, values).opcode = <<family, form>>
                          /\ Return(form, values).values = values
    OBVIOUS
  <1>2. d = CASE ps = <<>> -> push_instr(c, Return("none", <<>>))
         [] Len(ps) = 1 -> push_instr(c, IF ~IsReg(ps[1]) /\ Fits32(ps[1])
                                         THEN Return(Form32(ps[1]), <<Encode32(ps[1])>>)
                                         ELSE Return("reg", Regs(ps)))
         [] Len(ps) \in 2 .. inline -> push_instr(c, Return(IF Len(ps) = 2 THEN "reg2" ELSE "reg3", Regs(ps)))
         [] Len(ps) > 1 /\ Len(ps) > inline ->
              IF from_providers(ps) THEN push_instr(c, Return("span", SpanRegs(ps[1].r, Len(ps))))
              ELSE append_instrs(push_instr(c, Return("many", Regs(SubSeq(ps, 1, inline)))),
                                 encode_register_list(SubSeq(ps, inline + 1, Len(ps))))
    BY DEF Returning
  <1> HIDE DEF Return, d
  <1>3. ASSUME NEW w, Good(w), d = push_instr(c, w)
        PROVE  ReturnedBy(c, d, family, ps) /\ Len(d.words) = Len(c.words) + 1
    <2>1. w.cond = src.test /\ OneWordReturn(w, family, Regs(ps)) BY <1>3
    <2> QED BY <1>3, <2>1, PushedReturn
  <1>4. Len(ps) > 0 => \A form \in {"reg", "reg2", "reg3", "span"} : Good(Return(form, Regs(ps)))
    <2>1. Len(ps) > 0 => Len(Regs(ps)) > 0 BY <1>0
    <2> QED BY <1>1, <2>1 DEF OneWordReturn
  <1> HIDE DEF Good
  <1>5. CASE ps = <<>>
    <2>1. Regs(ps) = <<>> BY <1>0, <1>5
    <2>2. Good(Return("none", <<>>)) BY <1>1, <2>1 DEF OneWordReturn, Good
    <2>3. d = push_instr(c, Return("none", <<>>)) BY <1>2, <1>5
    <2> QED BY <1>3, <2>2, <2>3 DEF d
  <1>6. CASE ps # <<>> /\ Len(ps) = 1
    <2>1. 1 \in 1 .. Len(ps) BY <1>6
    <2>2. ps[1] \in Providers /\ Regs(ps)[1] = provider2reg(ps[1]) BY <2>1, RegsTyped
    <2>3. CASE ~IsReg(ps[1]) /\ Fits32(ps[1])
      <3>1. PICK w : w = Return(Form32(ps[1]), <<Encode32(ps[1])>>) OBVIOUS
      <3>2. d = push_instr(c, w) BY <1>2, <1>6, <2>3, <3>1
      <3>3. w.opcode = <<family, Form32(ps[1])>> /\ w.cond = src.test /\ w.values[1] = Encode32(ps[1])
        BY <1>1, <3>1
      <3>4. Decode32(Form32(ps[1]), Encode32(ps[1])) = ps[1].v /\ Form32(ps[1]) \in Forms32
        BY <2>2, <2>3, Decoded
      <3>5. Regs(ps) = <<[k |-> "const_reg", v |-> ps[1].v]>>
        <4>1. PICK x : x = [k |-> "const_reg", v |-> ps[1].v] OBVIOUS
        <4>2. Regs(ps)[1] = x BY <2>2, <2>3, <4>1, CellOf
        <4>3. Regs(ps) = <<x>> BY <1>0, <1>6, <4>2
        <4> QED BY <4>1, <4>3
      <3>6. Regs(ps) = <<[k |-> "const_reg", v |-> Decode32(Form32(ps[1]), w.values[1])]>> BY <3>3, <3>4, <3>5
      <3>7. Good(w) BY <3>3, <3>4, <3>6 DEF Good, OneWordReturn
      <3> QED BY <1>3, <3>2, <3>7 DEF d
    <2>4. CASE ~(~IsReg(ps[1]) /\ Fits32(ps[1]))
      <3>1. d = push_instr(c, Return("reg", Regs(ps))) BY <1>2, <1>6, <2>4
      <3>2. Good(Return("reg", Regs(ps))) BY <1>4, <1>6
      <3> QED BY <1>3, <3>1, <3>2 DEF d
    <2> QED BY <2>3, <2>4
  <1>7. CASE ps # <<>> /\ Len(ps) \in 2 .. inline
    <2>1. Len(ps) # 1 BY <1>0, <1>7
    <2>2. PICK form : form = IF Len(ps) = 2 THEN "reg2" ELSE "reg3" OBVIOUS
    <2>3. d = push_instr(c, Return(form, Regs(ps))) BY <1>2, <1>7, <2>1, <2>2
    <2>4. Len(ps) > 0 BY <1>0, <1>7
    <2>5. Good(Return(form, Regs(ps))) BY <1>4, <2>2, <2>4
    <2> QED BY <1>3, <2>3, <2>5 DEF d
  <1>8. CASE ps # <<>> /\ Len(ps) > inline
    <2>0. \A x \in Nat, y \in {2, 3} : x > y => x # 1 /\ x \notin 2 .. y /\ x > 1 /\ ~(x <= y) /\ x > 0 /\ y < x
      OBVIOUS
    <2>1. Len(ps) # 1 /\ Len(ps) \notin 2 .. inline /\ Len(ps) > 1 /\ ~(Len(ps) <= inline) /\ Len(ps) > 0
      BY <1>0, <1>8, <2>0
    <2>2. CASE from_providers(ps)
      <3>1. Regs(ps) = SpanRegs(ps[1].r, Len(ps)) BY <2>1, <2>2, SpanIs
      <3>2. d = push_instr(c, Return("span", Regs(ps))) BY <1>2, <1>8, <2>1, <2>2, <3>1
      <3>3. Good(Return("span", Regs(ps))) BY <1>4, <2>1
      <3> QED BY <1>3, <3>2, <3>3 DEF d
    <2>3. CASE ~from_providers(ps)
      <3>1. PICK w : w = Return("many", Regs(SubSeq(ps, 1, inline))) OBVIOUS
      <3>2. PICK e : e = append_instrs(push_instr(c, w), encode_register_list(SubSeq(ps, inline + 1, Len(ps))))
        OBVIOUS
      <3>3. d = e BY <1>2, <1>8, <2>1, <2>3, <3>1, <3>2
      <3>4. w.cond = src.test /\ w.opcode = <<family, "many">> /\ w.values = Regs(SubSeq(ps, 1, inline))
        BY <1>1, <3>1
      <3>5. inline < Len(ps) BY <1>0, <1>8
      <3>6. ReturnedBy(c, e, family, ps) BY <1>0, <3>2, <3>4, <3>5, PushedListReturn
      <3> QED BY <2>1, <2>3, <3>3, <3>6 DEF d
    <2> QED BY <2>2, <2>3
  <1>9. ps = <<>> \/ Len(ps) = 1 \/ Len(ps) \in 2 .. inline \/ Len(ps) > inline
    <2>1. Len(ps) = 0 => ps = <<>> OBVIOUS
    <2> QED BY <1>0, <2>1
  <1> QED BY <1>5, <1>6, <1>7, <1>8, <1>9

-----------------------------------------------------------------------------
(* Copies before a branch, and the targets of a table.                     *)

\* The parameters are copied, then the branch is taken.
LEMMA CopiesThenBranch ==
    ASSUME NEW c, Encoded(c), NotMerged(c), NEW first \in Nat, NEW all \in Seq(Providers),
           first + Len(all) <= NRegs, NEW label, label # ReturnLabel, label # Inside, NEW rs \in Frames,
           NEW d, d = BranchTo(encode_copies(c, first, all), label)
    PROVE  /\ Extends(c, d)
           /\ Goes(d.words, Len(c.words) + 1, rs, label, AtOnce(rs, first, Regs(all)))
  <1>1. PICK e : e = encode_copies(c, first, all) OBVIOUS
  <1>2. PICK w : w = [opcode |-> branch, label |-> label] OBVIOUS
  <1>3. d = push_instr(e, w) /\ w.opcode = branch /\ w.label = label BY <1>1, <1>2 DEF BranchTo
  <1>4. Moved(c, e, first, all) BY <1>1, EncodeCopies
  <1>5. PICK fin : fin = AtOnce(rs, first, Regs(all)) OBVIOUS
  <1>6. CASE e = c /\ \A xs \in Frames : AtOnce(xs, first, Regs(all)) = xs
    <2>1. PICK n \in Nat : n = Len(c.words) BY EncodedLen
    <2>2. Extends(c, d) /\ Len(d.words) = n + 1 /\ d.words[n + 1] = w BY <1>3, <1>6, <2>1, Pushed
    <2>3. n + 1 \in 1 .. n + 1 OBVIOUS
    <2>4. rs = fin BY <1>5, <1>6
    <2>5. Leaves(d.words, n + 1, rs, label, fin) BY <1>3, <2>2, <2>3, <2>4 DEF Leaves
    <2> QED BY <1>5, <2>1, <2>2, <2>5 DEF Goes
  <1>7. CASE /\ Extends(c, e)
             /\ \E head, cells :
                   /\ CopyAt(e.words, Len(c.words) + 1, Len(e.words) + 1, head, cells)
                   /\ \A xs \in Frames : AtOnce(xs, head, cells) = AtOnce(xs, first, Regs(all))
    <2>1. PICK head, cells :
                   /\ CopyAt(e.words, Len(c.words) + 1, Len(e.words) + 1, head, cells)
                   /\ \A xs \in Frames : AtOnce(xs, head, cells) = AtOnce(xs, first, Regs(all))
      BY <1>7
    <2>2. Encoded(e) BY <1>7 DEF Extends
    <2>3. PICK n \in Nat : n = Len(e.words) BY <2>2, EncodedLen
    <2>4. Extends(e, d) /\ Len(d.words) = n + 1 /\ d.words[n + 1] = w BY <1>3, <2>2, <2>3, Pushed
    <2>5. n + 1 \in 1 .. n + 1 OBVIOUS
    <2>6. AtOnce(rs, head, cells) = fin BY <1>5, <2>1
    <2>7. Leaves(d.words, n + 1, AtOnce(rs, head, cells), label, fin) BY <1>3, <2>4, <2>5, <2>6 DEF Leaves
    <2>8. CopyAt(d.words, Len(c.words) + 1, n + 1, head, cells) BY <2>1, <2>2, <2>3, <2>4, CopyStays
    <2>9. Goes1(d.words, Len(c.words) + 1, rs, label, fin) BY <2>7, <2>8 DEF Goes1
    <2>10. Extends(c, d) BY <1>7, <2>4, ExtendsTrans
    <2> QED BY <1>5, <2>9, <2>10 DEF Goes
  <1> QED BY <1>4, <1>6, <1>7 DEF Moved

\* A return stays where it is when words are added.
LEMMA ReturnStays ==
    ASSUME NEW c, NEW d, Encoded(c), Extends(c, d), NEW p, NEW q, NEW family, NEW cells,
           ReturnAt(c.words, p, q, family, cells)
    PROVE  ReturnAt(d.words, p, q, family, cells)
  <1>1. Len(c.words) \in Nat /\ Len(d.words) \in Nat BY EncodedLen DEF Extends
  <1>2. p \in 1 .. Len(c.words) /\ p \in 1 .. Len(d.words) /\ d.words[p] = c.words[p]
    BY <1>1 DEF ReturnAt, Extends
  <1>3. CASE OneWordReturn(c.words[p], family, cells) /\ q = p + 1 BY <1>2, <1>3 DEF ReturnAt
  <1>4. CASE ListReturn(c.words, p, q, family, cells)
    <2>1. PICK ps \in Seq(Providers) :
            /\ Len(ps) > 0 /\ ListAt(c.words, p + 1, ps) /\ q = p + 1 + ListLen(ps)
            /\ cells = c.words[p].values \o Regs(ps)
      BY <1>4 DEF ListReturn
    <2>2. p + 1 \in Nat /\ p + 1 >= 1 BY <1>1, <1>2
    <2>3. ListAt(d.words, p + 1, ps) BY <2>1, <2>2, ListStays
    <2>4. cells = d.words[p].values \o Regs(ps) BY <1>2, <2>1
    <2>5. ListReturn(d.words, p, q, family, cells) BY <1>2, <1>4, <2>1, <2>3, <2>4 DEF ListReturn
    <2> QED BY <1>2, <2>5 DEF ReturnAt
  <1> QED BY <1>3, <1>4 DEF ReturnAt

\* What is put at the place of a target.
TargetIs(words, p, label, returned, overlapping) ==
    IF label = ReturnLabel THEN ReturnAt(words, p, p + 1, "return", Regs(returned))
    ELSE words[p] = Target(label, label \in overlapping)

\* A table has one word for each target, in their order.
TargetsAt(c, d, n, returned, overlapping) ==
    /\ Extends(c, d) /\ Len(d.words) = Len(c.words) + n
    /\ \A k \in 1 .. n : TargetIs(d.words, Len(c.words) + k, src.targets[k], returned, overlapping)
LEMMA TableTargets ==
    ASSUME NEW c, Encoded(c), NEW returned \in Seq(Providers),
           Len(returned) <= 3 \/ from_providers(returned),
           NEW overlapping, Len(src.targets) \in Nat
    PROVE  TargetsAt(c, translate_br_table_targets(c, returned, overlapping), Len(src.targets),
                     returned, overlapping)
  <1> DEFINE m == Len(src.targets)
             Step(f, n) == LET label == src.targets[n]
                           IN IF label = ReturnLabel THEN encode_return(f[n - 1], returned)
                              ELSE append_instrs(f[n - 1], <<Target(label, label \in overlapping)>>)
             Eqn(f, k) == f = [n \in 0 .. k |-> IF n = 0 THEN c ELSE Step(f, n)]
             ff == CHOOSE f : Eqn(f, m)
             Good(x, n) == TargetsAt(c, x, n, returned, overlapping)
  <1>0. m \in Nat OBVIOUS
  <1>1. translate_br_table_targets(c, returned, overlapping) = ff[m] BY DEF translate_br_table_targets
  <1>s. \A f, h, n : f[n - 1] = h[n - 1] => Step(f, n) = Step(h, n) OBVIOUS
  <1>t. \A f, n : Step(f, n) = IF src.targets[n] = ReturnLabel THEN encode_return(f[n - 1], returned)
                               ELSE append_instrs(f[n - 1], <<Target(src.targets[n], src.targets[n] \in overlapping)>>)
    OBVIOUS
  <1> HIDE DEF m, Step
  <1>2. \E f : Eqn(f, m)
    <2>1. PICK T : T = {k \in 0 .. m : \E f : Eqn(f, k)} OBVIOUS
    <2>2. 0 \in T
      <3>1. PICK f : f = [n \in 0 .. 0 |-> c] OBVIOUS
      <3>2. \A n \in 0 .. 0 : n = 0 OBVIOUS
      <3>3. Eqn(f, 0) BY <3>1, <3>2
      <3>4. 0 \in 0 .. m BY <1>0
      <3> HIDE DEF Eqn
      <3> QED BY <2>1, <3>3, <3>4
    <2>3. ASSUME NEW k \in 0 .. m - 1, k \in T PROVE k + 1 \in T
      <3>1. PICK f : Eqn(f, k) BY <2>1, <2>3
      <3>2. PICK h : h = [n \in 0 .. k + 1 |-> IF n = k + 1 THEN Step(f, k + 1) ELSE f[n]] OBVIOUS
      <3>3. k \in Nat /\ k + 1 \in 0 .. m /\ k + 1 # 0 /\ (k + 1) - 1 = k /\ k # k + 1
            /\ k \in 0 .. k + 1 /\ k + 1 \in 0 .. k + 1 BY <1>0
      <3>4. h[k + 1] = Step(h, k + 1)
        <4>1. h[k] = f[k] BY <3>2, <3>3
        <4>2. Step(f, k + 1) = Step(h, k + 1) BY <1>s, <3>3, <4>1
        <4> QED BY <3>2, <3>3, <4>2
      <3>5. ASSUME NEW n \in 0 .. k PROVE h[n] = IF n = 0 THEN c ELSE Step(h, n)
        <4>1. n \in 0 .. k + 1 /\ n # k + 1 BY <3>3
        <4>2. h[n] = f[n] BY <3>2, <4>1
        <4>3. f[n] = IF n = 0 THEN c ELSE Step(f, n) BY <3>1
        <4>4. CASE n = 0 BY <4>2, <4>3, <4>4
        <4>5. CASE n # 0
          <5>1. n - 1 \in 0 .. k + 1 /\ n - 1 # k + 1 BY <3>3, <4>5
          <5>2. h[n - 1] = f[n - 1] BY <3>2, <5>1
          <5>3. Step(f, n) = Step(h, n) BY <1>s, <5>2
          <5> QED BY <4>2, <4>3, <4>5, <5>3
        <4> QED BY <4>4, <4>5
      <3>6. \A n \in 0 .. k + 1 : h[n] = IF n = 0 THEN c ELSE Step(h, n)
        <4> TAKE n \in 0 .. k + 1
        <4>1. CASE n = k + 1 BY <3>3, <3>4, <4>1
        <4>2. CASE n # k + 1
          <5>1. n \in 0 .. k BY <3>3, <4>2
          <5> QED BY <3>5, <5>1
        <4> QED BY <4>1, <4>2
      <3>7. h = [n \in 0 .. k + 1 |-> h[n]] BY <3>2
      <3>8. Eqn(h, k + 1) BY <3>6, <3>7
      <3> HIDE DEF Eqn
      <3> QED BY <2>1, <3>3, <3>8
    <2>4. \A k \in 0 .. m : k \in T BY <1>0, <2>2, <2>3, UpTo
    <2>5. m \in 0 .. m BY <1>0
    <2> HIDE DEF Eqn
    <2> QED BY <2>1, <2>4, <2>5
  <1>3. Eqn(ff, m) BY <1>2, Zenon
  <1> HIDE DEF ff
  <1>4. PICK T : T = {n \in 0 .. m : Good(ff[n], n)} OBVIOUS
  <1>5. 0 \in T
    <2>1. 0 \in 0 .. m BY <1>0
    <2>2. ff[0] = c BY <1>3, <2>1
    <2>3. PICK n \in Nat : n = Len(c.words) BY EncodedLen
    <2>4. Extends(c, c) BY <2>3 DEF Extends
    <2>5. Len(c.words) = Len(c.words) + 0 BY <2>3
    <2>6. Good(c, 0) BY <2>4, <2>5 DEF TargetsAt
    <2> HIDE DEF Good
    <2> QED BY <1>4, <2>1, <2>2, <2>6
  <1>6. ASSUME NEW n \in 0 .. m - 1, n \in T PROVE n + 1 \in T
    <2>1. n \in Nat /\ n + 1 \in 0 .. m /\ n + 1 # 0 /\ (n + 1) - 1 = n BY <1>0
    <2>2. PICK x : x = ff[n] OBVIOUS
    <2>3. PICK y : y = ff[n + 1] OBVIOUS
    <2>4. Good(x, n) BY <1>4, <1>6, <2>2
    <2>5. y = Step(ff, n + 1) BY <1>3, <2>1, <2>3
    <2>6. PICK label : label = src.targets[n + 1] OBVIOUS
    <2>7. y = IF label = ReturnLabel THEN encode_return(x, returned)
              ELSE append_instrs(x, <<Target(label, label \in overlapping)>>)
      BY <1>t, <2>1, <2>2, <2>5, <2>6
    <2>8. PICK a \in Nat : a = Len(c.words) BY EncodedLen
    <2>9. Extends(c, x) /\ Len(x.words) = a + n /\ Encoded(x) BY <2>4, <2>8 DEF TargetsAt, Extends
    <2>10. /\ Extends(x, y) /\ Len(y.words) = (a + n) + 1
           /\ TargetIs(y.words, (a + n) + 1, label, returned, overlapping)
      <3>1. CASE label = ReturnLabel
        <4>1. y = Returning(x, "return", 3, returned) BY <2>7, <3>1 DEF encode_return
        <4>2. ReturnedBy(x, y, "return", returned) /\ Len(y.words) = (a + n) + 1
          BY <2>9, <4>1, EncodeReturn
        <4> QED BY <2>9, <3>1, <4>2 DEF ReturnedBy, TargetIs
      <3>2. CASE label # ReturnLabel
        <4>1. PICK w : w = Target(label, label \in overlapping) OBVIOUS
        <4>3. PICK ws : ws = <<w>> OBVIOUS
        <4>4. ws \in Seq({w}) /\ Len(ws) = 1 /\ ws[1] = w BY <4>3
        <4>5. y = append_instrs(x, ws) BY <2>7, <3>2, <4>1, <4>3
        <4>2. PICK V : ws \in Seq(V) BY <4>4
        <4>0. Encoded(x) BY <2>9
        <4>6. /\ Extends(x, append_instrs(x, ws))
              /\ Len(append_instrs(x, ws).words) = Len(x.words) + Len(ws)
              /\ \A i \in 1 .. Len(ws) : append_instrs(x, ws).words[Len(x.words) + i] = ws[i]
          BY <4>0, <4>2, Appended
        <4>7. 1 \in 1 .. Len(ws) BY <4>4
        <4>8. y.words[(a + n) + 1] = w BY <2>9, <4>4, <4>5, <4>6, <4>7
        <4> QED BY <2>9, <3>2, <4>1, <4>4, <4>5, <4>6, <4>8 DEF TargetIs
      <3> QED BY <3>1, <3>2
    <2>11. Extends(c, y) BY <2>9, <2>10, ExtendsTrans
    <2>12. ASSUME NEW k \in 1 .. n + 1
           PROVE  TargetIs(y.words, Len(c.words) + k, src.targets[k], returned, overlapping)
      <3>1. CASE k = n + 1
        <4>1. a + (n + 1) = (a + n) + 1 BY <2>1
        <4> QED BY <2>6, <2>8, <2>10, <3>1, <4>1
      <3>2. CASE k # n + 1
        <4>1. k \in 1 .. n /\ a + k \in 1 .. a + n BY <2>1, <3>2
        <4>2. TargetIs(x.words, a + k, src.targets[k], returned, overlapping) BY <2>4, <2>8, <4>1 DEF TargetsAt
        <4>3. y.words[a + k] = x.words[a + k] BY <2>9, <2>10, <4>1 DEF Extends
        <4>4. CASE src.targets[k] = ReturnLabel
          <5>1. ReturnAt(x.words, a + k, a + k + 1, "return", Regs(returned)) BY <4>2, <4>4 DEF TargetIs
          <5>2. ReturnAt(y.words, a + k, a + k + 1, "return", Regs(returned)) BY <2>9, <2>10, <5>1, ReturnStays
          <5> QED BY <2>8, <4>4, <5>2 DEF TargetIs
        <4>5. CASE src.targets[k] # ReturnLabel BY <2>8, <4>2, <4>3, <4>5 DEF TargetIs
        <4> QED BY <4>4, <4>5
      <3> QED BY <3>1, <3>2
    <2>13. Len(y.words) = Len(c.words) + (n + 1)
      <3>1. a + (n + 1) = (a + n) + 1 BY <2>1
      <3> QED BY <2>8, <2>10, <3>1
    <2>14. Good(y, n + 1) BY <2>11, <2>12, <2>13 DEF TargetsAt
    <2> HIDE DEF Good
    <2> QED BY <1>4, <2>1, <2>3, <2>14
  <1>7. Good(ff[m], m)
    <2> HIDE DEF Good
    <2>1. \A n \in 0 .. m : n \in T BY <1>0, <1>5, <1>6, UpTo
    <2>2. m \in 0 .. m BY <1>0
    <2> QED BY <1>4, <2>1, <2>2
  <1> QED BY <1>1, <1>7 DEF m

-----------------------------------------------------------------------------
(* Two assignments.                                                        *)

\* The value of an operand is that of its cell.
LEMMA OperandValue ==
    ASSUME NEW rs, NEW p \in Providers
    PROVE  Val(rs, provider2reg(p)) = IF IsReg(p) THEN rs[p.r] ELSE p.v
  BY DEF Val, provider2reg, alloc_const, IsReg

\* A copy of one value is an assignment.
LEMMA SetIs ==
    ASSUME NEW rs \in Frames, NEW into \in 0 .. NRegs - 1, NEW p \in Providers
    PROVE  /\ AtOnce(rs, into, <<provider2reg(p)>>) = AfterSet(rs, into, p)
           /\ AfterSet(rs, into, p) \in Frames
           /\ \A r \in 0 .. NRegs - 1 :
                AfterSet(rs, into, p)[r] = IF r = into THEN Val(rs, provider2reg(p)) ELSE rs[r]
  <1>0. NRegs \in Nat /\ into \in Nat BY TransferAssumption
  <1>1. PICK cells : cells = <<provider2reg(p)>> OBVIOUS
  <1>2. cells \in Seq(Cells) /\ Len(cells) = 1 /\ cells[1] = provider2reg(p) /\ provider2reg(p) \in Cells
    BY <1>1, CellOf
  <1>3. PICK x \in Nat : x = Val(rs, provider2reg(p)) BY <1>2, CellValue
  <1>4. AfterSet(rs, into, p) = [rs EXCEPT ![into] = x] BY <1>3, OperandValue DEF AfterSet
  <1>5. AfterSet(rs, into, p) \in Frames BY <1>4 DEF Frames
  <1>6. \A r \in 0 .. NRegs - 1 : AfterSet(rs, into, p)[r] = IF r = into THEN x ELSE rs[r] BY <1>4 DEF Frames
  <1>7. into + Len(cells) <= NRegs BY <1>0, <1>2
  <1>8. AtOnce(rs, into, cells) \in Frames BY <1>0, <1>2, <1>7, AtOnceTyped
  <1>9. ASSUME NEW r \in 0 .. NRegs - 1 PROVE AtOnce(rs, into, cells)[r] = IF r = into THEN x ELSE rs[r]
    <2>1. r \in into .. into + Len(cells) - 1 <=> r = into BY <1>0, <1>2
    <2>2. AtOnce(rs, into, cells)[r] = IF r \in into .. into + Len(cells) - 1 THEN Val(rs, cells[r - into + 1]) ELSE rs[r]
      BY DEF AtOnce
    <2>3. CASE r = into
      <3>1. r - into + 1 = 1 BY <1>0, <2>3
      <3> QED BY <1>2, <1>3, <2>1, <2>2, <2>3, <3>1
    <2>4. CASE r # into BY <2>1, <2>2, <2>4
    <2> QED BY <2>3, <2>4
  <1>10. AtOnce(rs, into, cells) = AfterSet(rs, into, p) BY <1>5, <1>6, <1>8, <1>9, SameFrame
  <1> QED BY <1>1, <1>3, <1>5, <1>6, <1>10

\* Two values at once.
LEMMA TwoAtOnce ==
    ASSUME NEW rs \in Frames, NEW head \in Nat, NEW x \in Cells, NEW y \in Cells, head + 2 <= NRegs
    PROVE  /\ <<x, y>> \in Seq(Cells) /\ Len(<<x, y>>) = 2
           /\ AtOnce(rs, head, <<x, y>>) \in Frames
           /\ \A r \in 0 .. NRegs - 1 :
                AtOnce(rs, head, <<x, y>>)[r] = IF r = head THEN Val(rs, x)
                                                ELSE IF r = head + 1 THEN Val(rs, y) ELSE rs[r]
  <1>0. NRegs \in Nat BY TransferAssumption
  <1>1. PICK cells : cells = <<x, y>> OBVIOUS
  <1>2. cells \in Seq(Cells) /\ Len(cells) = 2 /\ cells[1] = x /\ cells[2] = y BY <1>1
  <1>3. AtOnce(rs, head, cells) \in Frames BY <1>2, AtOnceTyped
  <1>4. ASSUME NEW r \in 0 .. NRegs - 1
        PROVE  AtOnce(rs, head, cells)[r] = IF r = head THEN Val(rs, x)
                                            ELSE IF r = head + 1 THEN Val(rs, y) ELSE rs[r]
    <2>1. r \in head .. head + Len(cells) - 1 <=> r = head \/ r = head + 1 BY <1>0, <1>2
    <2>2. AtOnce(rs, head, cells)[r] = IF r \in head .. head + Len(cells) - 1 THEN Val(rs, cells[r - head + 1]) ELSE rs[r]
      BY DEF AtOnce
    <2>3. CASE r = head
      <3>1. r - head + 1 = 1 BY <2>3
      <3> QED BY <1>2, <2>1, <2>2, <2>3, <3>1
    <2>4. CASE r = head + 1
      <3>1. r - head + 1 = 2 /\ r # head BY <2>4
      <3> QED BY <1>2, <2>1, <2>2, <2>4, <3>1
    <2>5. CASE r # head /\ r # head + 1 BY <2>1, <2>2, <2>5
    <2> QED BY <2>3, <2>4, <2>5
  <1> QED BY <1>1, <1>2, <1>3, <1>4

\* The only word is replaced.
LEMMA OnlyWord ==
    ASSUME NEW c, Encoded(c), Len(c.words) = 1, c.last = 1, NEW w
    PROVE  /\ Encoded([c EXCEPT !.words[c.last] = w])
           /\ Len([c EXCEPT !.words[c.last] = w].words) = 1
           /\ [c EXCEPT !.words[c.last] = w].words[1] = w
  <1>1. PICK W : c \in [words : Seq(W), last : Nat] BY DEF Encoded
  <1>2. PICK s : s = c.words OBVIOUS
  <1>3. s \in Seq(W) /\ Len(s) = 1 BY <1>1, <1>2
  <1>4. c = [words |-> s, last |-> 1] BY <1>1, <1>2
  <1>5. PICK t : t = [s EXCEPT ![1] = w] OBVIOUS
  <1>6. [c EXCEPT !.words[c.last] = w] = [words |-> t, last |-> 1]
    <2>1. [c EXCEPT !.words[c.last] = w] = [c EXCEPT !.words = t] BY <1>2, <1>5
    <2>2. PICK l : l = 1 OBVIOUS
    <2>3. [[words |-> s, last |-> l] EXCEPT !.words = t] = [words |-> t, last |-> l]
      <3>1. PICK q : q = [[words |-> s, last |-> l] EXCEPT !.words = t] OBVIOUS
      <3>2. DOMAIN q = {"words", "last"} /\ q.words = t /\ q.last = l /\ q = [f \in {"words", "last"} |-> q[f]]
        BY <3>1
      <3>3. q = [words |-> t, last |-> l] BY <3>2
      <3> QED BY <3>1, <3>3
    <2>4. c = [words |-> s, last |-> l] BY <1>4, <2>2
    <2>5. [c EXCEPT !.words = t] = [words |-> t, last |-> l] BY <2>3, <2>4
    <2> QED BY <2>1, <2>2, <2>5
  <1>7. PICK V : V = W \cup {w} OBVIOUS
  <1>8. t \in Seq(V) /\ Len(t) = 1 /\ t[1] = w
    <2>0. PICK n \in Nat : n = 1 OBVIOUS
    <2>1. s \in [1 .. n -> W] BY <1>3, <2>0, LenProperties
    <2>2. t \in [1 .. n -> V] /\ t[1] = w BY <1>5, <1>7, <2>0, <2>1
    <2>3. t \in Seq(V) /\ Len(t) = n BY <2>2
    <2> QED BY <2>0, <2>2, <2>3
  <1>9. Encoded([words |-> t, last |-> 1])
    <2>1. [words |-> t, last |-> 1] \in [words : Seq(V), last : Nat] BY <1>8
    <2> QED BY <2>1, Zenon DEF Encoded
  <1> QED BY <1>6, <1>8, <1>9

\* The second assignment is merged into the copy of the first.
Merged(d, rs2(_)) ==
    /\ Encoded(d) /\ Len(d.words) = 1
    /\ \E head, cells : /\ CopyAt(d.words, 1, 2, head, cells)
                        /\ \A rs \in Frames : AtOnce(rs, head, cells) = rs2(rs)
LEMMA MergedSet ==
    ASSUME NEW c, Encoded(c), Len(c.words) = 1, c.last = 1,
           NEW i1 \in 0 .. NRegs - 1, NEW i2 \in 0 .. NRegs - 1, NEW v1 \in Providers, NEW v2 \in Providers,
           CopyAt(c.words, 1, 2, i1, <<provider2reg(v1)>>),
           merge_copy_instrs(c, i2, v2) # {}
    PROVE  Merged(encode_copy(c, i2, v2), LAMBDA rs : AfterSet(AfterSet(rs, i1, v1), i2, v2))
  <1>0. NRegs \in Nat /\ i1 \in Nat /\ i2 \in Nat BY TransferAssumption
  <1>1. PICK last : last = c.words[1] OBVIOUS
  <1>2. IsReg(v2) /\ last.opcode = <<"copy", "reg">> BY <1>1 DEF merge_copy_instrs
  <1>3. PICK x1 \in Cells : x1 = provider2reg(v1) BY CellOf
  <1>4. last.result = i1 /\ last.values = <<x1>> /\ last.values[1] = x1
    BY <1>1, <1>2, <1>3 DEF CopyAt, OneWordCopy, ListCopy, Forms32
  <1>5. PICK v : v = IF v2 = Reg(i1) THEN x1 ELSE v2 OBVIOUS
  <1>6. v \in Cells /\ v2.r \in 0 .. NRegs - 1 /\ v2 = Reg(v2.r)
    BY <1>2, <1>5 DEF Cells, Providers, IsReg, Reg
  <1>7. ASSUME NEW rs \in Frames, NEW r \in 0 .. NRegs - 1
        PROVE  AfterSet(AfterSet(rs, i1, v1), i2, v2)[r] =
                  IF r = i2 THEN Val(rs, v) ELSE IF r = i1 THEN Val(rs, x1) ELSE rs[r]
    <2>1. PICK rs1 : rs1 = AfterSet(rs, i1, v1) OBVIOUS
    <2>2. rs1 \in Frames /\ \A q \in 0 .. NRegs - 1 : rs1[q] = IF q = i1 THEN Val(rs, x1) ELSE rs[q]
      BY <1>3, <2>1, SetIs
    <2>3. AfterSet(rs1, i2, v2)[r] = IF r = i2 THEN Val(rs1, provider2reg(v2)) ELSE rs1[r]
      <3>1. \A q \in 0 .. NRegs - 1 :
                AfterSet(rs1, i2, v2)[q] = IF q = i2 THEN Val(rs1, provider2reg(v2)) ELSE rs1[q]
        BY <2>2, SetIs
      <3> QED BY <3>1
    <2>4. Val(rs1, provider2reg(v2)) = rs1[v2.r] BY <1>2, OperandValue
    <2>5. rs1[v2.r] = Val(rs, v)
      <3>1. CASE v2 = Reg(i1)
        <4>1. v2.r = i1 /\ v = x1 BY <1>5, <3>1 DEF Reg
        <4> QED BY <1>6, <2>2, <4>1
      <3>2. CASE v2 # Reg(i1)
        <4>1. v2.r # i1 /\ v = v2 BY <1>5, <1>6, <3>2
        <4>2. Val(rs, v2) = rs[v2.r] BY <1>2 DEF Val
        <4> QED BY <1>6, <2>2, <4>1, <4>2
      <3> QED BY <3>1, <3>2
    <2> QED BY <2>1, <2>2, <2>3, <2>4, <2>5
  <1>8. ASSUME NEW rs \in Frames PROVE AfterSet(AfterSet(rs, i1, v1), i2, v2) \in Frames
    <2>1. AfterSet(rs, i1, v1) \in Frames BY SetIs
    <2> QED BY <2>1, SetIs
  <1>9. ASSUME NEW head \in Nat, NEW x \in Cells, NEW y \in Cells, head + 2 <= NRegs,
               \/ head = i1 /\ i2 = head + 1 /\ x = x1 /\ y = v
               \/ head = i2 /\ i1 = head + 1 /\ x = v /\ y = x1,
               encode_copy(c, i2, v2) = [c EXCEPT !.words[c.last] = Copy("2", head, <<x, y>>)]
        PROVE  Merged(encode_copy(c, i2, v2), LAMBDA rs : AfterSet(AfterSet(rs, i1, v1), i2, v2))
    <2>1. PICK d : d = encode_copy(c, i2, v2) OBVIOUS
    <2>2. PICK cells : cells = <<x, y>> OBVIOUS
    <2>3. PICK w : w = Copy("2", head, cells) OBVIOUS
    <2>4. Encoded(d) /\ Len(d.words) = 1 /\ d.words[1] = w BY <1>9, <2>1, <2>2, <2>3, OnlyWord
    <2>5. w.opcode = <<"copy", "2">> /\ w.result = head /\ w.values = cells BY <2>3 DEF Copy
    <2>6. cells \in Seq(Cells) /\ Len(cells) = 2 BY <2>2
    <2>7. OneWordCopy(w, head, cells) BY <2>5, <2>6 DEF OneWordCopy
    <2>8. head + Len(cells) <= NRegs BY <1>9, <2>6
    <2>9. CopyAt(d.words, 1, 2, head, cells) BY <2>4, <2>5, <2>6, <2>7, <2>8 DEF CopyAt
    <2>10. ASSUME NEW rs \in Frames
           PROVE  AtOnce(rs, head, cells) = AfterSet(AfterSet(rs, i1, v1), i2, v2)
      <3>1. AtOnce(rs, head, cells) \in Frames BY <1>9, <2>2, TwoAtOnce
      <3>2. \A r \in 0 .. NRegs - 1 :
                AtOnce(rs, head, cells)[r] = IF r = head THEN Val(rs, x)
                                             ELSE IF r = head + 1 THEN Val(rs, y) ELSE rs[r]
        BY <1>9, <2>2, TwoAtOnce
      <3>3. head # head + 1 BY <1>9
      <3>4. \A r \in 0 .. NRegs - 1 : AtOnce(rs, head, cells)[r] = AfterSet(AfterSet(rs, i1, v1), i2, v2)[r]
        BY <1>7, <1>9, <3>2, <3>3
      <3> QED BY <1>8, <3>1, <3>4, SameFrame
    <2> QED BY <2>1, <2>4, <2>9, <2>10 DEF Merged
  <1>10. encode_copy(c, i2, v2) = CHOOSE m \in merge_copy_instrs(c, i2, v2) : TRUE BY DEF encode_copy
  <1>11. CASE i2 = i1 + 1
    <2>1. merge_copy_instrs(c, i2, v2) = {[c EXCEPT !.words[c.last] = Copy("2", i1, <<x1, v>>)]}
      BY <1>1, <1>2, <1>4, <1>5, <1>11 DEF merge_copy_instrs
    <2>2. encode_copy(c, i2, v2) = [c EXCEPT !.words[c.last] = Copy("2", i1, <<x1, v>>)] BY <1>10, <2>1
    <2>3. i1 + 2 <= NRegs BY <1>0, <1>11
    <2> QED BY <1>0, <1>6, <1>9, <1>11, <2>2, <2>3
  <1>12. CASE i2 # i1 + 1
    <2>1. i2 = i1 - 1 BY <1>1, <1>2, <1>4, <1>12 DEF merge_copy_instrs
    <2>2. merge_copy_instrs(c, i2, v2) = {[c EXCEPT !.words[c.last] = Copy("2", i2, <<v, x1>>)]}
      BY <1>1, <1>2, <1>4, <1>5, <1>12, <2>1 DEF merge_copy_instrs
    <2>3. encode_copy(c, i2, v2) = [c EXCEPT !.words[c.last] = Copy("2", i2, <<v, x1>>)] BY <1>10, <2>2
    <2>4. i1 = i2 + 1 /\ i2 + 2 <= NRegs BY <1>0, <2>1
    <2> QED BY <1>0, <1>6, <1>9, <2>3, <2>4
  <1> QED BY <1>11, <1>12

-----------------------------------------------------------------------------
(* The operators, and what Wasm says of them.                              *)

\* What an operator consists of.
LEMMA Kinds ==
    ASSUME src \in Sources
    PROVE  /\ src.kind \in {"sets", "return", "br", "br_if", "br_table"}
           /\ src.kind = "sets" => /\ src.values[1] \in Providers /\ src.values[2] \in Providers
                                   /\ src.into[1] \in 0 .. NRegs - 1 /\ src.into[2] \in 0 .. NRegs - 1
                                   /\ Remaining = 2
           /\ src.kind # "sets" => src.values \in Seq(Providers) /\ src.test \in Providers /\ Remaining = 1
           /\ src.kind \in {"br", "br_if"} => src.label \in Labels /\ HasRoom(src.label, src.values)
           /\ src.kind = "br_table" => /\ src.targets \in Seq(Labels) /\ Len(src.targets) \in Nat \ {0}
                                       /\ \A i \in 1 .. Len(src.targets) :
                                            src.targets[i] \in Labels /\ HasRoom(src.targets[i], src.values)
  <1>1. IsSource(src) BY TransferAssumption
  <1>2. CASE src \in [kind : {"sets"}, values : [1 .. 2 -> Providers], into : [1 .. 2 -> 0 .. NRegs - 1]]
    <2>1. src.kind = "sets" /\ src.values \in [1 .. 2 -> Providers] /\ src.into \in [1 .. 2 -> 0 .. NRegs - 1] BY <1>2
    <2>2. PICK n \in Nat : n = 2 OBVIOUS
    <2>3. src.values \in [1 .. n -> Providers] BY <2>1, <2>2
    <2>4. Len(src.values) = n BY <2>3
    <2> QED BY <2>1, <2>2, <2>4 DEF Remaining
  <1>3. CASE src \in [kind : {"return"}, values : Seq(Providers), test : Providers] BY <1>3 DEF Remaining
  <1>4. CASE /\ src \in [kind : {"br", "br_if"}, values : Seq(Providers), label : Labels, test : Providers]
             /\ HasRoom(src.label, src.values)
    BY <1>4 DEF Remaining
  <1>5. CASE /\ src \in [kind : {"br_table"}, values : Seq(Providers), targets : Seq(Labels), test : Providers]
             /\ src.targets # <<>>
             /\ \A i \in DOMAIN src.targets : HasRoom(src.targets[i], src.values)
    <2>1. PICK T : T = src.targets OBVIOUS
    <2>2. T \in Seq(Labels) /\ T # <<>> BY <1>5, <2>1
    <2>3. Len(T) \in Nat \ {0} /\ DOMAIN T = 1 .. Len(T) /\ \A i \in 1 .. Len(T) : T[i] \in Labels BY <2>2
    <2>4. \A i \in 1 .. Len(T) : HasRoom(T[i], src.values) BY <1>5, <2>1, <2>3
    <2>5. src.kind = "br_table" /\ src.values \in Seq(Providers) /\ src.test \in Providers BY <1>5
    <2> QED BY <2>1, <2>2, <2>3, <2>4, <2>5 DEF Remaining
  <1> QED BY <1>1, <1>2, <1>3, <1>4, <1>5 DEF IsSource

\* A label of a block has registers for its parameters.
LEMMA Room ==
    ASSUME NEW label \in Labels, label # ReturnLabel, NEW vs \in Seq(Providers), HasRoom(label, vs)
    PROVE  /\ BlockParams[label] \in Nat /\ BlockParams[label] \in Heads
           /\ BlockParams[label] + Len(vs) <= NRegs
           /\ label # Inside /\ label # FallThrough
  <1>1. BlockParams \in Seq(Nat) BY TransferAssumption
  <1>2. label \in DOMAIN BlockParams BY DEF Labels
  <1>3. label \in 1 .. Len(BlockParams) /\ Len(BlockParams) \in Nat BY <1>1, <1>2
  <1>4. BlockParams[label] \in Nat BY <1>1, <1>3
  <1> QED BY <1>2, <1>3, <1>4 DEF HasRoom, Heads, Inside, FallThrough

\* The registers of a frame at the start.
LEMMA StartTyped == Start \in Frames /\ \A r \in 0 .. NRegs - 1 : Start[r] = r
  <1>1. NRegs \in Nat BY TransferAssumption
  <1> QED BY <1>1 DEF Start, Frames

\* An operand's value at the start.
LEMMA StartValue == ASSUME NEW p \in Providers PROVE Val(Start, provider2reg(p)) = Original(p)
  <1>1. IsReg(p) => p.r \in 0 .. NRegs - 1 BY DEF Providers, IsReg
  <1> QED BY <1>1, OperandValue, StartTyped DEF Original

\* Where Wasm sends control is a label or the end.
LEMMA TargetTyped ==
    ASSUME src \in Sources
    PROVE  /\ src.kind = "sets" => WasmTarget = FallThrough
           /\ WasmTarget \in Labels \/ WasmTarget = FallThrough
           /\ WasmTarget # FallThrough => src.values \in Seq(Providers) /\ HasRoom(WasmTarget, src.values)
           /\ WasmTarget # Inside
  <1>1. CASE src.kind = "sets" BY <1>1 DEF WasmTarget, FallThrough, Inside
  <1>2. CASE src.kind = "return" BY <1>2, Kinds DEF WasmTarget, ReturnLabel, Labels, HasRoom, Inside
  <1>3. \A l \in Labels : l # Inside
    <2>1. BlockParams \in Seq(Nat) BY TransferAssumption
    <2>2. DOMAIN BlockParams = 1 .. Len(BlockParams) BY <2>1
    <2> QED BY <2>2 DEF Labels, ReturnLabel, Inside
  <1>4. FallThrough # Inside BY DEF FallThrough, Inside
  <1>5. CASE src.kind = "br" BY <1>3, <1>5, Kinds DEF WasmTarget
  <1>6. CASE src.kind = "br_if" BY <1>3, <1>4, <1>6, Kinds DEF WasmTarget
  <1>7. CASE src.kind = "br_table"
    <2>1. src.test \in Providers /\ Len(src.targets) \in Nat \ {0} /\ src.values \in Seq(Providers) BY <1>7, Kinds
    <2>2. Original(src.test) \in Nat
      <3>1. NRegs \in Nat BY TransferAssumption
      <3> QED BY <2>1, <3>1 DEF Original, Providers, IsReg
    <2>3. PICK t \in Nat : t = Original(src.test) BY <2>2
    <2>4. PICK n \in Nat : n = Len(src.targets) /\ n # 0 BY <2>1
    <2>5. \E i \in 1 .. n : WasmTarget = src.targets[i]
      <3>1. WasmTarget = IF t + 1 < n THEN src.targets[t + 1] ELSE src.targets[n]
        BY <1>7, <2>3, <2>4 DEF WasmTarget, Last
      <3>2. n \in 1 .. n /\ (t + 1 < n => t + 1 \in 1 .. n) BY <2>3, <2>4
      <3> QED BY <3>1, <3>2
    <2> QED BY <1>3, <1>7, <2>1, <2>4, <2>5, Kinds
  <1> QED BY <1>1, <1>2, <1>5, <1>6, <1>7, Kinds

\* The registers that Wasm has there.
LEMMA WasmIs ==
    ASSUME src \in Sources, regs \in Frames
    PROVE  /\ src.kind = "sets" => WasmRegs = AfterSet(AfterSet(Start, src.into[1], src.values[1]),
                                                       src.into[2], src.values[2])
           /\ src.kind # "sets" /\ WasmTarget \in {FallThrough, ReturnLabel} => WasmRegs = Start
           /\ src.kind # "sets" /\ WasmTarget \notin {FallThrough, ReturnLabel} =>
                WasmRegs = AtOnce(Start, BlockParams[WasmTarget], Regs(src.values))
  <1>1. NRegs \in Nat /\ DOMAIN regs = 0 .. NRegs - 1 BY TransferAssumption DEF Frames
  <1>2. Identity = Start BY <1>1 DEF Identity, Start
  <1>3. CASE src.kind = "sets" BY <1>2, <1>3 DEF WasmRegs
  <1>4. CASE src.kind # "sets" /\ WasmTarget \in {FallThrough, ReturnLabel} BY <1>2, <1>4 DEF WasmRegs
  <1>5. CASE src.kind # "sets" /\ WasmTarget \notin {FallThrough, ReturnLabel}
    <2>1. PICK vs \in Seq(Providers) : vs = src.values BY <1>5, Kinds
    <2>2. PICK head \in Nat : head = BlockParams[WasmTarget] BY <1>5, <2>1, TargetTyped, Room
    <2>3. PICK n \in Nat : n = Len(vs) /\ DOMAIN vs = 1 .. n BY <2>1
    <2>4. WasmRegs = [r \in 0 .. NRegs - 1 |->
                        IF r - head + 1 \in DOMAIN vs THEN Original(vs[r - head + 1]) ELSE r]
      BY <1>1, <1>5, <2>1, <2>2 DEF WasmRegs
    <2>5. PICK cells : cells = Regs(vs) OBVIOUS
    <2>6. Len(cells) = n /\ \A i \in 1 .. n : cells[i] = provider2reg(vs[i]) BY <2>3, <2>5, RegsTyped
    <2>7. ASSUME NEW r \in 0 .. NRegs - 1
          PROVE  (IF r - head + 1 \in DOMAIN vs THEN Original(vs[r - head + 1]) ELSE r) =
                 (IF r \in head .. head + Len(cells) - 1 THEN Val(Start, cells[r - head + 1]) ELSE Start[r])
      <3>1. r \in head .. head + Len(cells) - 1 <=> r - head + 1 \in DOMAIN vs BY <1>1, <2>3, <2>6
      <3>2. CASE r - head + 1 \in DOMAIN vs
        <4>1. PICK i \in 1 .. n : i = r - head + 1 BY <2>3, <3>2
        <4>2. vs[i] \in Providers BY <2>3
        <4>3. Val(Start, cells[i]) = Original(vs[i]) BY <2>6, <4>2, StartValue
        <4> QED BY <3>1, <3>2, <4>1, <4>3
      <3>3. CASE r - head + 1 \notin DOMAIN vs BY <3>1, <3>3, StartTyped
      <3> QED BY <3>2, <3>3
    <2>8. WasmRegs = AtOnce(Start, head, cells) BY <2>4, <2>7 DEF AtOnce
    <2> QED BY <1>5, <2>1, <2>2, <2>5, <2>8
  <1> QED BY <1>3, <1>4, <1>5

\* What Wasm says of an operator does not change.
LEMMA SameWasm ==
    ASSUME src' = src, regs \in Frames, regs' \in Frames
    PROVE  /\ WasmTarget' = WasmTarget /\ WasmRegs' = WasmRegs /\ Originals' = Originals
           /\ Remaining' = Remaining
  <1>1. DOMAIN regs = 0 .. NRegs - 1 /\ DOMAIN regs' = 0 .. NRegs - 1 BY DEF Frames
  <1>2. WasmTarget' = WasmTarget BY DEF WasmTarget
  <1>3. Identity' = Identity BY <1>1 DEF Identity
  <1>4. WasmRegs' = WasmRegs BY <1>1, <1>2, <1>3 DEF WasmRegs
  <1> QED BY <1>2, <1>4 DEF Originals, Remaining

-----------------------------------------------------------------------------
(* Translation preserves the invariant.                                    *)

\* Nothing is translated yet, and nothing has moved.
LEMMA TransferStarts == TransferInit => TransferInv
  <1> SUFFICES ASSUME TransferInit PROVE TransferInv
    OBVIOUS
  <1>1. src \in Sources /\ regs = Start /\ next = 1 /\ ip = 1 /\ at = Inside /\ out = <<>> /\ code = <<>>
        /\ last_instr = 0
    BY DEF TransferInit, Start
  <1>2. Encoded(Now)
    <2>1. Now \in [words : Seq({}), last : Nat] BY <1>1 DEF Now
    <2> QED BY <2>1, Zenon DEF Encoded
  <1>3. Remaining \in {1, 2} BY <1>1, Kinds
  <1>4. Untranslated BY <1>1 DEF Untranslated, Unmoved
  <1> QED BY <1>1, <1>2, <1>3, <1>4, StartTyped DEF TransferInv

\* The state in which an operator that is not an assignment is translated.
LEMMA Fresh ==
    ASSUME TransferInv, next <= Remaining, src.kind # "sets"
    PROVE  /\ code = <<>> /\ Unmoved /\ ip = 1 /\ at = Inside /\ next = 1 /\ Remaining = 1
           /\ Encoded(Now) /\ NotMerged(Now) /\ Len(Now.words) = 0
  <1>1. Untranslated /\ Encoded(Now) /\ Remaining = 1 BY Kinds DEF TransferInv
  <1>2. next = 1 /\ code = <<>> /\ last_instr = 0 BY <1>1 DEF Untranslated
  <1> QED BY <1>1, <1>2 DEF Untranslated, NotMerged, Now

\* The operator is translated.
LEMMA Translates ==
    ASSUME TransferInv, next <= Remaining, NEW c, Encoded(c), NEW n \in Nat, n + 1 > Remaining,
           Emitted(c, n), Ready'
    PROVE  TransferInv'
  <1>1. Untranslated BY DEF TransferInv
  <1>2. at = Inside BY <1>1 DEF Untranslated
  <1>3. /\ src' = src /\ regs' = regs /\ ip' = ip /\ at' = at /\ code' = c.words /\ last_instr' = c.last
        /\ next' = n + 1
    BY DEF Emitted
  <1>4. Now' = c
    <2>1. PICK W : c \in [words : Seq(W), last : Nat] BY DEF Encoded
    <2>2. c = [words |-> c.words, last |-> c.last] BY <2>1
    <2>3. Now' = [words |-> c.words, last |-> c.last] BY <1>3 DEF Now
    <2> QED BY <2>2, <2>3
  <1>5. Encoded(Now)' BY <1>4 DEF Encoded
  <1>6. Remaining' = Remaining BY <1>3 DEF Remaining
  <1>7. Remaining \in {1, 2} BY Kinds DEF TransferInv
  <1>8. ~(next' <= Remaining') /\ next' \in Nat BY <1>3, <1>6, <1>7
  <1> QED BY <1>2, <1>3, <1>5, <1>8 DEF TransferInv

\* A branch, or a return.
LEMMA TranslateBr ==
    ASSUME TransferInv, next <= Remaining, src.kind # "sets", NEW label \in Labels,
           HasRoom(label, src.values), WasmTarget = label, translate_br(label)
    PROVE  TransferInv'
  <1>0. /\ src \in Sources /\ regs \in Frames /\ src.values \in Seq(Providers) BY Kinds DEF TransferInv
  <1>1. /\ code = <<>> /\ Unmoved /\ ip = 1 /\ at = Inside /\ Remaining = 1
        /\ Encoded(Now) /\ NotMerged(Now) /\ Len(Now.words) = 0
    BY Fresh
  <1>2. regs = Start /\ out = <<>> BY <1>1 DEF Unmoved
  <1>3. CASE label = ReturnLabel
    <2>1. PICK c : c = encode_return(Now, src.values) OBVIOUS
    <2>2. Emitted(c, 1) BY <1>3, <2>1 DEF translate_br
    <2>3. ReturnedBy(Now, c, "return", src.values) BY <1>0, <1>1, <2>1, EncodeReturn DEF encode_return
    <2>4. Encoded(c) BY <2>3 DEF ReturnedBy, Extends
    <2>5. ReturnAt(c.words, 1, Len(c.words) + 1, "return", Regs(src.values)) BY <1>1, <2>3 DEF ReturnedBy
    <2>6. src' = src /\ regs' = regs /\ out' = out /\ ip' = ip /\ code' = c.words BY <2>2 DEF Emitted
    <2>7. WasmTarget' = ReturnLabel BY <1>0, <1>3, <2>6, SameWasm
    <2>8. Leaving'
      <3>1. Unmoved' BY <1>2, <2>6 DEF Unmoved, Start
      <3>2. ReturnAt(code', ip', Len(c.words) + 1, "return", Regs(src'.values)) BY <1>1, <2>5, <2>6
      <3> QED BY <2>7, <3>1, <3>2 DEF Leaving
    <2>9. Ready' BY <2>8 DEF Ready
    <2>10. 1 \in Nat /\ 1 + 1 > Remaining BY <1>1
    <2> QED BY <2>2, <2>4, <2>9, <2>10, Translates
  <1>4. CASE label # ReturnLabel
    <2>1. PICK head \in Nat : head = ParamsOf(label) /\ head + Len(src.values) <= NRegs
      BY <1>0, <1>4, Room DEF ParamsOf
    <2>2. label # Inside /\ label # FallThrough BY <1>0, <1>4, Room
    <2>3. PICK d : d = BranchTo(encode_copies(Now, head, src.values), label) OBVIOUS
    <2>4. Emitted(d, 1) BY <1>4, <2>1, <2>3 DEF translate_br
    <2>5. /\ Extends(Now, d)
          /\ Goes(d.words, Len(Now.words) + 1, Start, label, AtOnce(Start, head, Regs(src.values)))
      BY <1>0, <1>1, <1>4, <2>1, <2>2, <2>3, StartTyped, CopiesThenBranch
    <2>6. src' = src /\ regs' = regs /\ out' = out /\ ip' = ip /\ code' = d.words BY <2>4 DEF Emitted
    <2>7. WasmRegs = AtOnce(Start, head, Regs(src.values)) BY <1>0, <1>4, <2>1, <2>2, WasmIs DEF ParamsOf
    <2>8. WasmTarget' = label /\ WasmRegs' = WasmRegs BY <1>0, <2>6, SameWasm
    <2>9. Len(Now.words) + 1 = 1 BY <1>1
    <2>10. Goes(code', ip', regs', WasmTarget', WasmRegs') BY <1>1, <1>2, <2>5, <2>6, <2>7, <2>8, <2>9
    <2>11. Ready' BY <1>2, <2>6, <2>10 DEF Ready, Going
    <2>12. Encoded(d) /\ 1 \in Nat /\ 1 + 1 > Remaining BY <1>1, <2>5 DEF Extends
    <2> QED BY <2>4, <2>11, <2>12, Translates
  <1> QED BY <1>3, <1>4

\* A return.
LEMMA TranslateReturn == ASSUME TransferInv, translate_return PROVE TransferInv'
  <1>1. src.kind = "return" /\ next <= Remaining BY DEF translate_return, Pending
  <1>2. WasmTarget = ReturnLabel BY <1>1 DEF WasmTarget
  <1>3. translate_br(ReturnLabel) BY DEF translate_return, translate_br
  <1>4. ReturnLabel \in Labels /\ HasRoom(ReturnLabel, src.values) BY DEF Labels, HasRoom
  <1> QED BY <1>1, <1>2, <1>3, <1>4, TranslateBr

\* A branch.
LEMMA VisitBr == ASSUME TransferInv, visit_br PROVE TransferInv'
  <1>1. src.kind = "br" /\ next <= Remaining /\ translate_br(src.label) BY DEF visit_br, Pending
  <1>2. WasmTarget = src.label BY <1>1 DEF WasmTarget
  <1>3. src.label \in Labels /\ HasRoom(src.label, src.values) BY <1>1, Kinds DEF TransferInv
  <1> QED BY <1>1, <1>2, <1>3, TranslateBr

\* A table whose branch is known.
LEMMA TableJump == ASSUME TransferInv, translate_br_table_jump PROVE TransferInv'
  <1>1. src.kind = "br_table" /\ next <= Remaining /\ IsJump BY DEF translate_br_table_jump, Pending
  <1>2. PICK n \in Nat : n = Len(src.targets) /\ n # 0 BY <1>1, Kinds DEF TransferInv
  <1>3. src.test \in Providers BY <1>1, Kinds DEF TransferInv
  <1>4. PICK t \in Nat : t = Original(src.test)
    <2>1. NRegs \in Nat BY TransferAssumption
    <2> QED BY <1>3, <2>1 DEF Original, Providers, IsReg
  <1>5. WasmTarget = IF t + 1 < n THEN src.targets[t + 1] ELSE src.targets[n]
    BY <1>1, <1>2, <1>4 DEF WasmTarget, Last
  <1>6. PICK label : label = IF IsReg(src.test) THEN Last(src.targets) ELSE Chosen(src.test.v) OBVIOUS
  <1>7. translate_br(label) BY <1>6 DEF translate_br_table_jump
  <1>8. WasmTarget = label
    <2>1. CASE IsReg(src.test)
      <3>1. label = src.targets[n] BY <1>2, <1>6, <2>1 DEF Last
      <3>2. CASE n = 1
        <4>1. ~(t + 1 < n) BY <3>2
        <4> QED BY <1>5, <3>1, <4>1
      <3>3. CASE \A i \in DOMAIN src.targets : src.targets[i] = Last(src.targets)
        <4>1. DOMAIN src.targets = 1 .. n
          <5>1. src.targets \in Seq(Labels) BY <1>1, Kinds DEF TransferInv
          <5> QED BY <1>2, <5>1
        <4>2. t + 1 < n => t + 1 \in 1 .. n OBVIOUS
        <4>3. t + 1 < n => src.targets[t + 1] = Last(src.targets) BY <3>3, <4>1, <4>2
        <4> QED BY <1>2, <1>5, <3>1, <4>3 DEF Last
      <3> QED BY <1>1, <1>2, <2>1, <3>2, <3>3 DEF IsJump
    <2>2. CASE ~IsReg(src.test)
      <3>1. t = src.test.v BY <1>4, <2>2 DEF Original
      <3>2. label = src.targets[IF t < n THEN t + 1 ELSE n] BY <1>2, <1>6, <2>2, <3>1 DEF Chosen
      <3>3. CASE t + 1 < n
        <4>1. t < n BY <3>3
        <4> QED BY <1>5, <3>2, <3>3, <4>1
      <3>4. CASE ~(t + 1 < n)
        <4>1. (IF t < n THEN t + 1 ELSE n) = n BY <3>4
        <4> QED BY <1>5, <3>2, <3>4, <4>1
      <3> QED BY <3>3, <3>4
    <2> QED BY <2>1, <2>2
  <1>9. \E i \in 1 .. n : label = src.targets[i]
    <2>1. n \in 1 .. n /\ (t + 1 < n => t + 1 \in 1 .. n) BY <1>2
    <2> QED BY <1>5, <1>8, <2>1
  <1>10. label \in Labels /\ HasRoom(label, src.values) BY <1>1, <1>2, <1>9, Kinds DEF TransferInv
  <1> QED BY <1>1, <1>7, <1>8, <1>10, TranslateBr

\* Values that already are the parameters stay.
LEMMA SpanStays ==
    ASSUME NEW rs \in Frames, NEW first \in Nat, NEW vs \in Seq(Providers), first + Len(vs) <= NRegs,
           vs = SpanRegs(first, Len(vs))
    PROVE  AtOnce(rs, first, Regs(vs)) = rs
  <1>1. PICK n \in Nat : n = Len(vs) OBVIOUS
  <1>2. PICK A : A = Regs(vs) OBVIOUS
  <1>3. A \in Seq(Cells) /\ Len(A) = n /\ \A i \in 1 .. n : A[i] = provider2reg(vs[i]) BY <1>1, <1>2, RegsTyped
  <1>4. \A i \in 1 .. n : vs[i] = Reg(first + i - 1) BY <1>1 DEF SpanRegs
  <1>5. \A x : provider2reg(Reg(x)) = Reg(x) BY DEF provider2reg, Reg, IsReg
  <1>6. \A i \in 1 .. n : A[i] = Reg(first + i - 1) BY <1>3, <1>4, <1>5
  <1>7. PICK none : none = <<>> OBVIOUS
  <1>8. none \in Seq(Cells) /\ Len(none) = 0 BY <1>7
  <1>9. Within(none, A, 0, first)
    <2>1. first + Len(A) <= NRegs BY <1>1, <1>3
    <2>2. 0 + Len(none) <= Len(A) BY <1>3, <1>8
    <2>3. \A i \in 1 .. Len(none) : none[i] = A[0 + i] BY <1>8
    <2> QED BY <1>3, <1>6, <1>8, <2>1, <2>2, <2>3 DEF Within
  <1>10. AtOnce(rs, first + 0, none) = AtOnce(rs, first, A) BY <1>9, Trimmed
  <1>11. first + 0 = first OBVIOUS
  <1> QED BY <1>2, <1>7, <1>10, <1>11, Untouched

\* A conditional branch.
LEMMA VisitBrIf == ASSUME TransferInv, visit_br_if PROVE TransferInv'
  <1>0. src.kind = "br_if" /\ next <= Remaining BY DEF visit_br_if, Pending
  <1>1. /\ src \in Sources /\ regs \in Frames /\ src.values \in Seq(Providers) /\ src.test \in Providers
        /\ src.label \in Labels /\ HasRoom(src.label, src.values)
    BY <1>0, Kinds DEF TransferInv
  <1>2. /\ code = <<>> /\ Unmoved /\ ip = 1 /\ at = Inside /\ Remaining = 1
        /\ Encoded(Now) /\ NotMerged(Now) /\ Len(Now.words) = 0
    BY <1>0, Fresh
  <1>3. regs = Start /\ out = <<>> /\ 1 \in Nat /\ 1 + 1 > Remaining BY <1>2 DEF Unmoved
  <1>4. WasmTarget = IF Original(src.test) # 0 THEN src.label ELSE FallThrough BY <1>0 DEF WasmTarget
  <1>5. CASE ~IsReg(src.test) /\ src.test.v # 0
    <2>1. translate_br(src.label) BY <1>5 DEF visit_br_if
    <2>2. WasmTarget = src.label BY <1>4, <1>5 DEF Original
    <2> QED BY <1>0, <1>1, <2>1, <2>2, TranslateBr
  <1>6. CASE ~IsReg(src.test) /\ ~(src.test.v # 0)
    <2>1. Emitted(Now, 1) BY <1>6 DEF visit_br_if
    <2>2. WasmTarget = FallThrough BY <1>4, <1>6 DEF Original
    <2>3. WasmRegs = Start BY <1>0, <1>1, <2>2, WasmIs
    <2>4. src' = src /\ regs' = regs /\ out' = out /\ ip' = ip /\ code' = Now.words BY <2>1 DEF Emitted
    <2>5. WasmTarget' = FallThrough /\ WasmRegs' = Start BY <1>1, <2>2, <2>3, <2>4, SameWasm
    <2>6. ip' > Len(code') BY <1>2, <2>4
    <2>7. FallThrough # ReturnLabel /\ FallThrough # Inside BY DEF FallThrough, ReturnLabel, Inside
    <2>8. Leaves(code', ip', regs', WasmTarget', WasmRegs') BY <1>3, <2>4, <2>5, <2>6, <2>7 DEF Leaves
    <2>9. Ready' BY <1>3, <2>4, <2>8 DEF Ready, Going, Goes
    <2> QED BY <1>0, <1>2, <1>3, <2>1, <2>9, Translates
  <1>7. CASE IsReg(src.test) /\ src.label = ReturnLabel
    <2>1. PICK c : c = encode_return_nez(Now, src.values) OBVIOUS
    <2>2. Emitted(c, 1) BY <1>7, <2>1 DEF visit_br_if
    <2>3. ReturnedBy(Now, c, "return_nez", src.values) BY <1>1, <1>2, <2>1, EncodeReturn DEF encode_return_nez
    <2>4. Encoded(c) BY <2>3 DEF ReturnedBy, Extends
    <2>5. /\ ReturnAt(c.words, 1, Len(c.words) + 1, "return_nez", Regs(src.values))
          /\ c.words[1].cond = src.test
      BY <1>2, <2>3 DEF ReturnedBy
    <2>6. src' = src /\ regs' = regs /\ out' = out /\ ip' = ip /\ code' = c.words BY <2>2 DEF Emitted
    <2>7. MayLeave' BY <1>0, <1>2, <1>3, <1>7, <2>5, <2>6 DEF MayLeave, Unmoved, Start, Instr, IsReg
    <2>8. Ready' BY <2>7 DEF Ready
    <2> QED BY <1>0, <1>3, <2>2, <2>4, <2>8, Translates
  <1>8. CASE IsReg(src.test) /\ src.label # ReturnLabel
    <2>1. PICK head \in Nat : /\ head = ParamsOf(src.label) /\ head = BlockParams[src.label]
                              /\ head + Len(src.values) <= NRegs
      BY <1>1, <1>8, Room DEF ParamsOf
    <2>2. src.label # Inside /\ src.label # FallThrough BY <1>1, <1>8, Room
    <2>3. CASE src.values = SpanRegs(head, Len(src.values))
      <3>1. PICK w : w = [opcode |-> <<"i32", "ne", "branch_imm">>, cond |-> src.test, label |-> src.label] OBVIOUS
      <3>2. w.opcode = <<"i32", "ne", "branch_imm">> /\ w.cond = src.test /\ w.label = src.label BY <3>1
      <3>3. PICK c : c = push_instr(Now, w) OBVIOUS
      <3>4. Emitted(c, 1) BY <1>8, <2>1, <2>3, <3>1, <3>3 DEF visit_br_if, BranchIf
      <3>5. Encoded(c) /\ Len(c.words) = 1 /\ c.words[1] = w
        <4>1. /\ Extends(Now, c) /\ Len(c.words) = Len(Now.words) + 1
              /\ c.words[Len(Now.words) + 1] = w /\ c.last = Len(Now.words) + 1
          BY <1>2, <3>3, Pushed
        <4>2. 0 + 1 = 1 OBVIOUS
        <4>3. Encoded(c) BY <4>1 DEF Extends
        <4> QED BY <1>2, <4>1, <4>2, <4>3
      <3>6. WasmRegs = Start
        <4>1. CASE WasmTarget = FallThrough BY <1>0, <1>1, <4>1, WasmIs
        <4>2. CASE WasmTarget = src.label
          <5>1. WasmRegs = AtOnce(Start, head, Regs(src.values)) BY <1>0, <1>1, <1>8, <2>1, <2>2, <4>2, WasmIs
          <5> QED BY <1>1, <2>1, <2>3, <5>1, StartTyped, SpanStays
        <4> QED BY <1>4, <4>1, <4>2
      <3>7. src' = src /\ regs' = regs /\ out' = out /\ ip' = ip /\ code' = c.words BY <3>4 DEF Emitted
      <3>8. WasmRegs' = Start' BY <1>1, <3>6, <3>7, SameWasm DEF Start
      <3>9. Unmoved' BY <1>3, <3>7 DEF Unmoved, Start
      <3>10. ip' \in 1 .. Len(code') /\ ip' = Len(code') /\ Instr' = w BY <1>2, <3>5, <3>7 DEF Instr
      <3>11. src'.kind = "br_if" /\ IsReg(src'.test) /\ src'.label # ReturnLabel BY <1>0, <1>8, <3>7
      <3>12. MayBranch' BY <3>2, <3>7, <3>8, <3>9, <3>10, <3>11 DEF MayBranch
      <3>13. Ready' BY <3>12 DEF Ready
      <3> QED BY <1>0, <1>3, <3>4, <3>5, <3>13, Translates
    <2>4. CASE src.values # SpanRegs(head, Len(src.values))
      <3>1. PICK w : w = [opcode |-> <<"i32", "eq", "branch_imm">>, cond |-> src.test, label |-> FallThrough] OBVIOUS
      <3>2. w.opcode = <<"i32", "eq", "branch_imm">> /\ w.cond = src.test /\ w.label = FallThrough BY <3>1
      <3>3. PICK c : c = push_instr(Now, w) OBVIOUS
      <3>4. PICK d : d = BranchTo(encode_copies(c, head, src.values), src.label) OBVIOUS
      <3>5. Emitted(d, 1) BY <1>8, <2>1, <2>4, <3>1, <3>3, <3>4 DEF visit_br_if, BranchIf
      <3>6. Encoded(c) /\ Len(c.words) = 1 /\ c.words[1] = w /\ c.last = 1
        <4>1. /\ Extends(Now, c) /\ Len(c.words) = Len(Now.words) + 1
              /\ c.words[Len(Now.words) + 1] = w /\ c.last = Len(Now.words) + 1
          BY <1>2, <3>3, Pushed
        <4>2. 0 + 1 = 1 OBVIOUS
        <4>3. Encoded(c) BY <4>1 DEF Extends
        <4> QED BY <1>2, <4>1, <4>2, <4>3
      <3>7. NotMerged(c) BY <3>2, <3>6 DEF NotMerged
      <3>8. /\ Extends(c, d)
            /\ Goes(d.words, Len(c.words) + 1, Start, src.label, AtOnce(Start, head, Regs(src.values)))
        BY <1>1, <1>8, <2>1, <2>2, <3>4, <3>6, <3>7, StartTyped, CopiesThenBranch
      <3>9. /\ src' = src /\ regs' = regs /\ out' = out /\ ip' = ip /\ code' = d.words BY <3>5 DEF Emitted
      <3>10. Encoded(d) /\ d.words[1] = w /\ Len(d.words) >= 1
        <4>1. 1 \in 1 .. Len(c.words) BY <3>6
        <4> QED BY <3>6, <3>8, <4>1 DEF Extends
      <3>11. 1 \in 1 .. Len(d.words) BY <3>10, EncodedLen
      <3>12. ip' \in 1 .. Len(code') /\ Instr' = w BY <1>2, <3>9, <3>10, <3>11 DEF Instr
      <3>13. WasmTarget' = WasmTarget /\ WasmRegs' = WasmRegs BY <1>1, <3>9, SameWasm
      <3>14. ASSUME src.test.r # 0 PROVE Goes(code', ip' + 1, Start, WasmTarget', WasmRegs')
        <4>1. WasmTarget = src.label BY <1>4, <1>8, <3>14 DEF Original
        <4>2. WasmRegs = AtOnce(Start, head, Regs(src.values)) BY <1>0, <1>1, <1>8, <2>1, <2>2, <4>1, WasmIs
        <4>3. Len(c.words) + 1 = ip' + 1 BY <1>2, <3>6, <3>9
        <4> QED BY <3>8, <3>9, <3>13, <4>1, <4>2, <4>3
      <3>15. Unmoved' BY <1>3, <3>9 DEF Unmoved, Start
      <3>16. src'.kind = "br_if" /\ IsReg(src'.test) /\ src'.label # ReturnLabel BY <1>0, <1>8, <3>9
      <3>17. Start' = Start BY DEF Start
      <3>18. MayBranch' BY <3>2, <3>9, <3>12, <3>14, <3>15, <3>16, <3>17 DEF MayBranch
      <3>19. Ready' BY <3>18 DEF Ready
      <3> QED BY <1>0, <1>3, <3>5, <3>10, <3>19, Translates
    <2> QED BY <2>3, <2>4
  <1> QED BY <1>5, <1>6, <1>7, <1>8

\* An assignment.
LEMMA TranslateSets == ASSUME TransferInv, translate_sets PROVE TransferInv'
  <1>0. src.kind = "sets" /\ next <= Remaining /\ Emitted(encode_copy(Now, src.into[next], src.values[next]), next)
    BY DEF translate_sets, Pending
  <1>1. PICK i1 \in 0 .. NRegs - 1, i2 \in 0 .. NRegs - 1, v1 \in Providers, v2 \in Providers :
          i1 = src.into[1] /\ i2 = src.into[2] /\ v1 = src.values[1] /\ v2 = src.values[2]
    BY <1>0, Kinds DEF TransferInv
  <1>2. src \in Sources /\ regs \in Frames /\ Encoded(Now) /\ Untranslated /\ Remaining = 2
    BY <1>0, Kinds DEF TransferInv
  <1>3. regs = Start /\ out = <<>> /\ ip = 1 /\ at = Inside BY <1>2 DEF Untranslated, Unmoved
  <1>4. PICK d : d = encode_copy(Now, src.into[next], src.values[next]) OBVIOUS
  <1>5. /\ src' = src /\ regs' = regs /\ out' = out /\ ip' = ip /\ at' = at /\ code' = d.words
        /\ last_instr' = d.last /\ next' = next + 1
    BY <1>0, <1>4 DEF Emitted
  <1>6. CASE next = 1
    <2>1. code = <<>> /\ last_instr = 0 BY <1>2, <1>6 DEF Untranslated
    <2>2. Len(Now.words) = 0 /\ merge_copy_instrs(Now, i1, v1) = {} BY <2>1 DEF merge_copy_instrs, Now
    <2>3. d = encode_copy(Now, i1, v1) BY <1>1, <1>4, <1>6
    <2>4. Unchanged(Now, d, i1, v1) \/ Copied1(Now, d, i1, v1) BY <1>2, <2>2, <2>3, EncodeCopy
    <2>5. SetOnce' /\ Encoded(d)
      <3>1. CASE Unchanged(Now, d, i1, v1)
        <4>1. d.words = <<>> /\ d.last = 0 /\ v1 = Reg(i1) BY <2>1, <3>1 DEF Unchanged, Now
        <4> QED BY <1>1, <1>2, <1>5, <3>1, <4>1 DEF SetOnce, Unchanged
      <3>2. CASE Copied1(Now, d, i1, v1)
        <4>1. /\ Extends(Now, d) /\ Len(d.words) = 1 /\ d.last = 1
              /\ CopyAt(d.words, 1, 2, i1, <<provider2reg(v1)>>)
          BY <2>2, <3>2 DEF Copied1
        <4> QED BY <1>1, <1>5, <4>1 DEF SetOnce, Extends
      <3> QED BY <2>4, <3>1, <3>2
    <2>6. next' = 2 /\ src'.kind = "sets" /\ ip' = 1 /\ at' = Inside BY <1>0, <1>3, <1>5, <1>6
    <2>7. Unmoved' BY <1>3, <1>5 DEF Unmoved, Start
    <2>8. Untranslated' BY <2>5, <2>6, <2>7 DEF Untranslated
    <2>9. Remaining' = 2 BY <1>2, <1>5 DEF Remaining
    <2>10. Encoded(Now)'
      <3>1. PICK W : d \in [words : Seq(W), last : Nat] BY <2>5 DEF Encoded
      <3>2. d = [words |-> d.words, last |-> d.last] BY <3>1
      <3>3. Now' = d BY <1>5, <3>2 DEF Now
      <3> QED BY <2>5, <3>3 DEF Encoded
    <2> QED BY <1>2, <1>5, <2>6, <2>8, <2>9, <2>10 DEF TransferInv
  <1>7. CASE next # 1
    <2>1. next = 2 /\ SetOnce BY <1>2, <1>7 DEF Untranslated
    <2>2. d = encode_copy(Now, i2, v2) BY <1>1, <1>4, <2>1
    <2>3. PICK fin : fin = AfterSet(AfterSet(Start, i1, v1), i2, v2) OBVIOUS
    <2>4. WasmRegs = fin /\ WasmTarget = FallThrough BY <1>0, <1>1, <1>2, <2>3, WasmIs, TargetTyped
    <2>5. WasmTarget' = FallThrough /\ WasmRegs' = fin BY <1>2, <1>5, <2>4, SameWasm
    <2>6. FallThrough # ReturnLabel /\ FallThrough # Inside BY DEF FallThrough, ReturnLabel, Inside
    <2>7. PICK mid : mid = AfterSet(Start, i1, v1) OBVIOUS
    <2>8. /\ mid \in Frames /\ AtOnce(Start, i1, <<provider2reg(v1)>>) = mid
          /\ AtOnce(mid, i2, <<provider2reg(v2)>>) = fin
      <3>1. mid \in Frames /\ AtOnce(Start, i1, <<provider2reg(v1)>>) = mid BY <2>7, StartTyped, SetIs
      <3>2. AtOnce(mid, i2, <<provider2reg(v2)>>) = AfterSet(mid, i2, v2) BY <3>1, SetIs
      <3> QED BY <2>3, <2>7, <3>1, <3>2
    <2>u. ASSUME v2 = Reg(i2) PROVE fin = mid
      <3>1. AfterSet(mid, i2, v2) \in Frames /\ \A r \in 0 .. NRegs - 1 : AfterSet(mid, i2, v2)[r] = mid[r]
        <4>1. Val(mid, provider2reg(v2)) = mid[i2] BY <2>u DEF Val, provider2reg, Reg, IsReg
        <4>2. /\ AfterSet(mid, i2, v2) \in Frames
              /\ \A r \in 0 .. NRegs - 1 :
                   AfterSet(mid, i2, v2)[r] = IF r = i2 THEN Val(mid, provider2reg(v2)) ELSE mid[r]
          BY <2>8, SetIs
        <4> QED BY <4>1, <4>2
      <3> QED BY <2>3, <2>7, <2>8, <3>1, SameFrame
    <2>v. ASSUME v1 = Reg(i1) PROVE mid = Start
      <3>1. AfterSet(Start, i1, v1) \in Frames /\ \A r \in 0 .. NRegs - 1 : AfterSet(Start, i1, v1)[r] = Start[r]
        <4>1. Val(Start, provider2reg(v1)) = Start[i1] BY <2>v DEF Val, provider2reg, Reg, IsReg
        <4>2. /\ AfterSet(Start, i1, v1) \in Frames
              /\ \A r \in 0 .. NRegs - 1 :
                   AfterSet(Start, i1, v1)[r] = IF r = i1 THEN Val(Start, provider2reg(v1)) ELSE Start[r]
          <5>1. PICK s \in Frames : s = Start BY StartTyped
          <5>2. /\ AfterSet(s, i1, v1) \in Frames
                /\ \A r \in 0 .. NRegs - 1 :
                     AfterSet(s, i1, v1)[r] = IF r = i1 THEN Val(s, provider2reg(v1)) ELSE s[r]
            BY SetIs
          <5> QED BY <5>1, <5>2
        <4> QED BY <4>1, <4>2
      <3> QED BY <2>7, <2>8, <3>1, StartTyped, SameFrame
    <2>9. Encoded(d) /\ Goes(d.words, 1, Start, FallThrough, fin)
      <3>1. CASE code = <<>> /\ last_instr = 0 /\ v1 = Reg(i1)
        <4>1. Len(Now.words) = 0 /\ merge_copy_instrs(Now, i2, v2) = {} /\ Now.words = <<>>
          BY <3>1 DEF merge_copy_instrs, Now
        <4>2. Unchanged(Now, d, i2, v2) \/ Copied1(Now, d, i2, v2) BY <1>2, <2>2, <4>1, EncodeCopy
        <4>3. CASE Unchanged(Now, d, i2, v2)
          <5>1. d = Now /\ v2 = Reg(i2) BY <4>3 DEF Unchanged
          <5>2. Start = fin BY <2>u, <2>v, <3>1, <5>1
          <5>3. 1 > Len(d.words) BY <4>1, <5>1
          <5>4. Leaves(d.words, 1, Start, FallThrough, fin) BY <2>6, <5>2, <5>3 DEF Leaves
          <5> QED BY <1>2, <5>1, <5>4 DEF Goes
        <4>4. CASE Copied1(Now, d, i2, v2)
          <5>1. Extends(Now, d) /\ Len(d.words) = 1 /\ CopyAt(d.words, 1, 2, i2, <<provider2reg(v2)>>)
            BY <4>1, <4>4 DEF Copied1
          <5>2. mid = Start BY <2>v, <3>1
          <5>3. Leaves(d.words, 2, AtOnce(Start, i2, <<provider2reg(v2)>>), FallThrough, fin)
            BY <2>6, <2>8, <5>1, <5>2 DEF Leaves
          <5>4. Goes1(d.words, 1, Start, FallThrough, fin) BY <5>1, <5>3 DEF Goes1
          <5> QED BY <5>1, <5>4 DEF Goes, Extends
        <4> QED BY <4>2, <4>3, <4>4
      <3>2. CASE Len(code) = 1 /\ last_instr = 1 /\ CopyAt(code, 1, 2, i1, <<provider2reg(v1)>>)
        <4>1. Len(Now.words) = 1 /\ Now.last = 1 /\ CopyAt(Now.words, 1, 2, i1, <<provider2reg(v1)>>)
          BY <3>2 DEF Now
        <4>2. CASE merge_copy_instrs(Now, i2, v2) = {}
          <5>1. Unchanged(Now, d, i2, v2) \/ Copied1(Now, d, i2, v2) BY <1>2, <2>2, <4>2, EncodeCopy
          <5>2. CASE Unchanged(Now, d, i2, v2)
            <6>1. d = Now /\ v2 = Reg(i2) BY <5>2 DEF Unchanged
            <6>2. mid = fin BY <2>u, <6>1
            <6>3. Leaves(d.words, 2, AtOnce(Start, i1, <<provider2reg(v1)>>), FallThrough, fin)
              BY <2>6, <2>8, <4>1, <6>1, <6>2 DEF Leaves
            <6>4. CopyAt(d.words, 1, 2, i1, <<provider2reg(v1)>>) BY <4>1, <6>1
            <6>5. Goes1(d.words, 1, Start, FallThrough, fin) BY <6>3, <6>4 DEF Goes1
            <6> QED BY <1>2, <6>1, <6>5 DEF Goes
          <5>3. CASE Copied1(Now, d, i2, v2)
            <6>1. Extends(Now, d) /\ Len(d.words) = 2 /\ CopyAt(d.words, 2, 3, i2, <<provider2reg(v2)>>)
              <7>1. /\ Extends(Now, d) /\ Len(d.words) = Len(Now.words) + 1
                    /\ CopyAt(d.words, Len(Now.words) + 1, Len(Now.words) + 2, i2, <<provider2reg(v2)>>)
                BY <5>3 DEF Copied1
              <7>2. 1 + 1 = 2 /\ 1 + 2 = 3 OBVIOUS
              <7> QED BY <4>1, <7>1, <7>2
            <6>2. CopyAt(d.words, 1, 2, i1, <<provider2reg(v1)>>) BY <1>2, <4>1, <6>1, CopyStays
            <6>3. Leaves(d.words, 3, AtOnce(mid, i2, <<provider2reg(v2)>>), FallThrough, fin)
              BY <2>6, <2>8, <6>1 DEF Leaves
            <6>4. Goes1(d.words, 2, mid, FallThrough, fin) BY <6>1, <6>3 DEF Goes1
            <6>5. Goes1(d.words, 2, AtOnce(Start, i1, <<provider2reg(v1)>>), FallThrough, fin) BY <2>8, <6>4
            <6>6. Goes2(d.words, 1, Start, FallThrough, fin) BY <6>2, <6>5 DEF Goes2
            <6> QED BY <6>1, <6>6 DEF Goes, Extends
          <5> QED BY <5>1, <5>2, <5>3
        <4>3. CASE merge_copy_instrs(Now, i2, v2) # {}
          <5>1. Merged(encode_copy(Now, i2, v2), LAMBDA rs : AfterSet(AfterSet(rs, i1, v1), i2, v2))
            BY <1>2, <4>1, <4>3, MergedSet
          <5>2. /\ Encoded(d) /\ Len(d.words) = 1
                /\ \E head, cells : /\ CopyAt(d.words, 1, 2, head, cells)
                                    /\ \A rs \in Frames : AtOnce(rs, head, cells) =
                                                          AfterSet(AfterSet(rs, i1, v1), i2, v2)
            BY <2>2, <5>1 DEF Merged
          <5>3. PICK head, cells : CopyAt(d.words, 1, 2, head, cells) /\ AtOnce(Start, head, cells) = fin
            BY <2>3, <5>2, StartTyped
          <5>4. Leaves(d.words, 2, AtOnce(Start, head, cells), FallThrough, fin) BY <2>6, <5>2, <5>3 DEF Leaves
          <5>5. Goes1(d.words, 1, Start, FallThrough, fin) BY <5>3, <5>4 DEF Goes1
          <5> QED BY <5>2, <5>5 DEF Goes
        <4> QED BY <4>2, <4>3
      <3> QED BY <1>1, <2>1, <3>1, <3>2 DEF SetOnce
    <2>10. Goes(code', ip', regs', WasmTarget', WasmRegs') BY <1>3, <1>5, <2>5, <2>9
    <2>11. Ready' BY <1>3, <1>5, <2>10 DEF Ready, Going
    <2>12. 2 \in Nat /\ 2 + 1 > Remaining /\ Emitted(d, 2) BY <1>0, <1>2, <1>4, <2>1
    <2> QED BY <1>0, <2>9, <2>11, <2>12, Translates
  <1> QED BY <1>6, <1>7

-----------------------------------------------------------------------------
(* Tables.                                                                 *)

\* Up to three registers are one word.
LEMMA ShortList ==
    ASSUME NEW ps \in Seq(Providers), Len(ps) \in 1 .. 3
    PROVE  /\ ListLen(ps) = 1 /\ encode_register_list(ps)[1].regs = Regs(ps)
           /\ Len(ps) = 1 => encode_register_list(ps)[1].opcode = Param("register")
  <1>1. PICK R : R = Regs(ps) OBVIOUS
  <1>0. PICK n \in {1, 2, 3} : n = Len(ps) OBVIOUS
  <1>2. R \in Seq(Cells) /\ Len(R) = Len(ps) /\ Len(ps) > 0
    <2>1. Regs(ps) \in Seq(Cells) /\ Len(Regs(ps)) = Len(ps) BY RegsTyped
    <2> QED BY <1>0, <1>1, <2>1
  <1>3. ListLen(ps) = 1
    <2>1. (n + 2) \div 3 = 1
      <3>1. (1 + 2) \div 3 = 1 /\ (2 + 2) \div 3 = 1 /\ (3 + 2) \div 3 = 1 OBVIOUS
      <3> QED BY <1>0, <3>1
    <2> QED BY <1>0, <2>1 DEF ListLen
  <1>4. SubSeq(R, 1, Len(R)) = R BY <1>2
  <1>5. Three(R, 1) = R
    <2>1. 3 * 1 - 2 = 1 /\ (IF 3 * 1 < Len(R) THEN 3 * 1 ELSE Len(R)) = Len(R) BY <1>2
    <2> QED BY <1>4, <2>1 DEF Three
  <1>6. 1 \in 1 .. ListLen(ps) BY <1>3
  <1>7. encode_register_list(ps)[1].regs = R BY <1>1, <1>2, <1>5, <1>6, ListWords
  <1>8. ASSUME Len(ps) = 1 PROVE encode_register_list(ps)[1].opcode = Param("register")
    <2>1. (Len(ps) + 2) \div 3 = 1 BY <1>3 DEF ListLen
    <2>2. PICK b : b = IF 3 * 1 < Len(ps) THEN 3 * 1 ELSE Len(ps) OBVIOUS
    <2>3. b = Len(R) /\ 3 * 1 - 2 = 1 BY <1>2, <1>8, <2>2
    <2>4. SubSeq(R, 3 * 1 - 2, b) = R BY <1>4, <2>3
    <2>5. Len(SubSeq(R, 3 * 1 - 2, b)) = 1 BY <1>2, <1>8, <2>4
    <2>6. 1 \in 1 .. 1 /\ ~(1 < 1) OBVIOUS
    <2> DEFINE Chunk(i) == SubSeq(Regs(ps), 3 * i - 2, IF 3 * i < Len(ps) THEN 3 * i ELSE Len(ps))
               Name(i) == IF i < 1 THEN "register_list"
                          ELSE CASE Len(Chunk(i)) = 1 -> "register" [] Len(Chunk(i)) = 2 -> "register2"
                                 [] Len(Chunk(i)) = 3 -> "register3"
               word(i) == [opcode |-> Param(Name(i)), regs |-> Chunk(i)]
    <2>7. encode_register_list(ps) = [i \in 1 .. 1 |-> word(i)] BY <2>1 DEF encode_register_list
    <2>8. Len(Chunk(1)) = 1 BY <1>1, <2>2, <2>5
    <2> HIDE DEF Chunk
    <2>9. Name(1) = "register"
      <3>1. PICK l \in Nat : l = 1 OBVIOUS
      <3>2. (CASE l = 1 -> "register" [] l = 2 -> "register2" [] l = 3 -> "register3") = "register" BY <3>1
      <3>3. l = Len(Chunk(1)) BY <2>8, <3>1
      <3> QED BY <2>6, <3>2, <3>3
    <2> HIDE DEF Name
    <2>10. word(1).opcode = Param("register") BY <2>9
    <2> HIDE DEF word
    <2>11. encode_register_list(ps)[1] = word(1) BY <2>6, <2>7
    <2> QED BY <2>10, <2>11
  <1> QED BY <1>1, <1>3, <1>7, <1>8

\* The words after the first hold the values.
ParamsHold(params, form) ==
    \A words : 1 + Len(params) <= Len(words) /\ (\A i \in 1 .. Len(params) : words[1 + i] = params[i])
                  => TableValues(words, 1, 1 + Len(params), src.values, form)

\* Targets that are copied one after the other do not clash.
Separated(form, overlapping) ==
    \A k \in 1 .. Len(src.targets) :
       \/ src.targets[k] = ReturnLabel \/ src.targets[k] \in overlapping \/ src.values = <<>>
       \/ form \in {"span", "many"} /\ NoClash(BlockParams[src.targets[k]], Regs(src.values))

\* What the targets that return are given.
ReturnedFor(form, returned) ==
    /\ Len(returned) <= 3 \/ from_providers(returned)
    /\ form = "many" => returned = <<>>
    /\ form # "many" => returned = src.values

TableForms == {"0", "1", "2", "3", "span", "many"}

\* A return of nothing.
LEMMA ReturnNone ==
    ASSUME NEW words, NEW p, ReturnAt(words, p, p + 1, "return", <<>>)
    PROVE  words[p].opcode = <<"return", "none">>
  <1>1. Len(<<>>) = 0 OBVIOUS
  <1>2. \A x : <<x>> # <<>> OBVIOUS
  <1>3. CASE OneWordReturn(words[p], "return", <<>>) BY <1>1, <1>2, <1>3 DEF OneWordReturn
  <1>4. CASE ListReturn(words, p, p + 1, "return", <<>>)
    <2>1. PICK ps \in Seq(Providers) : Len(ps) > 0 /\ p + 1 = p + 1 + ListLen(ps) /\ p \in 1 .. Len(words)
      BY <1>4 DEF ListReturn, ReturnAt
    <2>2. ListLen(ps) \in Nat /\ ListLen(ps) >= 1 BY <2>1, ListWords
    <2> QED BY <2>1, <2>2
  <1> QED BY <1>3, <1>4 DEF ReturnAt

\* A table with its values and targets.
LEMMA TranslateTable ==
    ASSUME TransferInv, src.kind = "br_table", next <= Remaining, ~IsJump,
           NEW form \in TableForms, NEW V, NEW params \in Seq(V), ParamsHold(params, form),
           NEW overlapping, Separated(form, overlapping),
           NEW returned \in Seq(Providers), ReturnedFor(form, returned),
           Emitted(translate_br_table_targets(BranchTable(form, params), returned, overlapping), 1)
    PROVE  TransferInv'
  <1>1. /\ src \in Sources /\ regs \in Frames /\ src.values \in Seq(Providers) /\ src.test \in Providers
        /\ Len(src.targets) \in Nat
    BY Kinds DEF TransferInv
  <1>2. /\ Unmoved /\ ip = 1 /\ Remaining = 1 /\ Encoded(Now) /\ Len(Now.words) = 0 BY Fresh
  <1>3. regs = Start /\ out = <<>> /\ 1 \in Nat /\ 1 + 1 > Remaining BY <1>2 DEF Unmoved
  <1>4. PICK w : w = [opcode |-> <<"branch_table", form>>, index |-> src.test, len |-> Len(src.targets)] OBVIOUS
  <1>5. w.opcode = <<"branch_table", form>> /\ w.index = src.test /\ w.len = Len(src.targets) BY <1>4
  <1>6. PICK e : e = push_instr(Now, w) OBVIOUS
  <1>7. Encoded(e) /\ Len(e.words) = 1 /\ e.words[1] = w
    <2>1. /\ Extends(Now, e) /\ Len(e.words) = Len(Now.words) + 1 /\ e.words[Len(Now.words) + 1] = w
      BY <1>2, <1>6, Pushed
    <2>2. 0 + 1 = 1 OBVIOUS
    <2>3. Encoded(e) BY <2>1 DEF Extends
    <2> QED BY <1>2, <2>1, <2>2, <2>3
  <1>8. PICK c : c = append_instrs(e, params) OBVIOUS
  <1>9. c = BranchTable(form, params) BY <1>4, <1>6, <1>8 DEF BranchTable
  <1>10. /\ Extends(e, c) /\ Len(c.words) = 1 + Len(params)
         /\ \A i \in 1 .. Len(params) : c.words[1 + i] = params[i]
    <2>1. Encoded(e) BY <1>7
    <2>2. /\ Extends(e, append_instrs(e, params))
          /\ Len(append_instrs(e, params).words) = Len(e.words) + Len(params)
          /\ \A i \in 1 .. Len(params) : append_instrs(e, params).words[Len(e.words) + i] = params[i]
      BY <2>1, Appended
    <2> QED BY <1>7, <1>8, <2>2
  <1>11. PICK m \in Nat : m = Len(params) OBVIOUS
  <1>12. c.words[1] = w /\ Encoded(c)
    <2>1. 1 \in 1 .. Len(e.words) BY <1>7
    <2> QED BY <1>7, <1>10, <2>1 DEF Extends
  <1>13. PICK d : d = translate_br_table_targets(c, returned, overlapping) OBVIOUS
  <1>14. Emitted(d, 1) BY <1>9, <1>13
  <1>15. PICK n \in Nat : n = Len(src.targets) BY <1>1
  <1>16. Len(returned) <= 3 \/ from_providers(returned) BY DEF ReturnedFor
  <1>17. TargetsAt(c, d, Len(src.targets), returned, overlapping) BY <1>1, <1>12, <1>13, <1>16, TableTargets
  <1>18. /\ Extends(c, d) /\ Len(d.words) = Len(c.words) + Len(src.targets)
         /\ \A k \in 1 .. Len(src.targets) :
              TargetIs(d.words, Len(c.words) + k, src.targets[k], returned, overlapping)
    BY <1>17 DEF TargetsAt
  <1>19. /\ Len(d.words) = (1 + m) + n
         /\ \A k \in 1 .. n : TargetIs(d.words, (1 + m) + k, src.targets[k], returned, overlapping)
    BY <1>10, <1>11, <1>15, <1>18
  <1>20. \A i \in 1 .. 1 + m : d.words[i] = c.words[i] BY <1>10, <1>11, <1>18 DEF Extends
  <1>21. d.words[1] = w /\ Encoded(d)
    <2>1. 1 \in 1 .. 1 + m BY <1>11
    <2> QED BY <1>12, <1>18, <1>20, <2>1 DEF Extends
  <1>22. TableValues(d.words, 1, 1 + m, src.values, form)
    <2>1. \A i \in 1 .. m : 1 + i \in 1 .. 1 + m BY <1>11
    <2>2. \A i \in 1 .. m : d.words[1 + i] = params[i] BY <1>10, <1>11, <1>20, <2>1
    <2>3. 1 + m <= Len(d.words) BY <1>19
    <2> QED BY <1>11, <2>2, <2>3 DEF ParamsHold
  <1>23. ASSUME NEW k \in 1 .. n
         PROVE  TargetAt(d.words, (1 + m) + k, src.targets[k], src.values, form)
    <2>1. PICK label, p : label = src.targets[k] /\ p = (1 + m) + k OBVIOUS
    <2>2. TargetIs(d.words, p, label, returned, overlapping) BY <1>19, <1>23, <2>1
    <2>3. p \in 1 .. Len(d.words) BY <1>19, <1>23, <2>1
    <2>4. CASE label = ReturnLabel
      <3>1. ReturnAt(d.words, p, p + 1, "return", Regs(returned)) BY <2>2, <2>4 DEF TargetIs
      <3>2. CASE form = "many"
        <4>1. Regs(returned) = <<>> BY <3>2 DEF ReturnedFor, Regs
        <4>2. d.words[p].opcode = <<"return", "none">> BY <3>1, <4>1, ReturnNone
        <4> QED BY <2>1, <2>3, <2>4, <3>2, <4>2 DEF TargetAt
      <3>3. CASE form # "many"
        <4>1. returned = src.values BY <3>3 DEF ReturnedFor
        <4> QED BY <2>1, <2>3, <2>4, <3>1, <3>3, <4>1 DEF TargetAt
      <3> QED BY <3>2, <3>3
    <2>5. CASE label # ReturnLabel
      <3>1. d.words[p] = Target(label, label \in overlapping) BY <2>2, <2>5 DEF TargetIs
      <3>2. CASE src.values = <<>>
        <4>1. d.words[p] = [opcode |-> branch, label |-> label] BY <3>1, <3>2 DEF Target
        <4>2. d.words[p].opcode = branch /\ d.words[p].label = label BY <4>1
        <4> QED BY <2>1, <2>3, <2>5, <3>2, <4>2 DEF TargetAt
      <3>3. CASE src.values # <<>>
        <4>1. PICK x : x = Param(IF label \in overlapping THEN "branch_table_target"
                                 ELSE "branch_table_target_non_overlapping") OBVIOUS
        <4>2. d.words[p] = [opcode |-> x, head |-> ParamsOf(label), label |-> label]
          BY <3>1, <3>3, <4>1 DEF Target
        <4>3. d.words[p].opcode = x /\ d.words[p].head = BlockParams[label] /\ d.words[p].label = label
          BY <4>2 DEF ParamsOf
        <4>4. \/ x = Param("branch_table_target")
              \/ /\ x = Param("branch_table_target_non_overlapping")
                 /\ form \in {"span", "many"} /\ NoClash(BlockParams[label], Regs(src.values))
          BY <1>15, <1>23, <2>1, <2>5, <3>3, <4>1 DEF Separated
        <4> QED BY <2>1, <2>3, <2>5, <3>3, <4>3, <4>4 DEF TargetAt
      <3> QED BY <3>2, <3>3
    <2> QED BY <2>4, <2>5
  <1>24. TableAt(d.words, 1, src.test, src.targets, src.values)
    <2>1. PICK b \in Nat : b = 1 + m BY <1>11
    <2>0. 1 \in 1 .. (1 + m) + n OBVIOUS
    <2>2. 1 \in 1 .. Len(d.words) BY <1>19, <2>0
    <2>3. TableValues(d.words, 1, b, src.values, form) BY <1>22, <2>1
    <2>4. \A k \in 1 .. Len(src.targets) : TargetAt(d.words, b + k, src.targets[k], src.values, form)
      BY <1>15, <1>23, <2>1
    <2>5. d.words[1].opcode = <<"branch_table", form>> BY <1>5, <1>21
    <2>6. form \in {"0", "1", "2", "3", "span", "many"} BY DEF TableForms
    <2> QED BY <1>5, <1>21, <2>2, <2>3, <2>4, <2>5, <2>6 DEF TableAt
  <1>25. src' = src /\ regs' = regs /\ out' = out /\ ip' = ip /\ code' = d.words BY <1>14 DEF Emitted
  <1>26. Unmoved' BY <1>3, <1>25 DEF Unmoved, Start
  <1>27. src'.kind = "br_table" /\ IsReg(src'.test) BY <1>25 DEF IsJump
  <1>28. TableAt(code', ip', src'.test, src'.targets, src'.values) BY <1>2, <1>24, <1>25
  <1>29. AtTable' BY <1>26, <1>27, <1>28 DEF AtTable
  <1>30. Ready' BY <1>29 DEF Ready
  <1> QED BY <1>3, <1>14, <1>21, <1>30, Translates

\* The operands of a table.
LEMMA TableKinds ==
    ASSUME TransferInv, src.kind = "br_table"
    PROVE  /\ src.values \in Seq(Providers) /\ Len(src.values) \in Nat
           /\ src.targets \in Seq(Labels) /\ Len(src.targets) \in Nat
           /\ \A k \in 1 .. Len(src.targets) :
                /\ src.targets[k] \in Labels /\ HasRoom(src.targets[k], src.values)
                /\ src.targets[k] \in Range(src.targets)
  <1>1. /\ src.values \in Seq(Providers) /\ src.targets \in Seq(Labels)
        /\ \A k \in 1 .. Len(src.targets) : src.targets[k] \in Labels /\ HasRoom(src.targets[k], src.values)
    BY Kinds DEF TransferInv
  <1>2. PICK T \in Seq(Labels) : T = src.targets BY <1>1
  <1>3. Len(T) \in Nat /\ \A k \in 1 .. Len(T) : T[k] \in Range(T) BY DEF Range
  <1> QED BY <1>1, <1>2, <1>3

\* Up to three values: the copies of the targets go through a buffer.
LEMMA SimpleTable ==
    ASSUME TransferInv, NEW form \in {"0", "1", "2", "3"}, NEW V, NEW params \in Seq(V),
           Len(src.values) <= 3, src.kind = "br_table" => ParamsHold(params, form), Simple(form, params)
    PROVE  TransferInv'
  <1>1. /\ src.kind = "br_table" /\ next <= Remaining /\ ~IsJump
        /\ Emitted(translate_br_table_targets(BranchTable(form, params), src.values, Range(src.targets)), 1)
    BY DEF Simple, Pending
  <1>2. Separated(form, Range(src.targets)) BY <1>1, TableKinds DEF Separated
  <1>3. ReturnedFor(form, src.values) BY DEF ReturnedFor
  <1>4. form \in TableForms BY DEF TableForms
  <1>5. ParamsHold(params, form) /\ src.values \in Seq(Providers) BY <1>1, TableKinds
  <1> QED BY <1>1, <1>2, <1>3, <1>4, <1>5, TranslateTable

\* A table without values.
LEMMA Table0 == ASSUME TransferInv, translate_br_table_0 PROVE TransferInv'
  <1>1. Len(src.values) = 0 /\ Simple("0", <<>>) BY DEF translate_br_table_0
  <1>2. src.kind = "br_table" BY <1>1 DEF Simple, Pending
  <1>3. PICK params : params = <<>> OBVIOUS
  <1>4. params \in Seq({}) /\ Len(params) = 0 BY <1>3
  <1>5. ParamsHold(params, "0")
    <2>1. src.values = <<>> BY <1>1, <1>2, TableKinds
    <2>2. 1 + Len(params) = 1 BY <1>4
    <2> QED BY <2>1, <2>2 DEF ParamsHold, TableValues
  <1>6. Len(src.values) <= 3 BY <1>1
  <1>7. Simple("0", params) BY <1>1, <1>3
  <1> QED BY <1>4, <1>5, <1>6, <1>7, SimpleTable

\* A table of two or three values.
LEMMA TableFew ==
    ASSUME TransferInv, NEW form \in {"2", "3"}, Len(src.values) \in {2, 3},
           Simple(form, encode_register_list(src.values))
    PROVE  TransferInv'
  <1>1. src.kind = "br_table" BY DEF Simple, Pending
  <1>2. PICK vs \in Seq(Providers) : vs = src.values BY <1>1, TableKinds
  <1>3. Len(vs) \in 1 .. 3 /\ Len(vs) > 0 /\ Len(vs) <= 3 /\ vs # <<>>
    <2>1. PICK n \in {2, 3} : n = Len(vs) BY <1>2
    <2>2. n \in 1 .. 3 /\ n > 0 /\ n <= 3 OBVIOUS
    <2>3. vs = <<>> => Len(vs) = 0 OBVIOUS
    <2> QED BY <2>1, <2>2, <2>3
  <1>4. PICK params : params = encode_register_list(vs) OBVIOUS
  <1>5. \E W : params \in Seq(W) BY <1>3, <1>4, ListWords
  <1>6. ListLen(vs) = 1 /\ params[1].regs = Regs(vs) BY <1>3, <1>4, ShortList
  <1>7. Len(params) = 1 BY <1>3, <1>4, <1>6, ListWords
  <1>8. ParamsHold(params, form)
    <2>1. 1 + Len(params) = 1 + 1 /\ 1 \in 1 .. Len(params) BY <1>7
    <2>2. ASSUME NEW words, \A i \in 1 .. Len(params) : words[1 + i] = params[i]
          PROVE  TableValues(words, 1, 1 + Len(params), src.values, form)
      <3>1. words[1 + 1] = params[1] BY <2>1, <2>2
      <3>2. words[1 + 1].regs = Regs(vs) BY <1>6, <3>1
      <3> QED BY <1>2, <1>3, <2>1, <3>2 DEF TableValues
    <2> QED BY <2>2 DEF ParamsHold
  <1>9. Simple(form, params) /\ Len(src.values) <= 3 BY <1>2, <1>3, <1>4
  <1>10. form \in {"0", "1", "2", "3"} OBVIOUS
  <1> QED BY <1>5, <1>8, <1>9, <1>10, SimpleTable

\* A table of one value, in a register or constant.
LEMMA Table1 == ASSUME TransferInv, translate_br_table_1 PROVE TransferInv'
  <1> DEFINE p == src.values[1]
             name == CASE p.ty = "i64" -> "i64const32" [] p.ty = "f64" -> "f64const32" [] OTHER -> "const32"
             const == [opcode |-> Param(name), form |-> Form32(p), imm |-> Encode32(p)]
             params == IF ~IsReg(p) /\ Fits32(p) THEN <<const>> ELSE encode_register_list(<<p>>)
  <1>1. Len(src.values) = 1 /\ Simple("1", params) BY DEF translate_br_table_1
  <1>2. src.kind = "br_table" BY <1>1 DEF Simple, Pending
  <1>3. PICK vs \in Seq(Providers) : vs = src.values BY <1>2, TableKinds
  <1>4. Len(vs) = 1 /\ Len(vs) \in 1 .. 3 /\ Len(vs) > 0 /\ Len(vs) <= 3 /\ 1 \in 1 .. Len(vs)
    <2>1. Len(vs) = 1 BY <1>1, <1>3
    <2>2. 1 \in 1 .. 3 /\ 1 > 0 /\ 1 <= 3 /\ 1 \in 1 .. 1 OBVIOUS
    <2> QED BY <2>1, <2>2
  <1>5. p \in Providers /\ p = vs[1] BY <1>3, <1>4
  <1>6. vs = <<p>> BY <1>4, <1>5
  <1>7. CASE ~IsReg(p) /\ Fits32(p)
    <2>1. const.form = Form32(p) /\ const.imm = Encode32(p) /\ const.opcode = Param(name) OBVIOUS
    <2>2. name # "register" OBVIOUS
    <2> HIDE DEF p, name, const, params
    <2>3. const.opcode # Param("register") BY <2>1, <2>2 DEF Param
    <2>4. Decode32(const.form, const.imm) = p.v BY <1>5, <1>7, <2>1, Decoded
    <2>5. Regs(vs) = <<[k |-> "const_reg", v |-> p.v]>>
      <3>1. Regs(vs) \in Seq(Cells) /\ Len(Regs(vs)) = Len(vs) /\ Regs(vs)[1] = provider2reg(vs[1])
        BY <1>4, RegsTyped
      <3>2. PICK x : x = [k |-> "const_reg", v |-> p.v] OBVIOUS
      <3>3. Regs(vs)[1] = x BY <1>5, <1>7, <3>1, <3>2, CellOf
      <3>4. Regs(vs) = <<x>> BY <1>4, <3>1, <3>3
      <3> QED BY <3>2, <3>4
    <2>6. PICK ps : ps = <<const>> OBVIOUS
    <2>7. ps \in Seq({const}) /\ Len(ps) = 1 /\ ps[1] = const BY <2>6
    <2>8. ParamsHold(ps, "1")
      <3>1. 1 + Len(ps) = 1 + 1 /\ 1 \in 1 .. Len(ps) BY <2>7
      <3>2. ASSUME NEW words, \A i \in 1 .. Len(ps) : words[1 + i] = ps[i]
            PROVE  TableValues(words, 1, 1 + Len(ps), src.values, "1")
        <4>1. words[1 + 1] = const BY <2>7, <3>1, <3>2
        <4>2. words[1 + 1].opcode # Param("register") BY <2>3, <4>1
        <4>3. Regs(src.values) = <<[k |-> "const_reg", v |-> Decode32(words[1 + 1].form, words[1 + 1].imm)]>>
          BY <1>3, <2>4, <2>5, <4>1
        <4> QED BY <1>1, <3>1, <4>2, <4>3 DEF TableValues
      <3> QED BY <3>2 DEF ParamsHold
    <2>9. Simple("1", ps) /\ Len(src.values) <= 3 BY <1>1, <1>3, <1>4, <1>7, <2>6 DEF params
    <2> QED BY <2>7, <2>8, <2>9, SimpleTable
  <1>8. CASE ~(~IsReg(p) /\ Fits32(p))
    <2>1. PICK ps : ps = encode_register_list(vs) OBVIOUS
    <2>2. Simple("1", ps) BY <1>1, <1>6, <1>8, <2>1
    <2> HIDE DEF p, name, const, params
    <2>3. \E W : ps \in Seq(W) BY <1>4, <2>1, ListWords
    <2>4. ListLen(vs) = 1 /\ ps[1].regs = Regs(vs) /\ ps[1].opcode = Param("register") BY <1>4, <2>1, ShortList
    <2>5. Len(ps) = 1 BY <1>4, <2>1, <2>4, ListWords
    <2>6. ParamsHold(ps, "1")
      <3>1. 1 + Len(ps) = 1 + 1 /\ 1 \in 1 .. Len(ps) BY <2>5
      <3>2. ASSUME NEW words, \A i \in 1 .. Len(ps) : words[1 + i] = ps[i]
            PROVE  TableValues(words, 1, 1 + Len(ps), src.values, "1")
        <4>1. words[1 + 1] = ps[1] BY <3>1, <3>2
        <4>2. words[1 + 1].opcode = Param("register") /\ words[1 + 1].regs = Regs(src.values) BY <1>3, <2>4, <4>1
        <4> QED BY <1>1, <3>1, <4>2 DEF TableValues
      <3> QED BY <3>2 DEF ParamsHold
    <2>7. Len(src.values) <= 3 BY <1>3, <1>4
    <2> QED BY <2>2, <2>3, <2>6, <2>7, SimpleTable
  <1> QED BY <1>7, <1>8

\* A table of registers one after the other.
LEMMA TableSpan == ASSUME TransferInv, translate_br_table_span PROVE TransferInv'
  <1>1. /\ Len(src.values) > 3 /\ from_providers(src.values)
        /\ src.kind = "br_table" /\ next <= Remaining /\ ~IsJump
    BY DEF translate_br_table_span, Pending
  <1>2. PICK vs \in Seq(Providers) : vs = src.values BY <1>1, TableKinds
  <1>3. PICK v, n : v = vs[1].r /\ n = Len(vs) OBVIOUS
  <1>4. PICK S : S = {l \in Range(src.targets) \ {ReturnLabel} : has_overlapping_copy_spans(ParamsOf(l), v, n)}
    OBVIOUS
  <1>5. PICK w : w = [opcode |-> Param("register_span"), regs |-> SpanRegs(v, n)] OBVIOUS
  <1>6. PICK ps : ps = <<w>> OBVIOUS
  <1>7. Emitted(translate_br_table_targets(BranchTable("span", ps), vs, S), 1)
    BY <1>2, <1>3, <1>4, <1>5, <1>6 DEF translate_br_table_span
  <1>8. Len(vs) > 0 /\ vs # <<>> BY <1>1, <1>2
  <1>9. SpanRegs(v, n) = Regs(vs) BY <1>1, <1>2, <1>3, <1>8, SpanIs
  <1>10. ps \in Seq({w}) /\ Len(ps) = 1 /\ ps[1] = w /\ w.regs = Regs(vs) BY <1>5, <1>6, <1>9
  <1>11. ParamsHold(ps, "span")
    <2>1. 1 + Len(ps) = 1 + 1 /\ 1 \in 1 .. Len(ps) BY <1>10
    <2>2. ASSUME NEW words, \A i \in 1 .. Len(ps) : words[1 + i] = ps[i]
          PROVE  TableValues(words, 1, 1 + Len(ps), src.values, "span")
      <3>1. words[1 + 1] = w BY <1>10, <2>1, <2>2
      <3>2. words[1 + 1].regs = Regs(src.values) BY <1>2, <1>10, <3>1
      <3> QED BY <1>2, <1>8, <2>1, <3>2 DEF TableValues
    <2> QED BY <2>2 DEF ParamsHold
  <1>12. Separated("span", S)
    <2> SUFFICES ASSUME NEW k \in 1 .. Len(src.targets), src.targets[k] # ReturnLabel, src.targets[k] \notin S
                 PROVE  NoClash(BlockParams[src.targets[k]], Regs(src.values))
      BY DEF Separated
    <2>1. PICK l : l = src.targets[k] OBVIOUS
    <2>2. l \in Labels /\ HasRoom(l, vs) /\ l \in Range(src.targets) BY <1>1, <1>2, <2>1, TableKinds
    <2>3. PICK head \in Nat : head = BlockParams[l] BY <2>1, <2>2, Room
    <2>4. ~has_overlapping_copy_spans(head, vs[1].r, Len(vs)) BY <1>3, <1>4, <2>1, <2>2, <2>3 DEF ParamsOf
    <2>5. from_providers(vs) BY <1>1, <1>2
    <2>6. NoClash(head, Regs(vs)) BY <1>8, <2>4, <2>5, SpanNoClash
    <2> QED BY <1>2, <2>1, <2>3, <2>6
  <1>13. ReturnedFor("span", vs) BY <1>1, <1>2 DEF ReturnedFor
  <1>14. "span" \in TableForms BY DEF TableForms
  <1> QED BY <1>1, <1>7, <1>10, <1>11, <1>12, <1>13, <1>14, TranslateTable

\* A table of any values.
LEMMA TableMany == ASSUME TransferInv, translate_br_table_many PROVE TransferInv'
  <1>1. /\ Len(src.values) > 3
        /\ src.kind = "br_table" /\ next <= Remaining /\ ~IsJump
    BY DEF translate_br_table_many, Pending
  <1>2. PICK vs \in Seq(Providers) : vs = src.values BY <1>1, TableKinds
  <1>3. PICK S : S = {l \in Range(src.targets) \ {ReturnLabel} : has_overlapping_copies(ParamsOf(l), vs)}
    OBVIOUS
  <1>4. PICK ps : ps = encode_register_list(vs) OBVIOUS
  <1>5. PICK none : none = <<>> OBVIOUS
  <1>6. Emitted(translate_br_table_targets(BranchTable("many", ps), none, S), 1)
    BY <1>2, <1>3, <1>4, <1>5 DEF translate_br_table_many
  <1>7. Len(vs) > 0 /\ vs # <<>> BY <1>1, <1>2
  <1>8. PICK m \in Nat : m = ListLen(vs) /\ m >= 1 BY <1>7, ListWords
  <1>9. (\E W : ps \in Seq(W)) /\ Len(ps) = m BY <1>4, <1>7, <1>8, ListWords
  <1>10. ParamsHold(ps, "many")
    <2>1. ASSUME NEW words, 1 + Len(ps) <= Len(words), \A i \in 1 .. Len(ps) : words[1 + i] = ps[i]
          PROVE  TableValues(words, 1, 1 + Len(ps), src.values, "many")
      <3>1. (1 + 1) + ListLen(vs) - 1 <= Len(words)
        <4>1. (1 + 1) + m - 1 = 1 + m BY <1>8
        <4> QED BY <1>8, <1>9, <2>1, <4>1
      <3>2. \A i \in 1 .. m : (1 + 1) + i - 1 = 1 + i OBVIOUS
      <3>3. \A i \in 1 .. m : words[(1 + 1) + i - 1] = encode_register_list(vs)[i] BY <1>4, <1>9, <2>1, <3>2
      <3>4. ListAt(words, 1 + 1, vs) BY <1>8, <3>1, <3>3 DEF ListAt
      <3>5. 1 + Len(ps) = 1 + ListLen(vs) BY <1>8, <1>9
      <3> QED BY <1>2, <1>7, <3>4, <3>5 DEF TableValues
    <2> QED BY <2>1 DEF ParamsHold
  <1>11. Separated("many", S)
    <2> SUFFICES ASSUME NEW k \in 1 .. Len(src.targets), src.targets[k] # ReturnLabel, src.targets[k] \notin S
                 PROVE  NoClash(BlockParams[src.targets[k]], Regs(src.values))
      BY DEF Separated
    <2>1. PICK l : l = src.targets[k] OBVIOUS
    <2>2. l \in Labels /\ HasRoom(l, vs) /\ l \in Range(src.targets) BY <1>1, <1>2, <2>1, TableKinds
    <2>3. PICK head \in Nat : head = BlockParams[l] BY <2>1, <2>2, Room
    <2>4. ~has_overlapping_copies(head, vs) BY <1>3, <2>1, <2>2, <2>3 DEF ParamsOf
    <2>5. NoClash(head, Regs(vs)) BY <2>4, ManyNoClash
    <2> QED BY <1>2, <2>1, <2>3, <2>5
  <1>12. none \in Seq(Providers) /\ Len(none) <= 3 BY <1>5
  <1>13. ReturnedFor("many", none) BY <1>5, <1>12 DEF ReturnedFor
  <1>14. "many" \in TableForms BY DEF TableForms
  <1> QED BY <1>1, <1>6, <1>9, <1>10, <1>11, <1>12, <1>13, <1>14, TranslateTable

-----------------------------------------------------------------------------
(* Execution: what the instruction at ip is.                               *)

\* The family of the instruction that begins what stands at a position.
LEMMA Families ==
    ASSUME NEW words, NEW p
    PROVE  /\ \A q, head, cells : CopyAt(words, p, q, head, cells) => words[p].opcode[1] = "copy"
           /\ \A q, family, cells : ReturnAt(words, p, q, family, cells) => words[p].opcode[1] = family
           /\ \A rs, t, w : Leaves(words, p, rs, t, w) /\ p \in 1 .. Len(words) =>
                words[p].opcode[1] = "branch" /\ words[p].label = t
  <1>1. \A x, y : <<x, y>>[1] = x OBVIOUS
  <1>2. ASSUME NEW q, NEW head, NEW cells, CopyAt(words, p, q, head, cells) PROVE words[p].opcode[1] = "copy"
    <2>1. \E y : words[p].opcode = <<"copy", y>> BY <1>2 DEF CopyAt, OneWordCopy, ListCopy
    <2> QED BY <1>1, <2>1
  <1>3. ASSUME NEW q, NEW family, NEW cells, ReturnAt(words, p, q, family, cells)
        PROVE  words[p].opcode[1] = family
    <2>1. \E y : words[p].opcode = <<family, y>> BY <1>3 DEF ReturnAt, OneWordReturn, ListReturn
    <2> QED BY <1>1, <2>1
  <1>4. ASSUME NEW rs, NEW t, NEW w, Leaves(words, p, rs, t, w), p \in 1 .. Len(words)
        PROVE  words[p].opcode[1] = "branch" /\ words[p].label = t
    <2>1. ~(p > Len(words)) BY <1>4
    <2> QED BY <1>4, <2>1 DEF Leaves, branch
  <1> QED BY <1>2, <1>3, <1>4

\* The code is a sequence.
LEMMA CodeTyped == ASSUME TransferInv PROVE (\E W : code \in Seq(W)) /\ Len(code) \in Nat
  <1>1. PICK W : Now \in [words : Seq(W), last : Nat] BY DEF TransferInv, Encoded
  <1>2. code \in Seq(W) BY <1>1 DEF Now
  <1> QED BY <1>2

\* Which part of the invariant speaks of the instruction that runs.
LEMMA WhichReady ==
    ASSUME TransferInv, NEW arms, Runs(arms)
    PROVE  /\ next > Remaining /\ at = Inside /\ ip \in 1 .. Len(code) /\ ip \in Nat /\ Instr.opcode \in arms
           /\ Instr.opcode[1] = "copy" =>
                /\ out = <<>>
                /\ \/ Goes1(code, ip, regs, WasmTarget, WasmRegs)
                   \/ Goes2(code, ip, regs, WasmTarget, WasmRegs)
           /\ Instr.opcode[1] = "branch" => out = <<>> /\ Leaves(code, ip, regs, WasmTarget, WasmRegs)
           /\ Instr.opcode[1] = "return" => Leaving \/ LeavingTable
           /\ Instr.opcode[1] = "return_nez" => MayLeave
           /\ Instr.opcode[1] = "i32" => MayBranch
           /\ Instr.opcode[1] = "branch_table" => AtTable
  <1>1. next > Remaining /\ at = Inside /\ ip \in DOMAIN code /\ Instr.opcode \in arms BY DEF Runs
  <1>2. PICK W : code \in Seq(W) BY CodeTyped
  <1>3. ip \in 1 .. Len(code) /\ ip \in Nat BY <1>1, <1>2 DEF TransferInv
  <1>4. Ready BY <1>1 DEF TransferInv
  <1>5. CASE Going
    <2>1. out = <<>> /\ Goes(code, ip, regs, WasmTarget, WasmRegs) BY <1>5 DEF Going
    <2>2. CASE Leaves(code, ip, regs, WasmTarget, WasmRegs)
      <3>1. Instr.opcode[1] = "branch" BY <1>3, <2>2, Families DEF Instr
      <3> QED BY <1>1, <1>3, <2>1, <2>2, <3>1
    <2>3. CASE Goes1(code, ip, regs, WasmTarget, WasmRegs)
      <3>1. Instr.opcode[1] = "copy" BY <2>3, Families DEF Instr, Goes1
      <3> QED BY <1>1, <1>3, <2>1, <2>3, <3>1
    <2>4. CASE Goes2(code, ip, regs, WasmTarget, WasmRegs)
      <3>1. Instr.opcode[1] = "copy" BY <2>4, Families DEF Instr, Goes2
      <3> QED BY <1>1, <1>3, <2>1, <2>4, <3>1
    <2> QED BY <2>1, <2>2, <2>3, <2>4 DEF Goes
  <1>6. CASE Leaving
    <2>1. Instr.opcode[1] = "return" BY <1>6, Families DEF Instr, Leaving
    <2> QED BY <1>1, <1>3, <1>6, <2>1
  <1>7. CASE LeavingTable
    <2>1. Instr.opcode[1] = "return" BY <1>7 DEF LeavingTable
    <2> QED BY <1>1, <1>3, <1>7, <2>1
  <1>8. CASE MayLeave
    <2>1. Instr.opcode[1] = "return_nez" BY <1>8, Families DEF Instr, MayLeave
    <2> QED BY <1>1, <1>3, <1>8, <2>1
  <1>9. CASE MayBranch
    <2>1. Instr.opcode[1] = "i32" BY <1>9 DEF MayBranch
    <2> QED BY <1>1, <1>3, <1>9, <2>1
  <1>10. CASE AtTable
    <2>1. Instr.opcode[1] = "branch_table" BY <1>10 DEF AtTable, TableAt, Instr
    <2> QED BY <1>1, <1>3, <1>10, <2>1
  <1> QED BY <1>4, <1>5, <1>6, <1>7, <1>8, <1>9, <1>10 DEF Ready

\* The instruction passes control to another word.
LEMMA StillInside ==
    ASSUME TransferInv, next > Remaining, at = Inside, UNCHANGED <<src, next, code, last_instr, at>>,
           regs' \in Frames, ip' \in Nat \ {0}, Ready'
    PROVE  TransferInv'
  <1>1. src' = src /\ next' = next /\ code' = code /\ last_instr' = last_instr /\ at' = at OBVIOUS
  <1>2. Now' = Now BY <1>1 DEF Now
  <1>3. Encoded(Now)' BY <1>2 DEF TransferInv, Encoded
  <1>4. Remaining' = Remaining BY <1>1 DEF Remaining
  <1>5. Remaining \in {1, 2} BY Kinds DEF TransferInv
  <1>6. ~(next' <= Remaining') /\ next' \in Nat BY <1>1, <1>4, <1>5 DEF TransferInv
  <1> QED BY <1>1, <1>3, <1>6 DEF TransferInv

\* The instruction passes control to a label, or returns.
LEMMA Arrives ==
    ASSUME TransferInv, next > Remaining, UNCHANGED <<src, next, code, last_instr>>,
           regs' \in Frames, ip' \in Nat \ {0}, at' # Inside, Arrived'
    PROVE  TransferInv'
  <1>1. src' = src /\ next' = next /\ code' = code /\ last_instr' = last_instr OBVIOUS
  <1>2. Now' = Now BY <1>1 DEF Now
  <1>3. Encoded(Now)' BY <1>2 DEF TransferInv, Encoded
  <1>4. Remaining' = Remaining BY <1>1 DEF Remaining
  <1>5. Remaining \in {1, 2} BY Kinds DEF TransferInv
  <1>6. ~(next' <= Remaining') /\ next' \in Nat /\ next' > Remaining' BY <1>1, <1>4, <1>5 DEF TransferInv
  <1> QED BY <1>1, <1>3, <1>6 DEF TransferInv

-----------------------------------------------------------------------------
(* Execution: copies.                                                      *)

\* A copy that moves its values at once preserves the invariant.
LEMMA CopyMoves ==
    ASSUME TransferInv, NEW arms, Runs(arms), Instr.opcode[1] = "copy",
           \A q, head, cells : CopyAt(code, ip, q, head, cells) => Copied(AtOnce(regs, head, cells), q)
    PROVE  TransferInv'
  <1>1. /\ next > Remaining /\ at = Inside /\ ip \in Nat /\ out = <<>>
        /\ \/ Goes1(code, ip, regs, WasmTarget, WasmRegs)
           \/ Goes2(code, ip, regs, WasmTarget, WasmRegs)
    BY WhichReady
  <1>2. ASSUME NEW q, NEW head, NEW cells, CopyAt(code, ip, q, head, cells)
        PROVE  /\ regs' = AtOnce(regs, head, cells) /\ regs' \in Frames /\ ip' = q /\ q \in Nat \ {0}
               /\ out' = <<>> /\ code' = code /\ WasmTarget' = WasmTarget /\ WasmRegs' = WasmRegs
               /\ UNCHANGED <<src, next, code, last_instr, at>>
    <2>1. Copied(AtOnce(regs, head, cells), q) BY <1>2
    <2>2. head \in Nat /\ cells \in Seq(Cells) /\ head + Len(cells) <= NRegs BY <1>2 DEF CopyAt
    <2>3. regs \in Frames BY DEF TransferInv
    <2>4. AtOnce(regs, head, cells) \in Frames BY <2>2, <2>3, AtOnceTyped
    <2>5. q \in Nat \ {0}
      <3>1. CASE q = ip + 1 BY <1>1, <3>1
      <3>2. CASE ListCopy(code, ip, q, head, cells)
        <4>1. PICK ps \in Seq(Providers) : Len(ps) > 0 /\ q = ip + 1 + ListLen(ps) BY <3>2 DEF ListCopy
        <4>2. ListLen(ps) \in Nat BY <4>1, ListWords
        <4> QED BY <1>1, <4>1, <4>2
      <3> QED BY <1>2, <3>1, <3>2 DEF CopyAt
    <2>6. regs' = AtOnce(regs, head, cells) /\ ip' = q /\ out' = out /\ src' = src /\ code' = code BY <2>1 DEF Copied
    <2>7. WasmTarget' = WasmTarget /\ WasmRegs' = WasmRegs BY <2>3, <2>4, <2>6, SameWasm
    <2>8. UNCHANGED <<src, next, code, last_instr, at>> BY <2>1 DEF Copied
    <2> QED BY <1>1, <2>4, <2>5, <2>6, <2>7, <2>8
  <1>3. CASE Goes1(code, ip, regs, WasmTarget, WasmRegs)
    <2>1. PICK q, head, cells : /\ CopyAt(code, ip, q, head, cells)
                                /\ Leaves(code, q, AtOnce(regs, head, cells), WasmTarget, WasmRegs)
      BY <1>3 DEF Goes1
    <2>2. Leaves(code', ip', regs', WasmTarget', WasmRegs') BY <1>2, <2>1
    <2>3. Ready' BY <1>2, <2>1, <2>2 DEF Ready, Going, Goes
    <2>4. regs' \in Frames /\ ip' \in Nat \ {0} /\ UNCHANGED <<src, next, code, last_instr, at>> BY <1>2, <2>1
    <2> QED BY <1>1, <2>3, <2>4, StillInside
  <1>4. CASE Goes2(code, ip, regs, WasmTarget, WasmRegs)
    <2>1. PICK q, head, cells : /\ CopyAt(code, ip, q, head, cells)
                                /\ Goes1(code, q, AtOnce(regs, head, cells), WasmTarget, WasmRegs)
      BY <1>4 DEF Goes2
    <2>2. Goes1(code', ip', regs', WasmTarget', WasmRegs') BY <1>2, <2>1
    <2>3. Ready' BY <1>2, <2>1, <2>2 DEF Ready, Going, Goes
    <2>4. regs' \in Frames /\ ip' \in Nat \ {0} /\ UNCHANGED <<src, next, code, last_instr, at>> BY <1>2, <2>1
    <2> QED BY <1>1, <2>3, <2>4, StillInside
  <1> QED BY <1>1, <1>3, <1>4

\* One value.
LEMMA OneAtOnce ==
    ASSUME NEW rs \in Frames, NEW head \in Nat, NEW cells \in Seq(Cells), Len(cells) = 1, head + 1 <= NRegs
    PROVE  AtOnce(rs, head, cells) = [rs EXCEPT ![head] = Val(rs, cells[1])]
  <1>0. NRegs \in Nat /\ head + Len(cells) <= NRegs BY TransferAssumption
  <1>1. cells[1] \in Cells
    <2>1. 1 \in 1 .. Len(cells) OBVIOUS
    <2> QED BY <2>1, ElementOfSeq
  <1>2. PICK x \in Nat : x = Val(rs, cells[1]) BY <1>1, CellValue
  <1>3. PICK f : f = [rs EXCEPT ![head] = x] OBVIOUS
  <1>4. f \in Frames /\ \A r \in 0 .. NRegs - 1 : f[r] = IF r = head THEN x ELSE rs[r] BY <1>3 DEF Frames
  <1>5. AtOnce(rs, head, cells) \in Frames BY <1>0, AtOnceTyped
  <1>6. ASSUME NEW r \in 0 .. NRegs - 1 PROVE AtOnce(rs, head, cells)[r] = f[r]
    <2>1. r \in head .. head + Len(cells) - 1 <=> r = head BY <1>0
    <2>2. AtOnce(rs, head, cells)[r] =
            IF r \in head .. head + Len(cells) - 1 THEN Val(rs, cells[r - head + 1]) ELSE rs[r]
      BY DEF AtOnce
    <2>3. CASE r = head
      <3>1. r - head + 1 = 1 BY <1>0, <2>3
      <3> QED BY <1>2, <1>4, <2>1, <2>2, <2>3, <3>1
    <2>4. CASE r # head BY <1>4, <2>1, <2>2, <2>4
    <2> QED BY <2>3, <2>4
  <1> QED BY <1>2, <1>3, <1>4, <1>5, <1>6, SameFrame

\* The cells of the instruction and of the list that follows it.
Listed(q, cells) ==
    \E ps \in Seq(Providers) :
       /\ Len(ps) > 0 /\ ListAt(code, ip + 1, ps) /\ q = ip + 1 + ListLen(ps)
       /\ cells = Instr.values \o Regs(ps)

\* The copy at ip by its form.
LEMMA CopyForms ==
    ASSUME NEW q, NEW head, NEW cells, CopyAt(code, ip, q, head, cells)
    PROVE  /\ Instr.result = head /\ head \in Nat /\ cells \in Seq(Cells) /\ head + Len(cells) <= NRegs
           /\ Instr.opcode[2] = "reg" => Len(cells) = 1 /\ Instr.values = cells /\ q = ip + 1
           /\ Instr.opcode[2] = "2" => Len(cells) = 2 /\ Instr.values = cells /\ q = ip + 1
           /\ Instr.opcode[2] \in Forms32 =>
                /\ cells = <<[k |-> "const_reg", v |-> Decode32(Instr.opcode[2], Instr.imm)]>>
                /\ q = ip + 1
           /\ Instr.opcode[2] = "span" => Instr.values = cells /\ q = ip + 1
           /\ Instr.opcode[2] = "span_non_overlapping" =>
                Instr.values = cells /\ NoClash(head, cells) /\ q = ip + 1
           /\ Instr.opcode[2] \in {"many", "many_non_overlapping"} => Listed(q, cells)
           /\ Instr.opcode[2] = "many_non_overlapping" => NoClash(head, cells)
  <1>0. \A x, y : <<x, y>>[2] = y OBVIOUS
  <1>1. /\ Instr.result = head /\ head \in Nat /\ cells \in Seq(Cells) /\ head + Len(cells) <= NRegs
        /\ \/ OneWordCopy(Instr, head, cells) /\ q = ip + 1
           \/ ListCopy(code, ip, q, head, cells)
    BY DEF CopyAt, Instr
  <1>2. PICK w : w = Instr OBVIOUS
  <1>3. CASE OneWordCopy(Instr, head, cells) /\ q = ip + 1
    <2>1. \/ w.opcode[2] = "reg" /\ Len(cells) = 1 /\ w.values = cells
          \/ w.opcode[2] = "2" /\ Len(cells) = 2 /\ w.values = cells
          \/ w.opcode[2] \in Forms32 /\ cells = <<[k |-> "const_reg", v |-> Decode32(w.opcode[2], w.imm)]>>
          \/ w.opcode[2] = "span" /\ w.values = cells
          \/ w.opcode[2] = "span_non_overlapping" /\ w.values = cells /\ NoClash(head, cells)
      BY <1>0, <1>2, <1>3 DEF OneWordCopy
    <2> QED BY <1>1, <1>2, <1>3, <2>1 DEF Forms32
  <1>4. CASE ListCopy(code, ip, q, head, cells)
    <2>1. \/ w.opcode[2] = "many"
          \/ w.opcode[2] = "many_non_overlapping" /\ NoClash(head, cells)
      BY <1>0, <1>2, <1>4 DEF ListCopy, Instr
    <2>2. Listed(q, cells) BY <1>4 DEF ListCopy, Listed, Instr
    <2> QED BY <1>1, <1>2, <2>1, <2>2 DEF Forms32
  <1> QED BY <1>1, <1>3, <1>4

\* A copy runs.
LEMMA CopyRuns ==
    ASSUME TransferInv, NEW form, RunsCopy(form)
    PROVE  /\ \E arms : Runs(arms)
           /\ Instr.opcode[1] = "copy" /\ Instr.opcode[2] = form /\ regs \in Frames
           /\ ip \in Nat /\ ip >= 1 /\ \E W : code \in Seq(W)
  <1>1. Runs(execute_copy_arms \cap execute_instr_copy_arms) /\ Instr.opcode[2] = form BY DEF RunsCopy
  <1>2. Instr.opcode \in copies BY <1>1 DEF Runs, execute_copy_arms
  <1>3. Instr.opcode[1] = "copy" BY <1>2 DEF copies
  <1>4. \E arms : Runs(arms) BY <1>1
  <1> QED BY <1>1, <1>3, <1>4, CodeTyped DEF TransferInv

\* One register.
LEMMA ExecuteCopy == ASSUME TransferInv, execute_copy PROVE TransferInv'
  <1>1. RunsCopy("reg") /\ Copied([regs EXCEPT ![Instr.result] = get_register(Instr.values[1])], ip + 1)
    BY DEF execute_copy
  <1>2. Instr.opcode[2] = "reg" /\ regs \in Frames BY <1>1, CopyRuns
  <1>3. ASSUME NEW q, NEW head, NEW cells, CopyAt(code, ip, q, head, cells)
        PROVE  Copied(AtOnce(regs, head, cells), q)
    <2>1. /\ Instr.result = head /\ head \in Nat /\ cells \in Seq(Cells) /\ head + Len(cells) <= NRegs
          /\ Len(cells) = 1 /\ Instr.values = cells /\ q = ip + 1
      BY <1>2, <1>3, CopyForms
    <2>2. AtOnce(regs, head, cells) = [regs EXCEPT ![head] = Val(regs, cells[1])]
      BY <1>2, <2>1, OneAtOnce
    <2>3. get_register(Instr.values[1]) = Val(regs, cells[1]) BY <2>1 DEF get_register, Val
    <2> QED BY <1>1, <2>1, <2>2, <2>3
  <1> QED BY <1>1, <1>3, CopyRuns, CopyMoves

\* Two registers: the second value is read before the first is written.
LEMMA ExecuteCopy2 == ASSUME TransferInv, execute_copy_2 PROVE TransferInv'
  <1>1. /\ RunsCopy("2")
        /\ Copied([regs EXCEPT ![Instr.result] = get_register(Instr.values[1]),
                               ![Instr.result + 1] = get_register(Instr.values[2])], ip + 1)
    BY DEF execute_copy_2
  <1>2. Instr.opcode[2] = "2" /\ regs \in Frames BY <1>1, CopyRuns
  <1>3. ASSUME NEW q, NEW head, NEW cells, CopyAt(code, ip, q, head, cells)
        PROVE  Copied(AtOnce(regs, head, cells), q)
    <2>1. /\ Instr.result = head /\ head \in Nat /\ cells \in Seq(Cells) /\ head + Len(cells) <= NRegs
          /\ Len(cells) = 2 /\ Instr.values = cells /\ q = ip + 1
      BY <1>2, <1>3, CopyForms
    <2>2. NRegs \in Nat /\ head + 2 <= NRegs BY <2>1, TransferAssumption
    <2>3. PICK x \in Cells, y \in Cells : x = cells[1] /\ y = cells[2]
      <3>1. 1 \in 1 .. Len(cells) /\ 2 \in 1 .. Len(cells) BY <2>1
      <3>2. cells \in Seq(Cells) BY <2>1
      <3>3. cells[1] \in Cells /\ cells[2] \in Cells BY <3>1, <3>2, ElementOfSeq
      <3> QED BY <3>3
    <2>4. cells = <<x, y>> BY <2>1, <2>3
    <2>5. PICK a \in Nat, b \in Nat : a = Val(regs, x) /\ b = Val(regs, y) BY <1>2, CellValue
    <2>6. get_register(Instr.values[1]) = a /\ get_register(Instr.values[2]) = b
      BY <2>1, <2>3, <2>5 DEF get_register, Val
    <2>7. PICK f : f = [regs EXCEPT ![head] = a, ![head + 1] = b] OBVIOUS
    <2>8. f \in Frames /\ \A r \in 0 .. NRegs - 1 :
                             f[r] = IF r = head THEN a ELSE IF r = head + 1 THEN b ELSE regs[r]
      <3>1. PICK g : g = [regs EXCEPT ![head] = a] OBVIOUS
      <3>2. g \in Frames /\ \A r \in 0 .. NRegs - 1 : g[r] = IF r = head THEN a ELSE regs[r]
        BY <1>2, <3>1 DEF Frames
      <3>3. f = [g EXCEPT ![head + 1] = b] BY <2>7, <3>1
      <3>4. f \in Frames /\ \A r \in 0 .. NRegs - 1 : f[r] = IF r = head + 1 THEN b ELSE g[r]
        BY <3>2, <3>3 DEF Frames
      <3>5. head # head + 1 BY <2>1
      <3> QED BY <3>2, <3>4, <3>5
    <2>9. /\ AtOnce(regs, head, <<x, y>>) \in Frames
          /\ \A r \in 0 .. NRegs - 1 :
               AtOnce(regs, head, <<x, y>>)[r] = IF r = head THEN Val(regs, x)
                                                 ELSE IF r = head + 1 THEN Val(regs, y) ELSE regs[r]
      BY <1>2, <2>1, <2>2, TwoAtOnce
    <2>10. PICK h : h = AtOnce(regs, head, cells) OBVIOUS
    <2>11. h \in Frames /\ \A r \in 0 .. NRegs - 1 : h[r] = IF r = head THEN a ELSE IF r = head + 1 THEN b ELSE regs[r]
      BY <2>4, <2>5, <2>9, <2>10
    <2>12. \A r \in 0 .. NRegs - 1 : f[r] = h[r] BY <2>8, <2>11
    <2>13. f = h BY <2>8, <2>11, <2>12, SameFrame
    <2> QED BY <1>1, <2>1, <2>6, <2>7, <2>10, <2>13
  <1> QED BY <1>1, <1>3, CopyRuns, CopyMoves

\* A constant in the instruction.
LEMMA ExecuteCopyImm == ASSUME TransferInv, execute_copy_imm PROVE TransferInv'
  <1>1. PICK form \in {"imm32", "i64imm32", "f64imm32"} :
          RunsCopy(form) /\ Copied([regs EXCEPT ![Instr.result] = Decode32(form, Instr.imm)], ip + 1)
    BY DEF execute_copy_imm
  <1>2. Instr.opcode[2] = form /\ regs \in Frames /\ form \in Forms32 BY <1>1, CopyRuns DEF Forms32
  <1>3. ASSUME NEW q, NEW head, NEW cells, CopyAt(code, ip, q, head, cells)
        PROVE  Copied(AtOnce(regs, head, cells), q)
    <2>1. PICK x : x = [k |-> "const_reg", v |-> Decode32(form, Instr.imm)] OBVIOUS
    <2>2. /\ Instr.result = head /\ head \in Nat /\ cells \in Seq(Cells) /\ head + Len(cells) <= NRegs
          /\ cells = <<x>> /\ q = ip + 1
      BY <1>2, <1>3, <2>1, CopyForms
    <2>3. Len(cells) = 1 /\ cells[1] = x /\ x.v = Decode32(form, Instr.imm) /\ ~IsReg(x) BY <2>1, <2>2 DEF IsReg
    <2>4. head + 1 <= NRegs BY <2>2, <2>3
    <2>5. AtOnce(regs, head, cells) = [regs EXCEPT ![head] = Val(regs, cells[1])]
      <3>1. regs \in Frames /\ head \in Nat /\ cells \in Seq(Cells) /\ Len(cells) = 1 BY <1>2, <2>2, <2>3
      <3> QED BY <2>4, <3>1, OneAtOnce
    <2>6. Val(regs, cells[1]) = Decode32(form, Instr.imm) BY <2>3 DEF Val
    <2> QED BY <1>1, <2>2, <2>5, <2>6
  <1> QED BY <1>1, <1>3, CopyRuns, CopyMoves

\* Registers one after the other, through a buffer or where nothing clashes.
LEMMA ExecuteCopySpan ==
    ASSUME TransferInv, execute_copy_span \/ execute_copy_span_non_overlapping
    PROVE  TransferInv'
  <1>1. PICK form \in {"span", "span_non_overlapping"} :
          /\ RunsCopy(form)
          /\ form = "span" => Copied(Buffered(Instr.result, Instr.values), ip + 1)
          /\ form = "span_non_overlapping" => Copied(OneByOne(Instr.result, Instr.values), ip + 1)
    BY DEF execute_copy_span, execute_copy_span_non_overlapping
  <1>2. Instr.opcode[2] = form /\ regs \in Frames BY <1>1, CopyRuns
  <1>3. ASSUME NEW q, NEW head, NEW cells, CopyAt(code, ip, q, head, cells)
        PROVE  Copied(AtOnce(regs, head, cells), q)
    <2>1. /\ Instr.result = head /\ head \in Nat /\ cells \in Seq(Cells) /\ head + Len(cells) <= NRegs
          /\ Instr.values = cells /\ q = ip + 1
          /\ form = "span_non_overlapping" => NoClash(head, cells)
      BY <1>2, <1>3, CopyForms
    <2>2. Buffered(head, cells) = AtOnce(regs, head, cells) BY <1>2, <2>1, BufferedIs
    <2>3. form = "span_non_overlapping" => OneByOne(head, cells) = AtOnce(regs, head, cells)
      BY <1>2, <2>1, OneByOneIs DEF NoClash
    <2> QED BY <1>1, <2>1, <2>2, <2>3
  <1> QED BY <1>1, <1>3, CopyRuns, CopyMoves

\* Any values, the list of registers that follows included.
LEMMA ExecuteCopyMany ==
    ASSUME TransferInv, execute_copy_many \/ execute_copy_many_non_overlapping
    PROVE  TransferInv'
  <1>1. PICK form \in {"many", "many_non_overlapping"} :
          /\ RunsCopy(form)
          /\ form = "many" => Copied(Buffered(Instr.result, Instr.values \o ListRegs(ip + 1)),
                                     skip_register_list(ip + 1))
          /\ form = "many_non_overlapping" => Copied(OneByOne(Instr.result, Instr.values \o ListRegs(ip + 1)),
                                                     skip_register_list(ip + 1))
    BY DEF execute_copy_many, execute_copy_many_non_overlapping
  <1>2. Instr.opcode[2] = form /\ regs \in Frames /\ ip \in Nat BY <1>1, CopyRuns
  <1>3. ASSUME NEW q, NEW head, NEW cells, CopyAt(code, ip, q, head, cells)
        PROVE  Copied(AtOnce(regs, head, cells), q)
    <2>1. /\ Instr.result = head /\ head \in Nat /\ cells \in Seq(Cells) /\ head + Len(cells) <= NRegs
          /\ form = "many_non_overlapping" => NoClash(head, cells)
      BY <1>2, <1>3, CopyForms
    <2>2. PICK ps \in Seq(Providers) :
             /\ Len(ps) > 0 /\ ListAt(code, ip + 1, ps) /\ q = ip + 1 + ListLen(ps)
             /\ cells = Instr.values \o Regs(ps)
      <3>1. Listed(q, cells) BY <1>2, <1>3, CopyForms
      <3> QED BY <3>1 DEF Listed
    <2>3. PICK W : code \in Seq(W) BY CodeTyped
    <2>4. PICK first \in Nat : first = ip + 1 /\ first >= 1 BY <1>2
    <2>5. ListAt(code, first, ps) BY <2>2, <2>4
    <2>6. skip_register_list(first) = first + ListLen(ps) /\ ListRegs(first) = Regs(ps)
      BY <2>2, <2>3, <2>4, <2>5, ListRead
    <2>7. skip_register_list(ip + 1) = q /\ Instr.values \o ListRegs(ip + 1) = cells BY <2>2, <2>4, <2>6
    <2>8. Buffered(head, cells) = AtOnce(regs, head, cells) BY <1>2, <2>1, BufferedIs
    <2>9. form = "many_non_overlapping" => OneByOne(head, cells) = AtOnce(regs, head, cells)
      BY <1>2, <2>1, OneByOneIs DEF NoClash
    <2> QED BY <1>1, <2>1, <2>7, <2>8, <2>9
  <1> QED BY <1>1, <1>3, CopyRuns, CopyMoves

-----------------------------------------------------------------------------
(* Execution: returns and branches.                                        *)

\* The values of the operands before anything moves.
LEMMA OriginalValues ==
    ASSUME regs = Start, src.values \in Seq(Providers)
    PROVE  Values(Regs(src.values)) = Originals
  <1>1. PICK vs \in Seq(Providers) : vs = src.values OBVIOUS
  <1>2. DOMAIN Regs(vs) = DOMAIN vs BY DEF Regs
  <1>3. ASSUME NEW i \in DOMAIN vs PROVE get_register(Regs(vs)[i]) = Original(vs[i])
    <2>1. Regs(vs)[i] = provider2reg(vs[i]) BY <1>3 DEF Regs
    <2>2. i \in 1 .. Len(vs) BY <1>3
    <2>3. vs[i] \in Providers BY <2>2
    <2>4. Val(Start, provider2reg(vs[i])) = Original(vs[i]) BY <2>3, StartValue
    <2> QED BY <2>1, <2>4 DEF get_register, Val
  <1> QED BY <1>1, <1>2, <1>3 DEF Values, Originals

\* The return at ip by its form.
LEMMA ReturnForms ==
    ASSUME NEW q, NEW family, NEW cells, ReturnAt(code, ip, q, family, cells)
    PROVE  \/ Instr.opcode[2] = "none" /\ cells = <<>> /\ q = ip + 1
           \/ Instr.opcode[2] \in {"reg", "reg2", "reg3", "span"} /\ Instr.values = cells /\ q = ip + 1
           \/ /\ Instr.opcode[2] \in Forms32 /\ q = ip + 1
              /\ cells = <<[k |-> "const_reg", v |-> Decode32(Instr.opcode[2], Instr.values[1])]>>
           \/ Instr.opcode[2] = "many" /\ Listed(q, cells)
  <1>0. \A x, y : <<x, y>>[2] = y OBVIOUS
  <1>2. PICK w : w = Instr OBVIOUS
  <1>3. CASE OneWordReturn(Instr, family, cells) /\ q = ip + 1
    <2>1. \/ w.opcode[2] = "none" /\ cells = <<>>
          \/ w.opcode[2] \in {"reg", "reg2", "reg3", "span"} /\ w.values = cells
          \/ w.opcode[2] \in Forms32 /\ cells = <<[k |-> "const_reg", v |-> Decode32(w.opcode[2], w.values[1])]>>
      BY <1>0, <1>2, <1>3 DEF OneWordReturn
    <2> QED BY <1>2, <1>3, <2>1
  <1>4. CASE ListReturn(code, ip, q, family, cells)
    <2>1. Instr.opcode[2] = "many" /\ Listed(q, cells) BY <1>0, <1>4 DEF ListReturn, Listed, Instr
    <2> QED BY <2>1
  <1> QED BY <1>3, <1>4 DEF ReturnAt, Instr

\* A list at ip is read and skipped.
LEMMA ListedRead ==
    ASSUME TransferInv, NEW q, NEW cells, Listed(q, cells)
    PROVE  skip_register_list(ip + 1) = q /\ Instr.values \o ListRegs(ip + 1) = cells
  <1>1. PICK ps \in Seq(Providers) :
           /\ Len(ps) > 0 /\ ListAt(code, ip + 1, ps) /\ q = ip + 1 + ListLen(ps)
           /\ cells = Instr.values \o Regs(ps)
    BY DEF Listed
  <1>2. PICK W : code \in Seq(W) BY CodeTyped
  <1>3. PICK first \in Nat : first = ip + 1 /\ first >= 1 BY DEF TransferInv
  <1>4. ListAt(code, first, ps) BY <1>1, <1>3
  <1>5. skip_register_list(first) = first + ListLen(ps) /\ ListRegs(first) = Regs(ps)
    BY <1>1, <1>2, <1>3, <1>4, ListRead
  <1> QED BY <1>1, <1>3, <1>5

\* A return before anything moves returns the operands, and ends where it says.
LEMMA ReturnsOriginals ==
    ASSUME TransferInv, Unmoved, src.values \in Seq(Providers), NEW q, NEW family,
           ReturnAt(code, ip, q, family, Regs(src.values))
    PROVE  /\ ReturnValues = Originals
           /\ q = IF Instr.opcode[2] = "many" THEN skip_register_list(ip + 1) ELSE ip + 1
  <1>1. regs = Start /\ out = <<>> BY DEF Unmoved
  <1>2. PICK cells : cells = Regs(src.values) OBVIOUS
  <1>3. Values(cells) = Originals BY <1>1, <1>2, OriginalValues
  <1>4. \/ Instr.opcode[2] = "none" /\ cells = <<>> /\ q = ip + 1
        \/ Instr.opcode[2] \in {"reg", "reg2", "reg3", "span"} /\ Instr.values = cells /\ q = ip + 1
        \/ /\ Instr.opcode[2] \in Forms32 /\ q = ip + 1
           /\ cells = <<[k |-> "const_reg", v |-> Decode32(Instr.opcode[2], Instr.values[1])]>>
        \/ Instr.opcode[2] = "many" /\ Listed(q, cells)
    BY <1>2, ReturnForms
  <1>5. PICK form : form = Instr.opcode[2] OBVIOUS
  <1>6. ReturnValues = IF form \in Forms32 THEN <<Decode32(form, Instr.values[1])>>
                       ELSE IF form = "many" THEN Values(Instr.values \o ListRegs(ip + 1))
                       ELSE IF form = "none" THEN out ELSE Values(Instr.values)
    BY <1>5 DEF ReturnValues, Forms32
  <1>7. CASE form = "none" /\ cells = <<>> /\ q = ip + 1
    <2>1. ReturnValues = out BY <1>6, <1>7 DEF Forms32
    <2>2. Values(cells) = <<>> BY <1>7 DEF Values
    <2> QED BY <1>1, <1>3, <1>5, <1>7, <2>1, <2>2
  <1>8. CASE form \in {"reg", "reg2", "reg3", "span"} /\ Instr.values = cells /\ q = ip + 1
    <2>1. ReturnValues = Values(cells) BY <1>6, <1>8 DEF Forms32
    <2> QED BY <1>3, <1>5, <1>8, <2>1
  <1>9. CASE /\ form \in Forms32 /\ q = ip + 1
             /\ cells = <<[k |-> "const_reg", v |-> Decode32(form, Instr.values[1])]>>
    <2>1. PICK x : x = [k |-> "const_reg", v |-> Decode32(form, Instr.values[1])] OBVIOUS
    <2>2. x.v = Decode32(form, Instr.values[1]) /\ ~IsReg(x) BY <2>1 DEF IsReg
    <2>3. get_register(x) = Decode32(form, Instr.values[1]) BY <2>2 DEF get_register
    <2>4. Values(<<x>>) = <<get_register(x)>> BY DEF Values
    <2>5. ReturnValues = Values(cells) BY <1>6, <1>9, <2>1, <2>3, <2>4
    <2>6. form # "many" BY <1>9 DEF Forms32
    <2> QED BY <1>3, <1>5, <1>9, <2>5, <2>6
  <1>10. CASE form = "many" /\ Listed(q, cells)
    <2>1. skip_register_list(ip + 1) = q /\ Instr.values \o ListRegs(ip + 1) = cells BY <1>10, ListedRead
    <2>2. ReturnValues = Values(cells) BY <1>6, <1>10, <2>1 DEF Forms32
    <2> QED BY <1>3, <1>5, <1>10, <2>1, <2>2
  <1> QED BY <1>4, <1>5, <1>7, <1>8, <1>9, <1>10

\* The function returns.
LEMMA ReturnedArrives ==
    ASSUME TransferInv, next > Remaining, WasmTarget = ReturnLabel, ReturnValues = Originals, Returned(ReturnValues)
    PROVE  TransferInv'
  <1>1. /\ out' = Originals /\ at' = ReturnLabel /\ UNCHANGED <<src, next, code, last_instr>>
        /\ regs' = regs /\ ip' = ip /\ src' = src
    BY DEF Returned
  <1>2. regs' \in Frames /\ ip' \in Nat \ {0} /\ regs \in Frames BY <1>1 DEF TransferInv
  <1>3. WasmTarget' = WasmTarget /\ Originals' = Originals BY <1>1, <1>2, SameWasm
  <1>4. Arrived' BY <1>1, <1>3 DEF Arrived
  <1>5. at' # Inside BY <1>1 DEF ReturnLabel, Inside
  <1> QED BY <1>1, <1>2, <1>4, <1>5, Arrives

\* A return.
LEMMA ExecuteReturn == ASSUME TransferInv, execute_return PROVE TransferInv'
  <1>1. /\ Runs(execute_return_arms \cap execute_instr_return_arms) /\ Instr.opcode[1] = "return"
        /\ Returned(ReturnValues)
    BY DEF execute_return, RunsReturn
  <1>2. next > Remaining /\ (Leaving \/ LeavingTable) BY <1>1, WhichReady
  <1>3. WasmTarget = ReturnLabel BY <1>2 DEF Leaving, LeavingTable
  <1>4. src \in Sources /\ WasmTarget # FallThrough BY <1>3 DEF TransferInv, ReturnLabel, FallThrough
  <1>5. src.values \in Seq(Providers) BY <1>4, TargetTyped
  <1>6. ReturnValues = Originals
    <2>1. CASE Leaving
      <3>1. PICK q : ReturnAt(code, ip, q, "return", Regs(src.values)) BY <2>1 DEF Leaving
      <3>2. Unmoved BY <2>1 DEF Leaving
      <3> QED BY <1>5, <3>1, <3>2, ReturnsOriginals
    <2>2. CASE LeavingTable
      <3>1. Instr.opcode[2] = "none" /\ out = Originals BY <2>2 DEF LeavingTable
      <3>2. ReturnValues = out BY <3>1 DEF ReturnValues
      <3> QED BY <3>1, <3>2
    <2> QED BY <1>2, <2>1, <2>2
  <1> QED BY <1>1, <1>2, <1>3, <1>6, ReturnedArrives

\* The test of a conditional branch, read from its register.
LEMMA TestValue ==
    ASSUME TransferInv, Unmoved, src.kind # "sets", IsReg(src.test)
    PROVE  /\ get_register(src.test) = src.test.r /\ src.test.r \in Nat /\ Original(src.test) = src.test.r
           /\ src.kind = "br_if" => WasmTarget = IF src.test.r # 0 THEN src.label ELSE FallThrough
  <1>1. src.test \in Providers BY Kinds DEF TransferInv
  <1>2. src.test.r \in 0 .. NRegs - 1 BY <1>1 DEF Providers, IsReg
  <1>3. NRegs \in Nat BY TransferAssumption
  <1>4. regs[src.test.r] = src.test.r BY <1>2, StartTyped DEF Unmoved
  <1>5. Original(src.test) = src.test.r BY DEF Original
  <1>6. src.kind = "br_if" => WasmTarget = IF Original(src.test) # 0 THEN src.label ELSE FallThrough
    BY DEF WasmTarget
  <1> QED BY <1>2, <1>3, <1>4, <1>5, <1>6 DEF get_register

\* Control falls through to the end of the code.
LEMMA FallsThrough ==
    ASSUME TransferInv, next > Remaining, at = Inside, Unmoved, src.kind # "sets", WasmTarget = FallThrough,
           UNCHANGED <<src, next, code, last_instr, regs, out, at>>, ip' = Len(code) + 1
    PROVE  TransferInv'
  <1>1. src' = src /\ regs' = regs /\ out' = out /\ code' = code /\ at' = at OBVIOUS
  <1>2. src \in Sources /\ regs \in Frames /\ regs = Start /\ out = <<>> BY DEF TransferInv, Unmoved
  <1>3. WasmRegs = Start BY <1>2, WasmIs
  <1>4. WasmTarget' = FallThrough /\ WasmRegs' = Start BY <1>1, <1>2, <1>3, SameWasm
  <1>5. Len(code) \in Nat BY CodeTyped
  <1>6. ip' \in Nat \ {0} /\ ip' > Len(code') BY <1>1, <1>5
  <1>7. FallThrough # ReturnLabel /\ FallThrough # Inside BY DEF FallThrough, ReturnLabel, Inside
  <1>8. Leaves(code', ip', regs', WasmTarget', WasmRegs') BY <1>1, <1>2, <1>4, <1>6, <1>7 DEF Leaves
  <1>9. Ready' BY <1>1, <1>2, <1>8 DEF Ready, Going, Goes
  <1>10. regs' \in Frames BY <1>1, <1>2
  <1>11. UNCHANGED <<src, next, code, last_instr, at>> OBVIOUS
  <1> QED BY <1>6, <1>9, <1>10, <1>11, StillInside

\* A conditional return.
LEMMA ExecuteReturnNez == ASSUME TransferInv, execute_return_nez PROVE TransferInv'
  <1>1. /\ Runs(execute_return_arms \cap execute_instr_return_arms) /\ Instr.opcode[1] = "return_nez"
    BY DEF execute_return_nez, RunsReturn
  <1>2. next > Remaining /\ at = Inside /\ MayLeave BY <1>1, WhichReady
  <1>3. /\ Unmoved /\ src.kind = "br_if" /\ src.kind # "sets" /\ IsReg(src.test) /\ src.label = ReturnLabel
        /\ ReturnAt(code, ip, Len(code) + 1, "return_nez", Regs(src.values))
        /\ Instr.cond = src.test
    BY <1>2 DEF MayLeave
  <1>4. src.values \in Seq(Providers) BY <1>3, Kinds DEF TransferInv
  <1>5. /\ get_register(Instr.cond) = src.test.r
        /\ WasmTarget = IF src.test.r # 0 THEN ReturnLabel ELSE FallThrough
    BY <1>3, TestValue
  <1>6. /\ ReturnValues = Originals
        /\ Len(code) + 1 = IF Instr.opcode[2] = "many" THEN skip_register_list(ip + 1) ELSE ip + 1
    BY <1>3, <1>4, ReturnsOriginals
  <1>7. CASE src.test.r # 0
    <2>1. Returned(ReturnValues) BY <1>5, <1>7 DEF execute_return_nez
    <2> QED BY <1>2, <1>5, <1>6, <1>7, <2>1, ReturnedArrives
  <1>8. CASE ~(src.test.r # 0)
    <2>1. /\ ip' = IF Instr.opcode[2] = "many" THEN skip_register_list(ip + 1) ELSE ip + 1
          /\ UNCHANGED <<src, next, code, last_instr, regs, out, at>>
      BY <1>5, <1>8 DEF execute_return_nez
    <2>2. ip' = Len(code) + 1 BY <1>6, <2>1
    <2> QED BY <1>2, <1>3, <1>5, <1>8, <2>1, <2>2, FallsThrough
  <1> QED BY <1>7, <1>8

\* Control arrives at a label with the registers Wasm has there.
LEMMA BranchArrives ==
    ASSUME TransferInv, next > Remaining, UNCHANGED <<src, next, code, last_instr>>, WasmTarget # ReturnLabel,
           regs' = WasmRegs, regs' \in Frames, out' = <<>>, ip' \in Nat \ {0}, at' = WasmTarget
    PROVE  TransferInv'
  <1>1. src' = src /\ regs \in Frames /\ src \in Sources BY DEF TransferInv
  <1>2. WasmTarget' = WasmTarget /\ WasmRegs' = WasmRegs BY <1>1, SameWasm
  <1>3. Arrived' BY <1>2 DEF Arrived
  <1>4. at' # Inside BY <1>1, TargetTyped
  <1> QED BY <1>3, <1>4, Arrives

\* A branch.
LEMMA ExecuteBranch == ASSUME TransferInv, execute_branch PROVE TransferInv'
  <1>1. Runs({branch}) /\ at' = Instr.label /\ UNCHANGED <<src, next, code, last_instr, regs, out, ip>>
    BY DEF execute_branch
  <1>2. Instr.opcode \in {branch} BY <1>1 DEF Runs
  <1>3. Instr.opcode[1] = "branch" BY <1>2 DEF branch
  <1>4. /\ next > Remaining /\ ip \in 1 .. Len(code) /\ out = <<>> /\ Leaves(code, ip, regs, WasmTarget, WasmRegs)
    BY <1>1, <1>3, WhichReady
  <1>5. Instr.label = WasmTarget BY <1>4, Families DEF Instr
  <1>6. regs = WasmRegs /\ WasmTarget # ReturnLabel BY <1>4 DEF Leaves
  <1>7. /\ regs' = regs /\ out' = out /\ ip' = ip /\ UNCHANGED <<src, next, code, last_instr>> BY <1>1
  <1>8. regs \in Frames /\ ip \in Nat \ {0} BY DEF TransferInv
  <1> QED BY <1>1, <1>4, <1>5, <1>6, <1>7, <1>8, BranchArrives

\* A conditional branch, taken or not.
LEMMA ExecuteBranchImm == ASSUME TransferInv, execute_branch_i32_imm PROVE TransferInv'
  <1> DEFINE taken == (get_register(Instr.cond) = 0) = (Instr.opcode[2] = "eq")
  <1>1. /\ Runs({<<"i32", "eq", "branch_imm">>, <<"i32", "ne", "branch_imm">>})
        /\ at' = (IF taken THEN Instr.label ELSE at) /\ ip' = (IF taken THEN ip ELSE ip + 1)
        /\ UNCHANGED <<src, next, code, last_instr, regs, out>>
    BY DEF execute_branch_i32_imm
  <1>2. Instr.opcode \in {<<"i32", "eq", "branch_imm">>, <<"i32", "ne", "branch_imm">>} BY <1>1 DEF Runs
  <1>3. Instr.opcode[1] = "i32" BY <1>2
  <1>4. next > Remaining /\ at = Inside /\ ip \in 1 .. Len(code) /\ MayBranch BY <1>1, <1>3, WhichReady
  <1>5. /\ Unmoved /\ src.kind = "br_if" /\ src.kind # "sets" /\ IsReg(src.test) /\ src.label # ReturnLabel
        /\ Instr.cond = src.test
    BY <1>4 DEF MayBranch
  <1>6. /\ get_register(Instr.cond) = src.test.r
        /\ WasmTarget = IF src.test.r # 0 THEN src.label ELSE FallThrough
    BY <1>5, TestValue
  <1>7. regs = Start /\ out = <<>> /\ regs \in Frames /\ ip \in Nat \ {0} /\ src \in Sources
    BY <1>5 DEF Unmoved, TransferInv
  <1>8. regs' = regs /\ out' = out /\ src' = src /\ code' = code /\ UNCHANGED <<src, next, code, last_instr>> BY <1>1
  <1>9. WasmTarget = FallThrough => WasmRegs = Start BY <1>5, <1>7, WasmIs
  <1>10. WasmTarget # ReturnLabel BY <1>5, <1>6 DEF FallThrough, ReturnLabel
  <1>11. CASE /\ Instr.opcode = <<"i32", "ne", "branch_imm">> /\ Instr.label = src.label
              /\ ip = Len(code) /\ WasmRegs = Start
    <2>1. Instr.opcode[2] = "ne" BY <1>11
    <2>2. taken <=> src.test.r # 0 BY <1>6, <2>1
    <2> HIDE DEF taken
    <2>3. CASE src.test.r # 0
      <3>1. at' = WasmTarget /\ ip' = ip BY <1>1, <1>6, <1>11, <2>2, <2>3
      <3> QED BY <1>4, <1>7, <1>8, <1>10, <1>11, <3>1, BranchArrives
    <2>4. CASE ~(src.test.r # 0)
      <3>1. at' = at /\ ip' = Len(code) + 1 BY <1>1, <1>11, <2>2, <2>4
      <3>2. WasmTarget = FallThrough BY <1>6, <2>4
      <3>3. UNCHANGED <<src, next, code, last_instr, regs, out, at>> BY <1>1, <3>1
      <3> QED BY <1>4, <1>5, <3>1, <3>2, <3>3, FallsThrough
    <2> QED BY <2>3, <2>4
  <1>12. CASE /\ Instr.opcode = <<"i32", "eq", "branch_imm">> /\ Instr.label = FallThrough
              /\ src.test.r # 0 => Goes(code, ip + 1, Start, WasmTarget, WasmRegs)
    <2>1. Instr.opcode[2] = "eq" BY <1>12
    <2>2. taken <=> src.test.r = 0 BY <1>6, <2>1
    <2> HIDE DEF taken
    <2>3. CASE ~(src.test.r # 0)
      <3>1. at' = WasmTarget /\ ip' = ip BY <1>1, <1>6, <1>12, <2>2, <2>3
      <3>2. WasmRegs = Start BY <1>6, <1>9, <2>3
      <3> QED BY <1>4, <1>7, <1>8, <1>10, <3>1, <3>2, BranchArrives
    <2>4. CASE src.test.r # 0
      <3>1. at' = at /\ ip' = ip + 1 BY <1>1, <2>2, <2>4
      <3>2. WasmTarget' = WasmTarget /\ WasmRegs' = WasmRegs BY <1>7, <1>8, SameWasm
      <3>3. Goes(code', ip', regs', WasmTarget', WasmRegs') BY <1>7, <1>8, <1>12, <2>4, <3>1, <3>2
      <3>4. Ready' BY <1>7, <1>8, <3>3 DEF Ready, Going
      <3>5. UNCHANGED <<src, next, code, last_instr, at>> BY <1>1, <3>1
      <3>6. regs' \in Frames /\ ip' \in Nat \ {0} BY <1>7, <1>8, <3>1
      <3> QED BY <1>4, <3>4, <3>5, <3>6, StillInside
    <2> QED BY <2>3, <2>4
  <1> QED BY <1>4, <1>11, <1>12 DEF MayBranch

-----------------------------------------------------------------------------
(* Execution: tables.                                                      *)

\* The index of a table, the last target for one beyond its end, is the target of Wasm.
LEMMA Offset ==
    ASSUME TransferInv, AtTable
    PROVE  /\ fetch_branch_table_offset \in 1 .. Len(src.targets)
           /\ WasmTarget = src.targets[fetch_branch_table_offset]
  <1>1. /\ Unmoved /\ src.kind = "br_table" /\ src.kind # "sets" /\ IsReg(src.test)
        /\ Instr.index = src.test /\ Instr.len = Len(src.targets)
    BY DEF AtTable, TableAt, Instr
  <1>2. PICK n \in Nat : n = Len(src.targets) /\ n # 0 BY <1>1, Kinds DEF TransferInv
  <1>3. PICK t \in Nat : t = get_register(src.test) /\ t = Original(src.test) BY <1>1, TestValue
  <1>4. PICK k : k = (IF t < n THEN t ELSE n - 1) + 1 OBVIOUS
  <1>5. fetch_branch_table_offset = k BY <1>1, <1>2, <1>3, <1>4 DEF fetch_branch_table_offset
  <1>6. k \in 1 .. n /\ k = IF t + 1 < n THEN t + 1 ELSE n
    <2>1. CASE t + 1 < n
      <3>1. t < n BY <2>1
      <3>2. k = t + 1 BY <1>4, <3>1
      <3> QED BY <2>1, <3>2
    <2>2. CASE ~(t + 1 < n)
      <3>1. k = n
        <4>1. CASE t < n
          <5>1. t + 1 = n BY <2>2, <4>1
          <5> QED BY <1>4, <4>1, <5>1
        <4>2. CASE ~(t < n)
          <5>1. k = (n - 1) + 1 BY <1>4, <4>2
          <5> QED BY <5>1
        <4> QED BY <4>1, <4>2
      <3>2. n \in 1 .. n BY <1>2
      <3> QED BY <2>2, <3>1, <3>2
    <2> QED BY <2>1, <2>2
  <1>7. WasmTarget = IF t + 1 < n THEN src.targets[t + 1] ELSE src.targets[n]
    BY <1>1, <1>2, <1>3 DEF WasmTarget, Last
  <1> QED BY <1>2, <1>5, <1>6, <1>7

\* What the executor has ready for the target: the registers, copied through a
\* buffer and one after the other, and the results.
Prepared(form, overlapping, separate, results) ==
    /\ src.values # <<>> => \A h \in Heads : h + Len(src.values) <= NRegs =>
                                overlapping[h] = AtOnce(regs, h, Regs(src.values))
    /\ form \in {"span", "many"} =>
         \A h \in Heads : h + Len(src.values) <= NRegs /\ NoClash(h, Regs(src.values)) =>
            separate[h] = AtOnce(regs, h, Regs(src.values))
    /\ results = IF form = "many" THEN Originals ELSE out

\* A step to a target of a table.
LEMMA TargetStep ==
    ASSUME TransferInv, next > Remaining, at = Inside, Unmoved, src.kind = "br_table", NEW label, label = WasmTarget,
           NEW pos \in Nat \ {0}, NEW form, TargetAt(code, pos, label, src.values, form),
           NEW overlapping, NEW separate, NEW results, Prepared(form, overlapping, separate, results),
           ToTarget(pos, overlapping, separate, results)
    PROVE  TransferInv'
  <1>0. /\ regs = Start /\ out = <<>> /\ src \in Sources /\ regs \in Frames /\ src.kind # "sets"
        /\ src.values \in Seq(Providers)
    BY Kinds DEF Unmoved, TransferInv
  <1>1. PICK t : t = code[pos] OBVIOUS
  <1>2. /\ IF t.opcode = Param("branch_table_target") THEN regs' = overlapping[t.head] /\ at' = t.label
           ELSE IF t.opcode = Param("branch_table_target_non_overlapping")
           THEN regs' = separate[t.head] /\ at' = t.label
           ELSE regs' = regs /\ at' = at
        /\ out' = (IF t.opcode = <<"return", "none">> THEN results ELSE out)
        /\ ip' = pos
        /\ UNCHANGED <<src, next, code, last_instr>>
    BY <1>1 DEF ToTarget
  <1>3. src' = src /\ code' = code BY <1>2
  <1>4. pos \in 1 .. Len(code) BY DEF TargetAt
  <1>5. CASE label = ReturnLabel
    <2>1. t.opcode[1] = "return" /\ (form = "many" => t.opcode = <<"return", "none">>)
          /\ (form # "many" => ReturnAt(code, pos, pos + 1, "return", Regs(src.values)))
      BY <1>1, <1>5, Families DEF TargetAt
    <2>2. t.opcode # Param("branch_table_target") /\ t.opcode # Param("branch_table_target_non_overlapping")
      BY <2>1 DEF Param
    <2>3. regs' = regs /\ at' = at BY <1>2, <2>2
    <2>4. WasmTarget' = ReturnLabel /\ Originals' = Originals BY <1>0, <1>3, <1>5, <2>3, SameWasm
    <2>5. Ready'
      <3>1. CASE form = "many"
        <4>1. out' = Originals BY <1>2, <2>1, <3>1 DEF Prepared
        <4>2. ip' \in 1 .. Len(code') /\ Instr' = t BY <1>1, <1>2, <1>3, <1>4 DEF Instr
        <4>3. LeavingTable' BY <2>1, <2>4, <3>1, <4>1, <4>2 DEF LeavingTable
        <4> QED BY <4>3 DEF Ready
      <3>2. CASE form # "many"
        <4>1. out' = out BY <1>2, <3>2 DEF Prepared
        <4>2. Unmoved' BY <1>0, <2>3, <4>1 DEF Unmoved, Start
        <4>3. ReturnAt(code', ip', pos + 1, "return", Regs(src'.values)) BY <1>2, <1>3, <2>1, <3>2
        <4>4. Leaving' BY <2>4, <4>2, <4>3 DEF Leaving
        <4> QED BY <4>4 DEF Ready
      <3> QED BY <3>1, <3>2
    <2>6. UNCHANGED <<src, next, code, last_instr, at>> BY <1>2, <2>3
    <2>7. regs' \in Frames /\ ip' \in Nat \ {0} BY <1>0, <1>2, <2>3
    <2> QED BY <2>5, <2>6, <2>7, StillInside
  <1>6. CASE label # ReturnLabel
    <2>1. t.label = label /\ label # FallThrough /\ label \in Labels /\ HasRoom(label, src.values)
      <3>1. t.label = label BY <1>1, <1>6 DEF TargetAt
      <3>2. \E k \in 1 .. Len(src.targets) : label = src.targets[k]
        <4>1. PICK n \in Nat : n = Len(src.targets) /\ n # 0 BY <1>0, Kinds
        <4>2. PICK x \in Nat : x = Original(src.test)
          <5>1. src.test \in Providers /\ NRegs \in Nat BY <1>0, Kinds, TransferAssumption
          <5> QED BY <5>1 DEF Original, Providers, IsReg
        <4>3. WasmTarget = IF x + 1 < n THEN src.targets[x + 1] ELSE src.targets[n]
          BY <4>1, <4>2 DEF WasmTarget, Last
        <4>4. n \in 1 .. n /\ (x + 1 < n => x + 1 \in 1 .. n) BY <4>1
        <4> QED BY <4>1, <4>3, <4>4
      <3>3. label \in Labels /\ HasRoom(label, src.values) BY <3>2, TableKinds
      <3> QED BY <1>0, <1>6, <3>1, <3>3, Room
    <2>2. PICK head \in Nat : head = BlockParams[label] /\ head \in Heads /\ head + Len(src.values) <= NRegs
      BY <1>0, <1>6, <2>1, Room
    <2>3. WasmRegs = AtOnce(Start, head, Regs(src.values)) BY <1>0, <1>6, <2>1, <2>2, WasmIs
    <2>4. WasmRegs \in Frames
      <3>1. Regs(src.values) \in Seq(Cells) /\ Len(Regs(src.values)) = Len(src.values) BY <1>0, RegsTyped
      <3>2. head + Len(Regs(src.values)) <= NRegs BY <2>2, <3>1
      <3> QED BY <2>3, <3>1, <3>2, StartTyped, AtOnceTyped
    <2>5. CASE src.values = <<>>
      <3>1. t.opcode = branch BY <1>1, <1>6, <2>5 DEF TargetAt
      <3>2. /\ t.opcode # Param("branch_table_target") /\ t.opcode # Param("branch_table_target_non_overlapping")
            /\ t.opcode # <<"return", "none">>
        BY <3>1 DEF Param, branch
      <3>3. regs' = regs /\ at' = at /\ out' = out BY <1>2, <3>2
      <3>4. WasmTarget' = label /\ WasmRegs' = WasmRegs BY <1>0, <1>3, <3>3, SameWasm
      <3>5. WasmRegs = Start
        <4>1. Regs(src.values) = <<>> BY <2>5 DEF Regs
        <4> QED BY <2>3, <4>1, StartTyped, Untouched
      <3>6. label # Inside BY <1>0, <1>6, <2>1, Room
      <3>7. Leaves(code', ip', regs', WasmTarget', WasmRegs')
        BY <1>0, <1>1, <1>2, <1>3, <1>4, <1>6, <2>1, <3>1, <3>3, <3>4, <3>5, <3>6 DEF Leaves
      <3>8. Ready' BY <1>0, <3>3, <3>7 DEF Ready, Going, Goes
      <3>9. UNCHANGED <<src, next, code, last_instr, at>> BY <1>2, <3>3
      <3>10. regs' \in Frames /\ ip' \in Nat \ {0} BY <1>0, <1>2, <3>3
      <3> QED BY <3>8, <3>9, <3>10, StillInside
    <2>6. CASE src.values # <<>>
      <3>1. /\ t.head = head
            /\ \/ t.opcode = Param("branch_table_target")
               \/ /\ t.opcode = Param("branch_table_target_non_overlapping")
                  /\ form \in {"span", "many"} /\ NoClash(head, Regs(src.values))
        BY <1>1, <1>6, <2>2, <2>6 DEF TargetAt
      <3>2. regs' = AtOnce(regs, head, Regs(src.values)) /\ at' = label
        <4>1. CASE t.opcode = Param("branch_table_target")
          <5>1. overlapping[head] = AtOnce(regs, head, Regs(src.values)) BY <2>2, <2>6 DEF Prepared
          <5> QED BY <1>2, <2>1, <3>1, <4>1, <5>1
        <4>2. CASE /\ t.opcode = Param("branch_table_target_non_overlapping")
                   /\ form \in {"span", "many"} /\ NoClash(head, Regs(src.values))
          <5>1. separate[head] = AtOnce(regs, head, Regs(src.values)) BY <2>2, <4>2 DEF Prepared
          <5>2. t.opcode # Param("branch_table_target") BY <4>2 DEF Param
          <5> QED BY <1>2, <2>1, <3>1, <4>2, <5>1, <5>2
        <4> QED BY <3>1, <4>1, <4>2
      <3>3. out' = out
        <4>1. t.opcode # <<"return", "none">> BY <3>1 DEF Param
        <4> QED BY <1>2, <4>1
      <3>4. regs' = WasmRegs BY <1>0, <2>3, <3>2
      <3>5. out' = <<>> /\ ip' \in Nat \ {0} /\ regs' \in Frames BY <1>0, <1>2, <2>4, <3>3, <3>4
      <3>6. UNCHANGED <<src, next, code, last_instr>> BY <1>2
      <3> QED BY <1>6, <3>2, <3>4, <3>5, <3>6, BranchArrives
    <2> QED BY <2>5, <2>6
  <1> QED BY <1>5, <1>6

\* What stands at a table that runs.
LEMMA TableRuns ==
    ASSUME TransferInv, NEW forms, RunsTable(forms)
    PROVE  /\ next > Remaining /\ at = Inside /\ Unmoved /\ src.kind = "br_table" /\ ip \in Nat \ {0}
           /\ regs \in Frames /\ src.values \in Seq(Providers)
           /\ \E form \in forms, b \in Nat, k \in Nat \ {0} :
                /\ TableValues(code, ip, b, src.values, form)
                /\ k = fetch_branch_table_offset
                /\ TargetAt(code, b + k, WasmTarget, src.values, form)
  <1>1. /\ Runs(execute_branch_table_arms \cap execute_instr_branch_table_arms) /\ Instr.opcode[2] \in forms
    BY DEF RunsTable
  <1>2. Instr.opcode \in branch_tables BY <1>1 DEF Runs, execute_branch_table_arms
  <1>3. Instr.opcode[1] = "branch_table" BY <1>2 DEF branch_tables
  <1>4. next > Remaining /\ at = Inside /\ AtTable BY <1>1, <1>3, WhichReady
  <1>5. /\ Unmoved /\ src.kind = "br_table" /\ TableAt(code, ip, src.test, src.targets, src.values)
    BY <1>4 DEF AtTable
  <1>6. PICK form \in {"0", "1", "2", "3", "span", "many"}, b \in Nat :
          /\ Instr.opcode = <<"branch_table", form>>
          /\ TableValues(code, ip, b, src.values, form)
          /\ \A k \in 1 .. Len(src.targets) : TargetAt(code, b + k, src.targets[k], src.values, form)
    BY <1>5 DEF TableAt, Instr
  <1>7. form \in forms
    <2>1. Instr.opcode[2] = form BY <1>6
    <2> QED BY <1>1, <2>1
  <1>8. /\ fetch_branch_table_offset \in 1 .. Len(src.targets)
        /\ WasmTarget = src.targets[fetch_branch_table_offset]
    BY <1>4, Offset
  <1>9. PICK k : k = fetch_branch_table_offset OBVIOUS
  <1>10. Len(src.targets) \in Nat BY <1>5, TableKinds
  <1>11. k \in Nat \ {0} BY <1>8, <1>9, <1>10
  <1>12. TargetAt(code, b + k, WasmTarget, src.values, form) BY <1>6, <1>8, <1>9
  <1>13. ip \in Nat \ {0} /\ regs \in Frames /\ src.values \in Seq(Providers) BY <1>5, TableKinds DEF TransferInv
  <1> QED BY <1>4, <1>5, <1>6, <1>7, <1>9, <1>11, <1>12, <1>13

\* A table without values.
LEMMA ExecuteTable0 == ASSUME TransferInv, execute_branch_table_0 PROVE TransferInv'
  <1>1. RunsTable({"0"}) /\ ToTarget(ip + fetch_branch_table_offset, <<>>, <<>>, out) BY DEF execute_branch_table_0
  <1>2. /\ next > Remaining /\ at = Inside /\ Unmoved /\ src.kind = "br_table" /\ ip \in Nat \ {0}
    BY <1>1, TableRuns
  <1>3. PICK form \in {"0"}, b \in Nat, k \in Nat \ {0} :
          /\ TableValues(code, ip, b, src.values, form) /\ k = fetch_branch_table_offset
          /\ TargetAt(code, b + k, WasmTarget, src.values, form)
    BY <1>1, TableRuns
  <1>4. b = ip /\ src.values = <<>> /\ form = "0" BY <1>3 DEF TableValues
  <1>5. PICK pos \in Nat \ {0} : pos = ip + k BY <1>2
  <1>6. PICK none : none = <<>> OBVIOUS
  <1>7. ToTarget(pos, none, none, out) /\ TargetAt(code, pos, WasmTarget, src.values, form)
    BY <1>1, <1>3, <1>4, <1>5, <1>6
  <1>8. Prepared(form, none, none, out) BY <1>4 DEF Prepared
  <1> QED BY <1>2, <1>7, <1>8, TargetStep

\* A table of one value.
LEMMA ExecuteTable1 == ASSUME TransferInv, execute_branch_table_1 PROVE TransferInv'
  <1> DEFINE w == code[ip + 1]
             v == IF w.opcode = Param("register") THEN get_register(w.regs[1]) ELSE Decode32(w.form, w.imm)
             set == [h \in Heads |-> [regs EXCEPT ![h] = v]]
  <1>1. RunsTable({"1"}) /\ ToTarget(ip + 1 + fetch_branch_table_offset, set, set, out) BY DEF execute_branch_table_1
  <1>2. /\ next > Remaining /\ at = Inside /\ Unmoved /\ src.kind = "br_table" /\ ip \in Nat \ {0}
        /\ regs \in Frames /\ src.values \in Seq(Providers)
    BY <1>1, TableRuns
  <1>3. PICK form \in {"1"}, b \in Nat, k \in Nat \ {0} :
          /\ TableValues(code, ip, b, src.values, form) /\ k = fetch_branch_table_offset
          /\ TargetAt(code, b + k, WasmTarget, src.values, form)
    BY <1>1, TableRuns
  <1>4. /\ b = ip + 1 /\ form = "1" /\ Len(src.values) = 1
        /\ IF w.opcode = Param("register") THEN w.regs = Regs(src.values)
           ELSE Regs(src.values) = <<[k |-> "const_reg", v |-> Decode32(w.form, w.imm)]>>
    BY <1>3 DEF TableValues
  <1>5. PICK cells : cells = Regs(src.values) OBVIOUS
  <1>6. cells \in Seq(Cells) /\ Len(cells) = 1
    <2>1. Regs(src.values) \in Seq(Cells) /\ Len(Regs(src.values)) = Len(src.values) BY <1>2, RegsTyped
    <2> QED BY <1>4, <1>5, <2>1
  <1>7. v = Val(regs, cells[1])
    <2>1. CASE w.opcode = Param("register")
      <3>1. w.regs = cells BY <1>4, <1>5, <2>1
      <3> QED BY <2>1, <3>1 DEF get_register, Val
    <2>2. CASE ~(w.opcode = Param("register"))
      <3>1. PICK x : x = [k |-> "const_reg", v |-> Decode32(w.form, w.imm)] OBVIOUS
      <3>2. cells = <<x>> BY <1>4, <1>5, <2>2, <3>1
      <3>3. cells[1] = x /\ x.v = Decode32(w.form, w.imm) /\ ~IsReg(x) BY <3>1, <3>2 DEF IsReg
      <3> QED BY <2>2, <3>3 DEF Val
    <2> QED BY <2>1, <2>2
  <1> HIDE DEF w, v
  <1>8. ASSUME NEW h \in Heads, h + Len(src.values) <= NRegs PROVE set[h] = AtOnce(regs, h, cells)
    <2>1. h \in Nat
      <3>1. BlockParams \in Seq(Nat) BY TransferAssumption
      <3>2. PICK l \in DOMAIN BlockParams : h = BlockParams[l] BY DEF Heads
      <3> QED BY <3>1, <3>2
    <2>2. h + 1 <= NRegs BY <1>4, <1>8
    <2>3. AtOnce(regs, h, cells) = [regs EXCEPT ![h] = Val(regs, cells[1])] BY <1>2, <1>6, <2>1, <2>2, OneAtOnce
    <2> QED BY <1>7, <2>3
  <1> HIDE DEF set
  <1>9. PICK pos \in Nat \ {0} : pos = (ip + 1) + k BY <1>2
  <1>10. ToTarget(pos, set, set, out) /\ TargetAt(code, pos, WasmTarget, src.values, form)
    BY <1>1, <1>3, <1>4, <1>9
  <1>11. Prepared(form, set, set, out) BY <1>4, <1>5, <1>8 DEF Prepared
  <1> QED BY <1>2, <1>10, <1>11, TargetStep

\* The registers of the values, copied to each head.
LEMMA HeadCopies ==
    ASSUME regs \in Frames, src.values \in Seq(Providers), NEW form, NEW results,
           results = IF form = "many" THEN Originals ELSE out
    PROVE  Prepared(form, [h \in Heads |-> Buffered(h, Regs(src.values))],
                    [h \in Heads |-> OneByOne(h, Regs(src.values))], results)
  <1>1. PICK cells : cells = Regs(src.values) OBVIOUS
  <1>2. cells \in Seq(Cells) /\ Len(cells) = Len(src.values) BY <1>1, RegsTyped
  <1>3. \A h \in Heads : h \in Nat
    <2>1. BlockParams \in Seq(Nat) BY TransferAssumption
    <2> QED BY <2>1 DEF Heads
  <1>4. \A h \in Heads : Buffered(h, cells) = AtOnce(regs, h, cells) BY <1>2, <1>3, BufferedIs
  <1>5. ASSUME NEW h \in Heads, h + Len(src.values) <= NRegs, NoClash(h, cells)
        PROVE  OneByOne(h, cells) = AtOnce(regs, h, cells)
    <2>1. h \in Nat /\ h + Len(cells) <= NRegs BY <1>2, <1>3, <1>5
    <2> QED BY <1>2, <1>5, <2>1, OneByOneIs DEF NoClash
  <1>6. PICK ov : ov = [h \in Heads |-> Buffered(h, cells)] OBVIOUS
  <1>7. PICK sep : sep = [h \in Heads |-> OneByOne(h, cells)] OBVIOUS
  <1>8. \A h \in Heads : ov[h] = AtOnce(regs, h, cells) BY <1>4, <1>6
  <1>9. \A h \in Heads : h + Len(src.values) <= NRegs /\ NoClash(h, cells) => sep[h] = AtOnce(regs, h, cells)
    BY <1>5, <1>7
  <1>10. Prepared(form, ov, sep, results) BY <1>1, <1>8, <1>9 DEF Prepared
  <1> QED BY <1>1, <1>6, <1>7, <1>10

\* A table of two or three values: every copy goes through a buffer.
LEMMA ExecuteTable23 == ASSUME TransferInv, execute_branch_table_2_3 PROVE TransferInv'
  <1>1. PICK set : /\ set = [h \in Heads |-> Buffered(h, code[ip + 1].regs)]
                   /\ RunsTable({"2", "3"}) /\ ToTarget(ip + 1 + fetch_branch_table_offset, set, set, out)
    BY DEF execute_branch_table_2_3
  <1>2. /\ next > Remaining /\ at = Inside /\ Unmoved /\ src.kind = "br_table" /\ ip \in Nat \ {0}
        /\ regs \in Frames /\ src.values \in Seq(Providers)
    BY <1>1, TableRuns
  <1>a. PICK forms : forms = {"2", "3"} OBVIOUS
  <1>b. RunsTable(forms) BY <1>1, <1>a
  <1>3. PICK form \in forms, b \in Nat, k \in Nat \ {0} :
          /\ TableValues(code, ip, b, src.values, form) /\ k = fetch_branch_table_offset
          /\ TargetAt(code, b + k, WasmTarget, src.values, form)
    BY <1>b, TableRuns
  <1>4. b = ip + 1 /\ code[ip + 1].regs = Regs(src.values) /\ form \notin {"span", "many"}
    BY <1>3, <1>a DEF TableValues
  <1>5. PICK sep : sep = [h \in Heads |-> OneByOne(h, Regs(src.values))] OBVIOUS
  <1>6. out = IF form = "many" THEN Originals ELSE out BY <1>4
  <1>7. set = [h \in Heads |-> Buffered(h, Regs(src.values))] BY <1>1, <1>4
  <1>8. Prepared(form, set, sep, out) BY <1>2, <1>5, <1>6, <1>7, HeadCopies
  <1>9. Prepared(form, set, set, out) BY <1>4, <1>8 DEF Prepared
  <1>10. PICK pos \in Nat \ {0} : pos = (ip + 1) + k BY <1>2
  <1>11. ToTarget(pos, set, set, out) /\ TargetAt(code, pos, WasmTarget, src.values, form)
    BY <1>1, <1>3, <1>4, <1>10
  <1> QED BY <1>2, <1>9, <1>11, TargetStep

\* A table of registers one after the other.
LEMMA ExecuteTableSpan == ASSUME TransferInv, execute_branch_table_span PROVE TransferInv'
  <1>1. PICK ov, sep : /\ ov = [h \in Heads |-> Buffered(h, code[ip + 1].regs)]
                       /\ sep = [h \in Heads |-> OneByOne(h, code[ip + 1].regs)]
                       /\ RunsTable({"span"}) /\ ToTarget(ip + 1 + fetch_branch_table_offset, ov, sep, out)
    BY DEF execute_branch_table_span
  <1>2. /\ next > Remaining /\ at = Inside /\ Unmoved /\ src.kind = "br_table" /\ ip \in Nat \ {0}
        /\ regs \in Frames /\ src.values \in Seq(Providers)
    BY <1>1, TableRuns
  <1>3. PICK form \in {"span"}, b \in Nat, k \in Nat \ {0} :
          /\ TableValues(code, ip, b, src.values, form) /\ k = fetch_branch_table_offset
          /\ TargetAt(code, b + k, WasmTarget, src.values, form)
    BY <1>1, TableRuns
  <1>4. b = ip + 1 /\ code[ip + 1].regs = Regs(src.values) /\ form = "span" BY <1>3 DEF TableValues
  <1>5. out = IF form = "many" THEN Originals ELSE out BY <1>4
  <1>6. /\ ov = [h \in Heads |-> Buffered(h, Regs(src.values))]
        /\ sep = [h \in Heads |-> OneByOne(h, Regs(src.values))]
    BY <1>1, <1>4
  <1>7. Prepared(form, ov, sep, out) BY <1>2, <1>5, <1>6, HeadCopies
  <1>8. PICK pos \in Nat \ {0} : pos = (ip + 1) + k BY <1>2
  <1>9. ToTarget(pos, ov, sep, out) /\ TargetAt(code, pos, WasmTarget, src.values, form)
    BY <1>1, <1>3, <1>4, <1>8
  <1> QED BY <1>2, <1>7, <1>9, TargetStep

\* A table of any values, in a list of registers.
LEMMA ExecuteTableMany == ASSUME TransferInv, execute_branch_table_many PROVE TransferInv'
  <1>1. PICK ov, sep, res :
          /\ ov = [h \in Heads |-> Buffered(h, ListRegs(ip + 1))]
          /\ sep = [h \in Heads |-> OneByOne(h, ListRegs(ip + 1))]
          /\ res = Values(ListRegs(ip + 1))
          /\ RunsTable({"many"})
          /\ ToTarget(skip_register_list(ip + 1) + fetch_branch_table_offset - 1, ov, sep, res)
    BY DEF execute_branch_table_many
  <1>2. /\ next > Remaining /\ at = Inside /\ Unmoved /\ src.kind = "br_table" /\ ip \in Nat \ {0}
        /\ regs \in Frames /\ src.values \in Seq(Providers)
    BY <1>1, TableRuns
  <1>3. PICK form \in {"many"}, b \in Nat, k \in Nat \ {0} :
          /\ TableValues(code, ip, b, src.values, form) /\ k = fetch_branch_table_offset
          /\ TargetAt(code, b + k, WasmTarget, src.values, form)
    BY <1>1, TableRuns
  <1>4. b = ip + ListLen(src.values) /\ src.values # <<>> /\ ListAt(code, ip + 1, src.values) /\ form = "many"
    BY <1>3 DEF TableValues
  <1>5. PICK vs \in Seq(Providers) : vs = src.values BY <1>2
  <1>6. Len(vs) > 0 BY <1>4, <1>5
  <1>7. PICK m \in Nat : m = ListLen(vs) BY <1>6, ListWords
  <1>8. PICK first \in Nat : first = ip + 1 /\ first >= 1 BY <1>2
  <1>9. PICK W : code \in Seq(W) BY CodeTyped
  <1>10. ListAt(code, first, vs) BY <1>4, <1>5, <1>8
  <1>11. skip_register_list(first) = first + ListLen(vs) /\ ListRegs(first) = Regs(vs)
    BY <1>6, <1>8, <1>9, <1>10, ListRead
  <1>12. PICK pos \in Nat \ {0} : pos = (ip + m) + k BY <1>2, <1>7
  <1>13. skip_register_list(ip + 1) + fetch_branch_table_offset - 1 = pos
    <2>1. skip_register_list(ip + 1) = (ip + 1) + m BY <1>7, <1>8, <1>11
    <2>2. ((ip + 1) + m) + k - 1 = (ip + m) + k BY <1>2
    <2> QED BY <1>3, <1>12, <2>1, <2>2
  <1>14. /\ ov = [h \in Heads |-> Buffered(h, Regs(src.values))]
         /\ sep = [h \in Heads |-> OneByOne(h, Regs(src.values))]
         /\ res = Values(Regs(src.values))
    BY <1>1, <1>5, <1>8, <1>11
  <1>15. regs = Start BY <1>2 DEF Unmoved
  <1>16. res = IF form = "many" THEN Originals ELSE out BY <1>2, <1>4, <1>14, <1>15, OriginalValues
  <1>17. Prepared(form, ov, sep, res) BY <1>2, <1>14, <1>16, HeadCopies
  <1>18. ToTarget(pos, ov, sep, res) /\ TargetAt(code, pos, WasmTarget, src.values, form)
    BY <1>1, <1>3, <1>4, <1>5, <1>7, <1>12, <1>13
  <1> QED BY <1>2, <1>17, <1>18, TargetStep

-----------------------------------------------------------------------------
(* The theorems.                                                           *)

\* Once an operator is translated, whatever instructions were chosen for it,
\* the words from the instruction pointer on take control and values to where
\* Wasm sends them; until then no register has moved.  For every operator,
\* number of registers, and layout of the blocks' parameters.
THEOREM TransferInvariance == TransferSpec => []TransferInv
  <1>1. TransferInit => TransferInv BY TransferStarts
  <1>2. TransferInv /\ [TransferNext]_transferVars => TransferInv'
    <2> SUFFICES ASSUME TransferInv, [TransferNext]_transferVars PROVE TransferInv'
      OBVIOUS
    <2>1. CASE translate_sets BY <2>1, TranslateSets
    <2>2. CASE translate_return BY <2>2, TranslateReturn
    <2>3. CASE visit_br BY <2>3, VisitBr
    <2>4. CASE visit_br_if BY <2>4, VisitBrIf
    <2>5. CASE translate_br_table_jump BY <2>5, TableJump
    <2>6. CASE translate_br_table_0 BY <2>6, Table0
    <2>7. CASE translate_br_table_1 BY <2>7, Table1
    <2>8. CASE translate_br_table_2
      <3>1. Len(src.values) \in {2, 3} /\ Simple("2", encode_register_list(src.values))
        BY <2>8 DEF translate_br_table_2
      <3> QED BY <3>1, TableFew
    <2>9. CASE translate_br_table_3
      <3>1. Len(src.values) \in {2, 3} /\ Simple("3", encode_register_list(src.values))
        BY <2>9 DEF translate_br_table_3
      <3> QED BY <3>1, TableFew
    <2>10. CASE translate_br_table_span BY <2>10, TableSpan
    <2>11. CASE translate_br_table_many BY <2>11, TableMany
    <2>12. CASE execute_copy BY <2>12, ExecuteCopy
    <2>13. CASE execute_copy_2 BY <2>13, ExecuteCopy2
    <2>14. CASE execute_copy_imm BY <2>14, ExecuteCopyImm
    <2>15. CASE execute_copy_span \/ execute_copy_span_non_overlapping BY <2>15, ExecuteCopySpan
    <2>16. CASE execute_copy_many \/ execute_copy_many_non_overlapping BY <2>16, ExecuteCopyMany
    <2>17. CASE execute_return BY <2>17, ExecuteReturn
    <2>18. CASE execute_return_nez BY <2>18, ExecuteReturnNez
    <2>19. CASE execute_branch BY <2>19, ExecuteBranch
    <2>20. CASE execute_branch_i32_imm BY <2>20, ExecuteBranchImm
    <2>21. CASE execute_branch_table_0 BY <2>21, ExecuteTable0
    <2>22. CASE execute_branch_table_1 BY <2>22, ExecuteTable1
    <2>23. CASE execute_branch_table_2_3 BY <2>23, ExecuteTable23
    <2>24. CASE execute_branch_table_span BY <2>24, ExecuteTableSpan
    <2>25. CASE execute_branch_table_many BY <2>25, ExecuteTableMany
    <2>26. CASE UNCHANGED transferVars
      <3>1. /\ src' = src /\ next' = next /\ code' = code /\ last_instr' = last_instr /\ regs' = regs
            /\ out' = out /\ ip' = ip /\ at' = at
        BY <2>26 DEF transferVars
      <3>2. PICK now : now = Now OBVIOUS
      <3>3. Now' = now BY <3>1, <3>2 DEF Now
      <3>4. regs \in Frames BY DEF TransferInv
      <3>5. regs' \in Frames BY <3>1, <3>4
      <3>6. /\ WasmTarget' = WasmTarget /\ WasmRegs' = WasmRegs /\ Originals' = Originals
            /\ Remaining' = Remaining
        BY <3>1, <3>4, <3>5, SameWasm
      <3>7. Instr' = Instr BY <3>1 DEF Instr
      <3>8. Unmoved' = Unmoved BY <3>1 DEF Unmoved, Start
      <3>9. Ready => Ready'
        <4>1. Going => Going' BY <3>1, <3>6 DEF Going
        <4>2. Leaving => Leaving' BY <3>1, <3>6, <3>8 DEF Leaving
        <4>3. LeavingTable => LeavingTable' BY <3>1, <3>6, <3>7 DEF LeavingTable
        <4>4. MayLeave => MayLeave' BY <3>1, <3>6, <3>7, <3>8 DEF MayLeave
        <4>5. MayBranch => MayBranch' BY <3>1, <3>6, <3>7, <3>8 DEF MayBranch, Start
        <4>6. AtTable => AtTable' BY <3>1, <3>8 DEF AtTable
        <4> QED BY <4>1, <4>2, <4>3, <4>4, <4>5, <4>6 DEF Ready
      <3>10. Untranslated => Untranslated' BY <3>1, <3>8 DEF Untranslated, SetOnce
      <3>11. Arrived => Arrived' BY <3>1, <3>6 DEF Arrived
      <3>12. Encoded(Now)' BY <3>2, <3>3 DEF TransferInv, Encoded
      <3> QED BY <3>1, <3>5, <3>6, <3>9, <3>10, <3>11, <3>12 DEF TransferInv
    <2>27. CASE TransferDone BY <2>26, <2>27 DEF TransferDone
    <2> QED BY <2>1, <2>2, <2>3, <2>4, <2>5, <2>6, <2>7, <2>8, <2>9, <2>10, <2>11, <2>12, <2>13, <2>14,
               <2>15, <2>16, <2>17, <2>18, <2>19, <2>20, <2>21, <2>22, <2>23, <2>24, <2>25, <2>26, <2>27
            DEF TransferNext
  <1> QED BY <1>1, <1>2, PTL DEF TransferSpec

\* Whatever instruction the encoder picks for two assignments, a branch, a
\* conditional branch, a branch table or a return, the executor arrives where
\* Wasm sends control, every parameter or result holds the value its operand
\* had, and no other register has changed.
THEOREM SameTransferAlways == TransferSpec => []SameTransfer
  <1>1. TransferInv => SameTransfer
    <2> SUFFICES ASSUME TransferInv, next > Remaining, at # Inside \/ ip > Len(code)
                 PROVE  /\ Reached = WasmTarget
                        /\ Reached = ReturnLabel => out = Originals
                        /\ Reached # ReturnLabel => regs = WasmRegs /\ out = <<>>
      BY DEF SameTransfer, Finished, Originals
    <2>1. CASE at # Inside
      <3>1. Arrived BY <2>1 DEF TransferInv
      <3>2. Reached = at BY <2>1 DEF Reached
      <3> QED BY <3>1, <3>2 DEF Arrived
    <2>2. CASE at = Inside
      <3>1. ip > Len(code) /\ Ready BY <2>2 DEF TransferInv
      <3>2. ip \notin 1 .. Len(code)
        <4>1. Len(code) \in Nat /\ ip \in Nat BY CodeTyped DEF TransferInv
        <4> QED BY <3>1, <4>1
      <3>3. Going BY <3>1, <3>2 DEF Ready, Leaving, LeavingTable, MayLeave, MayBranch, AtTable, ReturnAt, TableAt
      <3>4. Leaves(code, ip, regs, WasmTarget, WasmRegs) BY <3>2, <3>3 DEF Going, Goes, Goes1, Goes2, CopyAt
      <3>5. out = <<>> BY <3>3 DEF Going
      <3>6. WasmTarget = FallThrough /\ regs = WasmRegs BY <3>2, <3>4 DEF Leaves
      <3>7. Reached = FallThrough /\ FallThrough # ReturnLabel BY <2>2 DEF Reached, FallThrough, ReturnLabel
      <3> QED BY <3>5, <3>6, <3>7
    <2> QED BY <2>1, <2>2
  <1> QED BY <1>1, TransferInvariance, PTL

\* The word that ends a list stands after it.
LEMMA ListEnds ==
    ASSUME TransferInv, NEW ps \in Seq(Providers), Len(ps) > 0, ListAt(code, ip + 1, ps)
    PROVE  \E n \in ip + 1 .. Len(code) :
              /\ code[n].opcode \in LastWords
              /\ \A m \in ip + 1 .. n - 1 : code[m].opcode = Param("register_list")
  <1>1. PICK l \in Nat : l = ListLen(ps) /\ l >= 1 BY ListWords
  <1>2. PICK p \in Nat : p = ip BY DEF TransferInv
  <1>3. Len(code) \in Nat BY CodeTyped
  <1>4. (p + 1) + l - 1 <= Len(code) /\ \A i \in 1 .. l : code[(p + 1) + i - 1] = encode_register_list(ps)[i]
    BY <1>1, <1>2 DEF ListAt
  <1>5. PICK n \in Nat : n = p + l OBVIOUS
  <1>6. n \in p + 1 .. Len(code) /\ (p + 1) + l - 1 = n
    <2>1. PICK c \in Nat : c = Len(code) BY <1>3
    <2>2. (p + 1) + l - 1 <= c BY <1>4, <2>1
    <2>3. n \in p + 1 .. c /\ (p + 1) + l - 1 = n BY <1>1, <1>5, <2>2
    <2> QED BY <2>1, <2>3
  <1>7. code[n].opcode \in LastWords
    <2>1. l \in 1 .. l BY <1>1
    <2>2. code[n] = encode_register_list(ps)[l] BY <1>4, <1>6, <2>1
    <2> QED BY <1>1, <2>2, ListWords
  <1>8. ASSUME NEW m \in p + 1 .. n - 1 PROVE code[m].opcode = Param("register_list")
    <2>1. PICK i \in 1 .. l : i = m - p /\ i < l BY <1>5
    <2>2. (p + 1) + i - 1 = m BY <2>1
    <2>3. code[m] = encode_register_list(ps)[i] BY <1>4, <2>2
    <2> QED BY <1>1, <2>1, <2>3, ListWords
  <1> QED BY <1>2, <1>6, <1>7, <1>8

\* Execution never arrives at a word that holds parameters of an instruction,
\* and every list of registers it reads is ended by a word that ends lists:
\* the executor, which checks neither, reads no word as what it is not.
THEOREM WordsAlwaysConsumed == TransferSpec => []WordsConsumed
  <1>1. TransferInv => WordsConsumed
    <2> SUFFICES ASSUME TransferInv, next > Remaining, ip \in DOMAIN code, at = Inside
                 PROVE  /\ Instr.opcode[1] # "param"
                        /\ Instr.opcode[2] = "many" =>
                             \E n \in ip + 1 .. Len(code) :
                                /\ code[n].opcode \in LastWords
                                /\ \A m \in ip + 1 .. n - 1 : code[m].opcode = Param("register_list")
      BY DEF WordsConsumed, LastWords
    <2>1. Ready BY DEF TransferInv
    <2>2. ip \in 1 .. Len(code)
      <3>1. PICK W : code \in Seq(W) BY CodeTyped
      <3> QED BY <3>1
    <2> DEFINE Follows == \E ps \in Seq(Providers) : Len(ps) > 0 /\ ListAt(code, ip + 1, ps)
    <2>3. ASSUME NEW q, NEW cells, Listed(q, cells) PROVE Follows BY <2>3 DEF Listed
    <2>4. ASSUME NEW q, NEW family, NEW cells, ReturnAt(code, ip, q, family, cells), Instr.opcode[2] = "many"
          PROVE  Follows
      <3>1. Listed(q, cells) BY <2>4, ReturnForms DEF Forms32
      <3> QED BY <2>3, <3>1
    <2>5. Instr.opcode[1] # "param" /\ (Instr.opcode[2] = "many" => Follows)
      <3>1. CASE Going
        <4>1. CASE Leaves(code, ip, regs, WasmTarget, WasmRegs)
          <5>1. Instr.opcode = branch BY <2>2, <4>1 DEF Leaves, Instr
          <5> QED BY <5>1 DEF branch
        <4>2. CASE \E q, head, cells : CopyAt(code, ip, q, head, cells)
          <5>1. PICK q, head, cells : CopyAt(code, ip, q, head, cells) BY <4>2
          <5>2. Instr.opcode[1] = "copy" BY <5>1, Families DEF Instr
          <5>3. Instr.opcode[2] \in {"many", "many_non_overlapping"} => Listed(q, cells) BY <5>1, CopyForms
          <5> QED BY <2>3, <5>2, <5>3
        <4> QED BY <3>1, <4>1, <4>2 DEF Going, Goes, Goes1, Goes2
      <3>2. CASE Leaving
        <4>1. PICK q : ReturnAt(code, ip, q, "return", Regs(src.values)) BY <3>2 DEF Leaving
        <4>2. Instr.opcode[1] = "return" BY <4>1, Families DEF Instr
        <4> QED BY <2>4, <4>1, <4>2
      <3>3. CASE LeavingTable BY <3>3 DEF LeavingTable
      <3>4. CASE MayLeave
        <4>1. ReturnAt(code, ip, Len(code) + 1, "return_nez", Regs(src.values)) BY <3>4 DEF MayLeave
        <4>2. Instr.opcode[1] = "return_nez" BY <4>1, Families DEF Instr
        <4> QED BY <2>4, <4>1, <4>2
      <3>5. CASE MayBranch BY <3>5 DEF MayBranch
      <3>6. CASE AtTable
        <4>1. PICK form \in {"0", "1", "2", "3", "span", "many"}, b \in Nat :
                /\ Instr.opcode = <<"branch_table", form>>
                /\ TableValues(code, ip, b, src.values, form)
          BY <3>6 DEF AtTable, TableAt, Instr
        <4>2. Instr.opcode[1] = "branch_table" /\ Instr.opcode[2] = form BY <4>1
        <4>3. ASSUME form = "many" PROVE Follows
          <5>1. src.values # <<>> /\ ListAt(code, ip + 1, src.values) BY <4>1, <4>3 DEF TableValues
          <5>2. PICK vs \in Seq(Providers) : vs = src.values BY <3>6, TableKinds DEF AtTable
          <5>3. Len(vs) > 0 BY <5>1, <5>2
          <5> QED BY <5>1, <5>2, <5>3
        <4> QED BY <4>2, <4>3
      <3> QED BY <2>1, <3>1, <3>2, <3>3, <3>4, <3>5, <3>6 DEF Ready
    <2> QED BY <2>5, ListEnds
  <1> QED BY <1>1, TransferInvariance, PTL
=============================================================================

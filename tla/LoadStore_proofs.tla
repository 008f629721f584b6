-------------------------- MODULE LoadStore_proofs --------------------------
(* The words of loads and stores are read as they were written: the executor  *)
(* goes from instruction to instruction, for any operators, memories and      *)
(* widths.                                                                    *)
EXTENDS LoadStore, SequenceTheorems, TLAPS

-----------------------------------------------------------------------------
(* The invariant *)

\* The word at s is an instruction, behind it are the words its form asks for,
\* and the word after those is one of the starts.  An optional memory index is
\* told apart from the next instruction by its opcode alone.
Begins(c, s, starts) ==
    \/ c[s].opcode = <<"trap">>
    \/ \E ty, op, form :
          /\ c[s].opcode = <<ty, op, form>>
          /\ \/ /\ form = "word" /\ s + 1 \in DOMAIN c
                /\ c[s + 1].opcode = Param("register_and_imm32") /\ s + 2 \in starts
             \/ /\ form = "word_imm" /\ s + 1 \in DOMAIN c
                /\ c[s + 1].opcode = Param("imm16_and_imm32") /\ s + 2 \in starts
             \/ form \in {"offset16", "offset16_imm"} /\ s + 1 \in starts
             \/ /\ form \in {"at", "at_imm"}
                /\ IF s + 1 \in DOMAIN c /\ c[s + 1].opcode = Param("memory_index")
                   THEN s + 2 \in starts ELSE s + 1 \in starts

\* The code falls apart into instructions, and ip is at the start of one.
Parsed(c, at, starts) ==
    /\ \E words : c \in Seq(words)
    /\ starts \subseteq 1 .. Len(c) + 1
    /\ 1 \in starts /\ Len(c) + 1 \in starts /\ at \in starts
    /\ \A s \in starts : s <= Len(c) => Begins(c, s, starts)
CodeInv == \E starts : Parsed(instrs, ip, starts)

-----------------------------------------------------------------------------
(* What the translator emits *)

\* The words of one operator.
Block(w) ==
    \/ w = <<TrapInstr>>
    \/ \E i, ty, op, form : /\ w = <<i>> /\ i.opcode = <<ty, op, form>>
                            /\ form \in {"offset16", "offset16_imm", "at", "at_imm"}
    \/ \E i, ty, op, form, m : /\ w = <<i, MemoryIndex(m)>> /\ i.opcode = <<ty, op, form>>
                               /\ form \in {"at", "at_imm"}
    \/ \E i, ty, op, p, n : /\ w = <<i, RegisterAndImm32(p, n)>>
                            /\ i.opcode = <<ty, op, "word">>
    \/ \E i, ty, op, f, n : /\ w = <<i, Imm16AndImm32(f, n)>>
                            /\ i.opcode = <<ty, op, "word_imm">>

\* Two sequences of one word each make one of two.
LEMMA PairConcat == ASSUME NEW a, NEW b PROVE <<a>> \o <<b>> = <<a, b>>
  <1>1. <<a>> \in Seq({a, b}) /\ <<b>> \in Seq({a, b}) OBVIOUS
  <1>2. /\ Len(<<a>> \o <<b>>) = 2 /\ <<a>> \o <<b>> \in Seq({a, b})
        /\ (<<a>> \o <<b>>)[1] = a /\ (<<a>> \o <<b>>)[2] = b
    BY <1>1, ConcatProperties
  <1> DEFINE s == <<a>> \o <<b>>
             t == <<a, b>>
  <1>3. t \in Seq({a, b}) /\ Len(t) = 2 /\ t[1] = a /\ t[2] = b OBVIOUS
  <1>4. s \in Seq({a, b}) /\ Len(s) = 2 /\ s[1] = a /\ s[2] = b BY <1>2
  <1> HIDE DEF s, t
  <1>5. \A i \in 1 .. Len(s) : s[i] = t[i]
    <2>1. 1 .. Len(s) = {1, 2} BY <1>4
    <2> QED BY <1>3, <1>4, <2>1
  <1>6. s = t BY <1>3, <1>4, <1>5, SeqEqual
  <1> QED BY <1>6 DEF s, t

\* An access at a constant address: the index of a memory other than 0 follows.
LEMMA AtBlock ==
    ASSUME NEW o, NEW i, NEW ty, NEW op, NEW form \in {"at", "at_imm"},
           i.opcode = <<ty, op, form>>
    PROVE  Block(At(o, i))
  <1>1. CASE ~AddressOf(o).ok BY <1>1 DEF At, Block
  <1>2. CASE AddressOf(o).ok /\ o.mem = 0
    <2>1. At(o, i) = <<i>> \o <<>> BY <1>2 DEF At, OptionalMemory
    <2>2. At(o, i) = <<i>> BY <2>1
    <2> QED BY <2>2 DEF Block
  <1>3. CASE AddressOf(o).ok /\ o.mem # 0
    <2>1. At(o, i) = <<i>> \o <<MemoryIndex(o.mem)>> BY <1>3 DEF At, OptionalMemory
    <2>2. At(o, i) = <<i, MemoryIndex(o.mem)>> BY <2>1, PairConcat
    <2> QED BY <2>2 DEF Block
  <1> QED BY <1>1, <1>2, <1>3

\* Every encoding of a load is a block.
LEMMA LoadBlock == ASSUME NEW o PROVE Block(load_code(o))
  <1>1. CASE ~IsReg(o.ptr)
    <2>1. load_code(o) = At(o, [opcode |-> Opcode(o, "at"), address |-> AddressOf(o).val]) BY <1>1 DEF load_code
    <2> QED BY <2>1, AtBlock DEF Opcode
  <1>2. CASE IsReg(o.ptr) /\ o.mem = 0 /\ Fits16(o.offset)
    BY <1>2 DEF load_code, Opcode, Block
  <1>3. CASE IsReg(o.ptr) /\ ~(o.mem = 0 /\ Fits16(o.offset))
    BY <1>3 DEF load_code, Opcode, Block
  <1> QED BY <1>1, <1>2, <1>3

\* Every encoding of a store of an integer is a block.
LEMMA IStoreBlock == ASSUME NEW o PROVE Block(istore_code(o))
  <1>1. CASE ~IsReg(o.ptr)
    <2>1. istore_code(o) = istore_at_code(o) BY <1>1 DEF istore_code
    <2>2. CASE HasField(o)
      <3>1. istore_at_code(o) = At(o, [opcode |-> Opcode(o, "at_imm"),
                                      address |-> AddressOf(o).val, val |-> FieldOf(o)])
        BY <2>2 DEF istore_at_code
      <3> QED BY <2>1, <3>1, AtBlock DEF Opcode
    <2>3. CASE ~HasField(o)
      <3>1. istore_at_code(o) = At(o, [opcode |-> Opcode(o, "at"),
                                      address |-> AddressOf(o).val, val |-> o.val])
        BY <2>3 DEF istore_at_code
      <3> QED BY <2>1, <3>1, AtBlock DEF Opcode
    <2> QED BY <2>2, <2>3
  <1>2. CASE IsReg(o.ptr) /\ o.mem = 0 /\ Fits16(o.offset)
    <2>1. istore_code(o) = istore_mem0_code(o) BY <1>2 DEF istore_code
    <2>2. CASE HasField(o) BY <2>1, <2>2 DEF istore_mem0_code, Opcode, Block
    <2>3. CASE ~HasField(o) BY <2>1, <2>3 DEF istore_mem0_code, Opcode, Block
    <2> QED BY <2>2, <2>3
  <1>3. CASE IsReg(o.ptr) /\ ~(o.mem = 0 /\ Fits16(o.offset)) /\ HasField(o)
    BY <1>3 DEF istore_code, Opcode, Block
  <1>4. CASE IsReg(o.ptr) /\ ~(o.mem = 0 /\ Fits16(o.offset)) /\ ~HasField(o)
    BY <1>4 DEF istore_code, Opcode, Block
  <1> QED BY <1>1, <1>2, <1>3, <1>4

\* Every encoding of a store of a float is a block.
LEMMA FStoreBlock == ASSUME NEW o PROVE Block(fstore_code(o))
  <1>1. CASE ~IsReg(o.ptr)
    <2>1. fstore_code(o) = At(o, [opcode |-> Opcode(o, "at"),
                                      address |-> AddressOf(o).val, val |-> o.val])
      BY <1>1 DEF fstore_code
    <2> QED BY <2>1, AtBlock DEF Opcode
  <1>2. CASE IsReg(o.ptr) /\ o.mem = 0 /\ Fits16(o.offset)
    BY <1>2 DEF fstore_code, Opcode, Block
  <1>3. CASE IsReg(o.ptr) /\ ~(o.mem = 0 /\ Fits16(o.offset))
    BY <1>3 DEF fstore_code, Opcode, Block
  <1> QED BY <1>1, <1>2, <1>3

-----------------------------------------------------------------------------
(* Steps *)

\* A block parses by itself, and does not begin with a memory index.
LEMMA BlockParsed ==
    ASSUME NEW w, Block(w)
    PROVE  /\ \E words : w \in Seq(words)
           /\ Len(w) \in {1, 2} /\ w[1].opcode # Param("memory_index")
           /\ Begins(w, 1, {Len(w) + 1})
  <1>0. \A ty, op, form, n : <<ty, op, form>> # Param(n) BY DEF Param
  <1>1. CASE w = <<TrapInstr>>
    <2>1. w \in Seq({TrapInstr}) /\ Len(w) = 1 /\ w[1].opcode = <<"trap">>
      BY <1>1 DEF TrapInstr
    <2> QED BY <2>1 DEF Begins, Param
  <1>2. CASE \E i, ty, op, form : /\ w = <<i>> /\ i.opcode = <<ty, op, form>>
                                  /\ form \in {"offset16", "offset16_imm", "at", "at_imm"}
    <2>1. PICK i, ty, op, form : /\ w = <<i>> /\ i.opcode = <<ty, op, form>>
                                 /\ form \in {"offset16", "offset16_imm", "at", "at_imm"}
      BY <1>2
    <2>2. w \in Seq({i}) /\ Len(w) = 1 /\ w[1] = i /\ 2 \notin DOMAIN w BY <2>1
    <2>3. Begins(w, 1, {Len(w) + 1}) BY <2>1, <2>2 DEF Begins
    <2> QED BY <1>0, <2>1, <2>2, <2>3
  <1>3. CASE \E i, ty, op, form, m : /\ w = <<i, MemoryIndex(m)>> /\ i.opcode = <<ty, op, form>>
                                     /\ form \in {"at", "at_imm"}
    <2>1. PICK i, ty, op, form, m : /\ w = <<i, MemoryIndex(m)>> /\ i.opcode = <<ty, op, form>>
                                    /\ form \in {"at", "at_imm"}
      BY <1>3
    <2>2. /\ w \in Seq({i, MemoryIndex(m)}) /\ Len(w) = 2 /\ w[1] = i /\ 2 \in DOMAIN w
          /\ w[2] = MemoryIndex(m)
      BY <2>1
    <2>3. w[2].opcode = Param("memory_index") BY <2>2 DEF MemoryIndex
    <2>4. Begins(w, 1, {Len(w) + 1}) BY <2>1, <2>2, <2>3 DEF Begins
    <2> QED BY <1>0, <2>1, <2>2, <2>4
  <1>4. CASE \E i, ty, op, p, n : /\ w = <<i, RegisterAndImm32(p, n)>>
                                  /\ i.opcode = <<ty, op, "word">>
    <2>1. PICK i, ty, op, p, n : /\ w = <<i, RegisterAndImm32(p, n)>>
                                 /\ i.opcode = <<ty, op, "word">>
      BY <1>4
    <2>2. /\ w \in Seq({i, RegisterAndImm32(p, n)}) /\ Len(w) = 2 /\ w[1] = i /\ 2 \in DOMAIN w
          /\ w[2] = RegisterAndImm32(p, n)
      BY <2>1
    <2>3. w[2].opcode = Param("register_and_imm32") BY <2>2 DEF RegisterAndImm32
    <2>4. Begins(w, 1, {Len(w) + 1}) BY <2>1, <2>2, <2>3 DEF Begins
    <2> QED BY <1>0, <2>1, <2>2, <2>4
  <1>5. CASE \E i, ty, op, f, n : /\ w = <<i, Imm16AndImm32(f, n)>>
                                  /\ i.opcode = <<ty, op, "word_imm">>
    <2>1. PICK i, ty, op, f, n : /\ w = <<i, Imm16AndImm32(f, n)>>
                                 /\ i.opcode = <<ty, op, "word_imm">>
      BY <1>5
    <2>2. /\ w \in Seq({i, Imm16AndImm32(f, n)}) /\ Len(w) = 2 /\ w[1] = i /\ 2 \in DOMAIN w
          /\ w[2] = Imm16AndImm32(f, n)
      BY <2>1
    <2>3. w[2].opcode = Param("imm16_and_imm32") BY <2>2 DEF Imm16AndImm32
    <2>4. Begins(w, 1, {Len(w) + 1}) BY <2>1, <2>2, <2>3 DEF Begins
    <2> QED BY <1>0, <2>1, <2>2, <2>4
  <1> QED BY <1>1, <1>2, <1>3, <1>4, <1>5 DEF Block

\* Code that parses still does with a block behind it: in particular an access
\* that stands last and has no memory index does not take the block for one.
LEMMA Extended ==
    ASSUME NEW c, NEW at, NEW starts, Parsed(c, at, starts), NEW w, Block(w)
    PROVE  \E more : Parsed(c \o w, at, more)
  <1> DEFINE d == c \o w
             more == starts \cup {Len(c) + Len(w) + 1}
  <1>1. PICK X, Y : c \in Seq(X) /\ w \in Seq(Y) BY BlockParsed DEF Parsed
  <1>2. c \in Seq(X \cup Y) /\ w \in Seq(X \cup Y) /\ Len(c) \in Nat /\ Len(w) \in {1, 2}
    <2>1. Len(c) \in Nat /\ c \in [1 .. Len(c) -> X] BY <1>1, LenProperties
    <2>2. Len(w) \in {1, 2} /\ w \in [1 .. Len(w) -> Y]
      <3>1. Len(w) \in {1, 2} BY BlockParsed
      <3> QED BY <1>1, <3>1, LenProperties
    <2>3. c \in [1 .. Len(c) -> X \cup Y] /\ w \in [1 .. Len(w) -> X \cup Y] BY <2>1, <2>2
    <2>4. c \in Seq(X \cup Y) BY <2>1, <2>3, SeqDef
    <2>5. w \in Seq(X \cup Y) BY <2>2, <2>3, SeqDef
    <2> QED BY <2>1, <2>2, <2>4, <2>5
  <1>3. /\ d \in Seq(X \cup Y) /\ Len(d) = Len(c) + Len(w)
        /\ \A i \in 1 .. Len(c) + Len(w) : d[i] = IF i <= Len(c) THEN c[i] ELSE w[i - Len(c)]
    BY <1>2, ConcatProperties
  <1>4. DOMAIN c = 1 .. Len(c) /\ DOMAIN d = 1 .. Len(c) + Len(w) /\ DOMAIN w = 1 .. Len(w)
    BY <1>2, <1>3
  <1> HIDE DEF d
  <1>5. /\ starts \subseteq 1 .. Len(c) + 1 /\ 1 \in starts /\ Len(c) + 1 \in starts
        /\ at \in starts
    BY DEF Parsed
  <1>6. ASSUME NEW s \in more, s <= Len(d) PROVE Begins(d, s, more)
    <2>1. s \in starts BY <1>2, <1>3, <1>6
    <2>2. CASE s <= Len(c)
      <3>1. Begins(c, s, starts) BY <2>1, <2>2 DEF Parsed
      <3>2. d[s] = c[s] /\ s \in 1 .. Len(c) BY <1>2, <1>3, <1>5, <2>1, <2>2
      <3>3. s + 1 \in DOMAIN c => s + 1 \in DOMAIN d /\ d[s + 1] = c[s + 1]
        BY <1>2, <1>3, <1>4, <3>2
      <3>4. s + 1 \notin DOMAIN c => d[s + 1] = w[1] BY <1>2, <1>3, <1>4, <3>2
      <3>5. w[1].opcode # Param("memory_index") BY BlockParsed
      <3>6. CASE c[s].opcode = <<"trap">> BY <3>2, <3>6 DEF Begins
      <3>7. CASE c[s].opcode # <<"trap">>
        <4>1. PICK ty, op, form :
                 /\ c[s].opcode = <<ty, op, form>>
                 /\ \/ /\ form = "word" /\ s + 1 \in DOMAIN c
                       /\ c[s + 1].opcode = Param("register_and_imm32") /\ s + 2 \in starts
                    \/ /\ form = "word_imm" /\ s + 1 \in DOMAIN c
                       /\ c[s + 1].opcode = Param("imm16_and_imm32") /\ s + 2 \in starts
                    \/ form \in {"offset16", "offset16_imm"} /\ s + 1 \in starts
                    \/ /\ form \in {"at", "at_imm"}
                       /\ IF s + 1 \in DOMAIN c /\ c[s + 1].opcode = Param("memory_index")
                          THEN s + 2 \in starts ELSE s + 1 \in starts
          BY <3>1, <3>7 DEF Begins
        <4>2. /\ d[s].opcode = <<ty, op, form>>
              /\ \/ /\ form = "word" /\ s + 1 \in DOMAIN d
                    /\ d[s + 1].opcode = Param("register_and_imm32") /\ s + 2 \in more
                 \/ /\ form = "word_imm" /\ s + 1 \in DOMAIN d
                    /\ d[s + 1].opcode = Param("imm16_and_imm32") /\ s + 2 \in more
                 \/ form \in {"offset16", "offset16_imm"} /\ s + 1 \in more
                 \/ /\ form \in {"at", "at_imm"}
                    /\ IF s + 1 \in DOMAIN d /\ d[s + 1].opcode = Param("memory_index")
                       THEN s + 2 \in more ELSE s + 1 \in more
          BY <3>2, <3>3, <3>4, <3>5, <4>1
        <4> HIDE DEF more
        <4> QED BY <4>2 DEF Begins
      <3> QED BY <3>6, <3>7
    <2>3. CASE s = Len(c) + 1
      <3>1. Begins(w, 1, {Len(w) + 1}) BY BlockParsed
      <3>2. d[s] = w[1] BY <1>2, <1>3, <2>3
      <3>3. 2 \in DOMAIN w <=> s + 1 \in DOMAIN d BY <1>2, <1>4, <2>3
      <3>4. 2 \in DOMAIN w => d[s + 1] = w[2] BY <1>2, <1>3, <1>4, <2>3
      <3>5. \A n \in {2, 3} : n \in {Len(w) + 1} => s + (n - 1) \in more BY <1>2, <2>3
      <3>6. /\ 3 \in {Len(w) + 1} => s + 2 \in more
            /\ 2 \in {Len(w) + 1} => s + 1 \in more
        BY <1>2, <2>3
      <3> HIDE DEF more
      <3>7. 1 + 1 = 2 /\ 1 + 2 = 3 OBVIOUS
      <3> QED BY <3>1, <3>2, <3>3, <3>4, <3>6, <3>7 DEF Begins
    <2> QED BY <1>2, <1>5, <2>1, <2>2, <2>3
  <1>7. more \subseteq 1 .. Len(d) + 1 /\ 1 \in more /\ Len(d) + 1 \in more /\ at \in more
    <2>1. more \subseteq 1 .. Len(d) + 1
      <3>1. \A s \in starts : s \in 1 .. Len(c) + 1 BY <1>5
      <3>2. \A s \in 1 .. Len(c) + 1 : s \in 1 .. Len(d) + 1 BY <1>2, <1>3
      <3>3. Len(c) + Len(w) + 1 \in 1 .. Len(d) + 1 BY <1>2, <1>3
      <3> QED BY <3>1, <3>2, <3>3
    <2>2. Len(d) + 1 \in more BY <1>2, <1>3
    <2> QED BY <1>5, <2>1, <2>2
  <1>8. Parsed(d, at, more) BY <1>3, <1>6, <1>7 DEF Parsed
  <1> QED BY <1>8 DEF d

\* A translator function appends a block.
LEMMA TranslateStep ==
    ASSUME CodeInv, NEW ops, NEW w, Block(w), Translate(ops, w) PROVE CodeInv'
  <1>1. instrs' = instrs \o w /\ ip' = ip BY DEF Translate
  <1>2. PICK c, i : c = instrs /\ i = ip OBVIOUS
  <1>3. PICK starts : Parsed(c, i, starts) BY <1>2 DEF CodeInv
  <1>4. \E more : Parsed(c \o w, i, more) BY <1>3, Extended
  <1> QED BY <1>1, <1>2, <1>4 DEF CodeInv

\* An access that succeeds goes on at one of the starts.
LEMMA Advance ==
    ASSUME NEW starts, Parsed(instrs, ip, starts), NEW next \in starts,
           instrs' = instrs, ip' = ip \/ ip' = next
    PROVE  CodeInv'
  <1>1. ip' \in starts BY DEF Parsed
  <1>2. Parsed(instrs', ip', starts) BY <1>1 DEF Parsed
  <1> QED BY <1>2 DEF CodeInv

\* Where the next instruction is, by the form of this one.
LEMMA NextStart ==
    ASSUME NEW starts, Parsed(instrs, ip, starts), ip \in DOMAIN instrs, NEW arms, NEW form,
           Runs(arms, form), Executing.opcode # <<"trap">>
    PROVE  /\ form \in {"word", "word_imm"} => ip + 2 \in starts
           /\ form \in {"offset16", "offset16_imm"} => ip + 1 \in starts
           /\ form \in {"at", "at_imm"} => fetch_optional_memory(ip).ip + 1 \in starts
  <1>1. ip \in starts /\ ip \in 1 .. Len(instrs) BY DEF Parsed
  <1>2. Begins(instrs, ip, starts) BY <1>1 DEF Parsed
  <1>3. Executing = instrs[ip] /\ Executing.opcode[3] = form BY DEF Executing, Runs
  <1>4. PICK ty, op, f :
           /\ instrs[ip].opcode = <<ty, op, f>>
           /\ \/ /\ f = "word" /\ ip + 1 \in DOMAIN instrs
                 /\ instrs[ip + 1].opcode = Param("register_and_imm32") /\ ip + 2 \in starts
              \/ /\ f = "word_imm" /\ ip + 1 \in DOMAIN instrs
                 /\ instrs[ip + 1].opcode = Param("imm16_and_imm32") /\ ip + 2 \in starts
              \/ f \in {"offset16", "offset16_imm"} /\ ip + 1 \in starts
              \/ /\ f \in {"at", "at_imm"}
                 /\ IF ip + 1 \in DOMAIN instrs /\ instrs[ip + 1].opcode = Param("memory_index")
                    THEN ip + 2 \in starts ELSE ip + 1 \in starts
    BY <1>2, <1>3 DEF Begins
  <1>5. f = form BY <1>3, <1>4
  <1>6. ip + 1 + 1 = ip + 2 BY <1>1
  <1> QED BY <1>4, <1>5, <1>6 DEF fetch_optional_memory

\* No arm of the two dispatch tables is a trap.
LEMMA ArmsNotTrap ==
    ASSUME NEW form, RunsLoad(form) \/ RunsStore(form)
    PROVE  Executing.opcode # <<"trap">> /\ ip \in DOMAIN instrs /\ \E arms : Runs(arms, form)
  <1>1. ASSUME NEW x \in load_arms \cup store_arms PROVE x # <<"trap">>
    <2>1. \A ty, ops, forms : \A y \in Ops(ty, ops, forms) : y # <<"trap">> BY DEF Ops
    <2>2. \A y \in load_numbers \cup store_floats : y # <<"trap">>
      BY DEF load_numbers, store_floats
    <2> QED BY <1>1, <2>1, <2>2
        DEF load_arms, store_arms, load_f64_i32_8, load_i32_16_i64_8_s, load_i64_8_u_16,
            load_i64_32, store_i32, store_i32_8, store_i32_16, store_i64, store_i64_8,
            store_i64_16, store_i64_32
  <1> QED BY <1>1 DEF RunsLoad, RunsStore, Runs, execute_load_arms, execute_store_arms

\* Before anything is translated there is one start.
LEMMA InitCode == AccessInit => CodeInv
  <1> SUFFICES ASSUME AccessInit PROVE CodeInv OBVIOUS
  <1>1. instrs = <<>> /\ ip = 1 BY DEF AccessInit
  <1>2. instrs \in Seq({}) /\ Len(instrs) = 0 BY <1>1
  <1>3. Parsed(instrs, ip, {1}) BY <1>1, <1>2 DEF Parsed
  <1> QED BY <1>3 DEF CodeInv

\* The executor's step, by the form of the instruction.
LEMMA RunStep ==
    ASSUME CodeInv, NEW form, RunsLoad(form) \/ RunsStore(form), NEW next,
           \/ form \in {"word", "word_imm"} /\ next = ip + 2
           \/ form \in {"offset16", "offset16_imm"} /\ next = ip + 1
           \/ form \in {"at", "at_imm"} /\ next = fetch_optional_memory(ip).ip + 1,
           instrs' = instrs, ip' = ip \/ ip' = next
    PROVE  CodeInv'
  <1>1. PICK starts : Parsed(instrs, ip, starts) BY DEF CodeInv
  <1>2. Executing.opcode # <<"trap">> /\ ip \in DOMAIN instrs /\ \E arms : Runs(arms, form)
    BY ArmsNotTrap
  <1>3. PICK arms : Runs(arms, form) BY <1>2
  <1>4. next \in starts BY <1>1, <1>2, <1>3, NextStart
  <1> QED BY <1>1, <1>4, Advance

\* Each action keeps the code parsed and ip at a start.
LEMMA NextCode == ASSUME CodeInv, [AccessNext]_accessVars PROVE CodeInv'
  <1>1. CASE translate_load
    <2>1. PICK w : w = load_code(prog[pos]) OBVIOUS
    <2>2. PICK o : o = prog[pos] OBVIOUS
    <2>3. Block(w) BY <2>1, <2>2, LoadBlock
    <2> QED BY <1>1, <2>1, <2>3, TranslateStep DEF translate_load
  <1>2. CASE translate_istore
    <2>1. PICK w : w = istore_code(prog[pos]) OBVIOUS
    <2>2. PICK o : o = prog[pos] OBVIOUS
    <2>3. Block(w) BY <2>1, <2>2, IStoreBlock
    <2> QED BY <1>2, <2>1, <2>3, TranslateStep DEF translate_istore
  <1>3. CASE translate_fstore
    <2>1. PICK w : w = fstore_code(prog[pos]) OBVIOUS
    <2>2. PICK o : o = prog[pos] OBVIOUS
    <2>3. Block(w) BY <2>1, <2>2, FStoreBlock
    <2> QED BY <1>3, <2>1, <2>3, TranslateStep DEF translate_fstore
  <1>4. CASE execute_load
    <2>1. PICK next : next = ip + 2 OBVIOUS
    <2>2. instrs' = instrs /\ (ip' = ip \/ ip' = next) BY <1>4, <2>1 DEF execute_load, LoadFrom
    <2> QED BY <1>4, <2>1, <2>2, RunStep DEF execute_load
  <1>5. CASE execute_load_at
    <2>1. PICK next : next = fetch_optional_memory(ip).ip + 1 OBVIOUS
    <2>2. instrs' = instrs /\ (ip' = ip \/ ip' = next) BY <1>5, <2>1 DEF execute_load_at, LoadFrom
    <2> QED BY <1>5, <2>1, <2>2, RunStep DEF execute_load_at
  <1>6. CASE execute_load_offset16
    <2>1. PICK next : next = ip + 1 OBVIOUS
    <2>2. instrs' = instrs /\ (ip' = ip \/ ip' = next)
      BY <1>6, <2>1 DEF execute_load_offset16, LoadFrom
    <2> QED BY <1>6, <2>1, <2>2, RunStep DEF execute_load_offset16
  <1>7. CASE execute_store
    <2>1. PICK next : next = ip + 2 OBVIOUS
    <2>2. instrs' = instrs /\ (ip' = ip \/ ip' = next) BY <1>7, <2>1 DEF execute_store, StoreTo
    <2> QED BY <1>7, <2>1, <2>2, RunStep DEF execute_store
  <1>8. CASE execute_store_imm
    <2>1. PICK next : next = ip + 2 OBVIOUS
    <2>2. instrs' = instrs /\ (ip' = ip \/ ip' = next) BY <1>8, <2>1 DEF execute_store_imm, StoreTo
    <2> QED BY <1>8, <2>1, <2>2, RunStep DEF execute_store_imm
  <1>9. CASE execute_store_offset16
    <2>1. PICK next : next = ip + 1 OBVIOUS
    <2>2. instrs' = instrs /\ (ip' = ip \/ ip' = next)
      BY <1>9, <2>1 DEF execute_store_offset16, StoreTo
    <2> QED BY <1>9, <2>1, <2>2, RunStep DEF execute_store_offset16
  <1>10. CASE execute_store_offset16_imm16
    <2>1. PICK next : next = ip + 1 OBVIOUS
    <2>2. instrs' = instrs /\ (ip' = ip \/ ip' = next)
      BY <1>10, <2>1 DEF execute_store_offset16_imm16, StoreTo
    <2> QED BY <1>10, <2>1, <2>2, RunStep DEF execute_store_offset16_imm16
  <1>11. CASE execute_store_at
    <2>1. PICK next : next = fetch_optional_memory(ip).ip + 1 OBVIOUS
    <2>2. instrs' = instrs /\ (ip' = ip \/ ip' = next)
      BY <1>11, <2>1 DEF execute_store_at, StoreTo
    <2> QED BY <1>11, <2>1, <2>2, RunStep DEF execute_store_at
  <1>12. CASE execute_store_at_imm16
    <2>1. PICK next : next = fetch_optional_memory(ip).ip + 1 OBVIOUS
    <2>2. instrs' = instrs /\ (ip' = ip \/ ip' = next)
      BY <1>12, <2>1 DEF execute_store_at_imm16, StoreTo
    <2> QED BY <1>12, <2>1, <2>2, RunStep DEF execute_store_at_imm16
  <1>13. CASE execute_trap \/ AccessDone \/ UNCHANGED accessVars
    <2>1. instrs' = instrs /\ ip' = ip BY <1>13 DEF execute_trap, AccessDone, accessVars
    <2> QED BY <2>1 DEF CodeInv
  <1> QED BY <1>1, <1>2, <1>3, <1>4, <1>5, <1>6, <1>7, <1>8, <1>9, <1>10, <1>11, <1>12, <1>13
      DEF AccessNext

\* At the start of an instruction there is no stray word.
LEMMA StartIsInstruction == CodeInv => NoStrayWord
  <1> SUFFICES ASSUME CodeInv, ip \in DOMAIN instrs
               PROVE  /\ Executing.opcode \notin invalid_instruction_words
                      /\ \/ Executing.opcode = <<"trap">>
                         \/ /\ Executing.opcode[3] = "word" =>
                                   Word(1).opcode = Param("register_and_imm32")
                            /\ Executing.opcode[3] = "word_imm" =>
                                   Word(1).opcode = Param("imm16_and_imm32")
    BY DEF NoStrayWord
  <1>1. PICK starts : Parsed(instrs, ip, starts) BY DEF CodeInv
  <1>2. PICK words : instrs \in Seq(words) BY <1>1 DEF Parsed
  <1>3. ip \in starts /\ ip \in 1 .. Len(instrs) BY <1>1, <1>2, LenProperties DEF Parsed
  <1>4. Begins(instrs, ip, starts) BY <1>1, <1>3 DEF Parsed
  <1>5. CASE instrs[ip].opcode = <<"trap">>
    <2>1. \A n : <<"trap">> # Param(n) BY DEF Param
    <2> QED BY <1>5, <2>1 DEF Executing, invalid_instruction_words
  <1>6. CASE instrs[ip].opcode # <<"trap">>
    <2>1. PICK ty, op, form :
             /\ instrs[ip].opcode = <<ty, op, form>>
             /\ form = "word" => instrs[ip + 1].opcode = Param("register_and_imm32")
             /\ form = "word_imm" => instrs[ip + 1].opcode = Param("imm16_and_imm32")
      BY <1>4, <1>6 DEF Begins
    <2>2. \A n : <<ty, op, form>> # Param(n) BY DEF Param
    <2>3. instrs[ip].opcode[3] = form BY <2>1
    <2> QED BY <2>1, <2>2, <2>3 DEF Executing, Word, invalid_instruction_words
  <1> QED BY <1>5, <1>6

-----------------------------------------------------------------------------
(* What an access does *)

\* The integers that memories hold.
StoredTypes == {"i8", "i16", "i32", "i64"}
Operators == LoadOperators \cup StoreOperators

\* A quotient of what is not below the divisor.
LEMMA Quotient ==
    ASSUME NEW a \in Nat, NEW b \in Nat \ {0}, b <= a PROVE a \div b \in Nat /\ a \div b >= 1
  OBVIOUS

\* Every integer takes at least one byte.
LEMMA Sizes == ASSUME NEW int \in StoredTypes PROVE Size(int) \in Nat /\ Size(int) >= 1
  <1>1. Width[int] \in Nat /\ Width["i8"] \in Nat \ {0} /\ Width["i8"] <= Width[int]
    BY WidthAssumption DEF StoredTypes
  <1>2. PICK a, b : a = Width[int] /\ b = Width["i8"] OBVIOUS
  <1>3. a \div b \in Nat /\ a \div b >= 1 BY <1>1, <1>2, Quotient
  <1> QED BY <1>2, <1>3 DEF Size

\* The widths of the operators: what is kept in memory is no wider than the value.
LEMMA OperatorWidths ==
    ASSUME NEW ty, NEW op, <<ty, op>> \in Operators
    PROVE  /\ Stored(ty, op) \in StoredTypes /\ TypeBits(ty) \in {"i32", "i64"}
           /\ Width[Stored(ty, op)] <= Width[TypeBits(ty)]
           /\ op = "store8" => Stored(ty, op) = "i8"
           /\ op = "store16" => Stored(ty, op) = "i16"
           /\ op \in {"store", "store32"} => Stored(ty, op) \in {"i32", "i64"}
  <1>0. /\ Width["i8"] <= Width["i32"] /\ Width["i16"] <= Width["i32"]
        /\ Width["i8"] <= Width["i64"] /\ Width["i16"] <= Width["i64"]
        /\ Width["i32"] <= Width["i64"] /\ Width["i32"] <= Width["i32"]
        /\ Width["i64"] <= Width["i64"]
    BY WidthAssumption
  <1>1. /\ ty \in {"i32", "i64", "f32", "f64"}
        /\ op \in Loads \cup {"store", "store8", "store16", "store32"}
        /\ op \notin {"load", "store"} => ty \in {"i32", "i64"}
        /\ op \in {"load32_s", "load32_u", "store32"} => ty = "i64"
    BY DEF Operators, LoadOperators, StoreOperators, NarrowLoads, Loads
  <1>2. TypeBits(ty) = IF ty \in {"i32", "f32"} THEN "i32" ELSE "i64"
    BY <1>1 DEF TypeBits
  <1>3. CASE op \in {"load", "store"}
    <2>1. Stored(ty, op) = TypeBits(ty) BY <1>3 DEF Stored
    <2> QED BY <1>0, <1>2, <1>3, <2>1 DEF StoredTypes
  <1>4. CASE op \in {"load8_s", "load8_u", "store8"}
    <2>1. Stored(ty, op) = "i8" BY <1>4 DEF Stored
    <2> QED BY <1>0, <1>2, <1>4, <2>1 DEF StoredTypes
  <1>5. CASE op \in {"load16_s", "load16_u", "store16"}
    <2>1. Stored(ty, op) = "i16" BY <1>5 DEF Stored
    <2> QED BY <1>0, <1>2, <1>5, <2>1 DEF StoredTypes
  <1>6. CASE op \in {"load32_s", "load32_u", "store32"}
    <2>1. Stored(ty, op) = "i32" BY <1>6 DEF Stored
    <2> QED BY <1>0, <1>1, <1>2, <1>6, <2>1 DEF StoredTypes
  <1> QED BY <1>1, <1>3, <1>4, <1>5, <1>6 DEF Loads

\* An address that fits neither the 32 bits nor the memory: one test implies the
\* other, for a memory of at most 2^32 bytes.
LEMMA Bounds ==
    ASSUME NEW l \in Nat, NEW u \in Int, l <= u + 1, NEW n \in Nat, n >= 1, NEW e \in Nat
    PROVE  (e <= u /\ e <= l /\ n <= l - e) <=> ~(e + 1 + n - 1 > l)
  OBVIOUS

\* The greatest address is an integer.
LEMMA Address == UMax("i32") \in Nat
  <1> DEFINE H == 2^(Width["i32"] - 1)
  <1>1. H \in Int BY WidthAssumption
  <1>2. H > 0 /\ 2^Width["i32"] = 2 * H BY PowerAssumption
  <1> HIDE DEF H
  <1> QED BY <1>1, <1>2 DEF UMax

\* A load succeeds when Wasm says so, and yields what Wasm says.
LEMMA LoadResult ==
    ASSUME NEW m, Len(m) \in Nat, Len(m) <= UMax("i32") + 1, NEW a \in Nat, NEW f \in Nat,
           NEW ty, NEW op, <<ty, op>> \in Operators
    PROVE  LET r == load_extend(m, a, f, ty, op)
               bits == Width[Stored(ty, op)]
               n == bits \div Width.i8
               u == FromBytes(m, a + f, n)
           IN /\ r.ok = ~(a + f + 1 + n - 1 > Len(m))
              /\ r.ok => r.val = IF IsSigned(op)
                                 THEN WasmSigned(u, bits) % 2^Width[TypeBits(ty)] ELSE u
  <1> DEFINE int == Stored(ty, op)
             bits == Width[int]
             n == bits \div Width.i8
             u == FromBytes(m, a + f, n)
             ea == effective_address(a, f)
             r == load_extend(m, a, f, ty, op)
             wasm == IF IsSigned(op) THEN WasmSigned(u, bits) % 2^Width[TypeBits(ty)] ELSE u
  <1>1. int \in StoredTypes BY OperatorWidths
  <1>2. n = Size(int) /\ n \in Nat /\ n >= 1 BY <1>1, Sizes DEF Size
  <1>3. UMax("i32") \in Nat /\ a + f \in Nat BY Address
  <1>4. ea = IF a + f > UMax("i32") THEN Trap("MemoryOutOfBounds") ELSE Ok(a + f)
    BY DEF effective_address
  <1>5. WasmSigned(u, bits) = Signed(int, u) BY DEF WasmSigned, Signed
  <1>6. wasm = IF IsSigned(op) THEN Wrap(TypeBits(ty), Signed(int, u)) ELSE u
    BY <1>5 DEF Wrap
  <1>7. r = IF ~ea.ok THEN ea
            ELSE IF ~InBounds(m, ea.val, Size(int)) THEN Trap("MemoryOutOfBounds")
            ELSE Ok(IF IsSigned(op)
                    THEN Wrap(TypeBits(ty), Signed(int, FromBytes(m, ea.val, Size(int))))
                    ELSE FromBytes(m, ea.val, Size(int)))
    BY DEF load_extend
  <1>8. (a + f <= UMax("i32") /\ InBounds(m, a + f, n)) = ~(a + f + 1 + n - 1 > Len(m))
    BY <1>2, <1>3, Bounds DEF InBounds
  <1> HIDE DEF int, bits, n, u, ea, r, wasm
  <1>9. CASE a + f > UMax("i32")
    <2>1. ~(a + f <= UMax("i32")) BY <1>3, <1>9
    <2>2. ~ea.ok BY <1>4, <1>9 DEF Trap
    <2>3. r = ea BY <1>7, <2>2
    <2>4. r.ok = FALSE BY <1>4, <1>9, <2>3 DEF Trap
    <2>5. (a + f + 1 + n - 1 > Len(m)) = TRUE BY <1>8, <2>1
    <2>6. /\ r.ok = ~(a + f + 1 + n - 1 > Len(m))
          /\ r.ok => r.val = wasm
      BY <2>4, <2>5
    <2> QED BY <2>6 DEF r, n, bits, int, u, wasm
  <1>10. CASE ~(a + f > UMax("i32"))
    <2>1. a + f <= UMax("i32") BY <1>3, <1>10
    <2>2. ea.ok /\ ea.val = a + f BY <1>4, <1>10 DEF Ok
    <2>3. CASE ~InBounds(m, a + f, n)
      <3>1. r = Trap("MemoryOutOfBounds") BY <1>2, <1>7, <2>2, <2>3
      <3>2. r.ok = FALSE BY <3>1 DEF Trap
      <3>3. /\ r.ok = ~(a + f + 1 + n - 1 > Len(m))
            /\ r.ok => r.val = wasm
        BY <1>8, <2>3, <3>2
      <3> QED BY <3>3 DEF r, n, bits, int, u, wasm
    <2>4. CASE InBounds(m, a + f, n)
      <3>1. r = Ok(wasm) BY <1>2, <1>6, <1>7, <2>2, <2>4 DEF u
      <3>2. r.ok = TRUE /\ r.val = wasm BY <3>1 DEF Ok
      <3>3. /\ r.ok = ~(a + f + 1 + n - 1 > Len(m))
            /\ r.ok => r.val = wasm
        BY <1>8, <2>1, <2>4, <3>2
      <3> QED BY <3>3 DEF r, n, bits, int, u, wasm
    <2> QED BY <2>3, <2>4
  <1> QED BY <1>9, <1>10

\* The bytes of u written over those of m.
BytesOver(m, first, n, u) ==
    [i \in DOMAIN m |-> IF i \in first .. first + n - 1
                        THEN u \div Byte^(i - first) % Byte ELSE m[i]]

StoresAs(m, a, f, ty, op, v, w) ==
    LET r == store_wrap(m, a, f, v, ty, op)
        bits == Width[Stored(ty, op)]
        n == bits \div Width.i8
        first == a + f + 1
    IN /\ r.ok = ~(first + n - 1 > Len(m))
       /\ r.ok => r.val = BytesOver(m, first, n, w % 2^bits)

\* The bytes a store leaves, for any value with the same low bits.
LEMMA StoreResult ==
    ASSUME NEW S, NEW m \in Seq(S), Len(m) <= UMax("i32") + 1, NEW a \in Nat, NEW f \in Nat,
           NEW ty, NEW op, <<ty, op>> \in Operators, NEW v, NEW w,
           Wrap(Stored(ty, op), v) = Wrap(Stored(ty, op), w)
    PROVE  StoresAs(m, a, f, ty, op, v, w)
  <1> DEFINE int == Stored(ty, op)
             bits == Width[int]
             n == bits \div Width.i8
             first == a + f + 1
             ea == effective_address(a, f)
             r == store_wrap(m, a, f, v, ty, op)
             wasm == BytesOver(m, first, n, w % 2^bits)
             code(e, k) == [i \in DOMAIN m |-> IF i - 1 \in e .. e + k - 1
                                   THEN Wrap(int, v) \div Byte^(i - 1 - e) % Byte
                                   ELSE m[i]]
  <1>1. int \in StoredTypes BY OperatorWidths
  <1>2. n = Size(int) /\ n \in Nat /\ n >= 1 BY <1>1, Sizes DEF Size
  <1>3. UMax("i32") \in Nat /\ a + f \in Nat /\ Len(m) \in Nat BY Address
  <1>4. ea = IF a + f > UMax("i32") THEN Trap("MemoryOutOfBounds") ELSE Ok(a + f)
    BY DEF effective_address
  <1>5. Wrap(int, v) = w % 2^bits BY DEF Wrap
  <1>6. code(a + f, n) = wasm
    <2>1. \A i \in DOMAIN m : i \in Int BY DOMAIN m = 1 .. Len(m)
    <2>2. \A i \in Int : /\ (i - 1 \in a + f .. a + f + n - 1) <=> (i \in first .. first + n - 1)
                         /\ i - 1 - (a + f) = i - first
      <3> HIDE DEF n
      <3> QED BY <1>2, <1>3
    <2> HIDE DEF n, first, bits, int
    <2>3. \A i \in DOMAIN m :
             (IF i - 1 \in a + f .. a + f + n - 1
              THEN Wrap(int, v) \div Byte^(i - 1 - (a + f)) % Byte ELSE m[i])
             = (IF i \in first .. first + n - 1
                THEN (w % 2^bits) \div Byte^(i - first) % Byte ELSE m[i])
      BY <1>5, <2>1, <2>2
    <2> QED BY <2>3 DEF BytesOver
  <1>7. r = IF ~ea.ok THEN ea
            ELSE IF ~InBounds(m, ea.val, Size(int)) THEN Trap("MemoryOutOfBounds")
            ELSE Ok(code(ea.val, Size(int)))
    BY DEF store_wrap
  <1>8. (a + f <= UMax("i32") /\ InBounds(m, a + f, n)) = ~(first + n - 1 > Len(m))
    BY <1>2, <1>3, Bounds DEF InBounds
  <1> HIDE DEF int, bits, n, ea, r, wasm, code, first
  <1>9. CASE a + f > UMax("i32")
    <2>1. ~(a + f <= UMax("i32")) BY <1>3, <1>9
    <2>2. ~ea.ok BY <1>4, <1>9 DEF Trap
    <2>3. r = ea BY <1>7, <2>2
    <2>4. r.ok = FALSE BY <1>4, <1>9, <2>3 DEF Trap
    <2>5. (first + n - 1 > Len(m)) = TRUE BY <1>8, <2>1
    <2>6. /\ r.ok = ~(first + n - 1 > Len(m))
          /\ r.ok => r.val = wasm
      BY <2>4, <2>5
    <2> QED BY <2>6 DEF r, n, bits, int, first, wasm, StoresAs
  <1>10. CASE ~(a + f > UMax("i32"))
    <2>1. a + f <= UMax("i32") BY <1>3, <1>10
    <2>2. ea.ok /\ ea.val = a + f BY <1>4, <1>10 DEF Ok
    <2>3. CASE ~InBounds(m, a + f, n)
      <3>1. r = Trap("MemoryOutOfBounds") BY <1>2, <1>7, <2>2, <2>3
      <3>2. r.ok = FALSE BY <3>1 DEF Trap
      <3>3. /\ r.ok = ~(first + n - 1 > Len(m))
            /\ r.ok => r.val = wasm
        BY <1>8, <2>3, <3>2
      <3> QED BY <3>3 DEF r, n, bits, int, first, wasm, StoresAs
    <2>4. CASE InBounds(m, a + f, n)
      <3>1. r = Ok(wasm) BY <1>2, <1>6, <1>7, <2>2, <2>4
      <3>2. r.ok = TRUE /\ r.val = wasm BY <3>1 DEF Ok
      <3>3. /\ r.ok = ~(first + n - 1 > Len(m))
            /\ r.ok => r.val = wasm
        BY <1>8, <2>1, <2>4, <3>2
      <3> QED BY <3>3 DEF r, n, bits, int, first, wasm, StoresAs
    <2> QED BY <2>3, <2>4
  <1> QED BY <1>9, <1>10

\* Remainders: of what is close to the modulus, and of what differs by a multiple
\* of it.
LEMMA SmallRemainder ==
    ASSUME NEW a \in Int, NEW m \in Nat, 0 <= a, a < m PROVE a % m = a
  OBVIOUS
LEMMA NegativeRemainder ==
    ASSUME NEW a \in Int, NEW m \in Nat, 0 - m <= a, a < 0 PROVE a % m = a + m
  OBVIOUS
LEMMA Remainder ==
    ASSUME NEW a \in Int, NEW m \in Nat \ {0}
    PROVE  a % m \in Int /\ 0 <= a % m /\ a % m < m /\ \E q \in Int : a = m * q + (a % m)
  <1>1. a = m * (a \div m) + (a % m) /\ a \div m \in Int OBVIOUS
  <1>2. a % m \in Int /\ 0 <= a % m /\ a % m < m OBVIOUS
  <1>3. PICK q, r : q = a \div m /\ r = a % m OBVIOUS
  <1>4. a = m * q + r /\ q \in Int BY <1>1, <1>3
  <1>5. \E k \in Int : a = m * k + r BY <1>4
  <1> QED BY <1>2, <1>3, <1>5
LEMMA UniqueRemainder ==
    ASSUME NEW m \in Nat \ {0}, NEW r \in Int, 0 <= r, r < m, NEW s \in Int, 0 <= s, s < m,
           NEW k \in Int, r = s + m * k
    PROVE  r = s
  <1>1. CASE k = 0 BY <1>1
  <1>2. CASE k >= 1
    <2>1. m * k >= m BY <1>2
    <2> QED BY <2>1
  <1>3. CASE k <= -1
    <2>1. m * k <= -m BY <1>3
    <2> QED BY <2>1
  <1> QED BY <1>1, <1>2, <1>3
LEMMA SameRemainder ==
    ASSUME NEW m \in Nat \ {0}, NEW a \in Int, NEW b \in Int, NEW k \in Int, a = b + m * k
    PROVE  a % m = b % m
  <1>3. PICK r, s : r = a % m /\ s = b % m OBVIOUS
  <1>1. PICK q \in Int : a = m * q + r BY <1>3, Remainder
  <1>2. PICK p \in Int : b = m * p + s BY <1>3, Remainder
  <1>4. r \in Int /\ 0 <= r /\ r < m /\ s \in Int /\ 0 <= s /\ s < m
    BY <1>3, Remainder
  <1>5. r = s + m * (p + k - q)
    <2>1. PICK x, y, z : x = m * p /\ y = m * k /\ z = m * q OBVIOUS
    <2>2. x \in Int /\ y \in Int /\ z \in Int BY <2>1
    <2>3. m * (p + k - q) = x + y - z BY <2>1
    <2>4. a = z + r /\ b = x + s /\ a = b + y BY <1>1, <1>2, <2>1
    <2>5. r = s + (x + y - z) BY <1>4, <2>2, <2>4
    <2> QED BY <2>3, <2>5
  <1>6. p + k - q \in Int OBVIOUS
  <1>7. r = s BY <1>4, <1>5, <1>6, UniqueRemainder
  <1> QED BY <1>3, <1>7

\* Cutting a number to many bits and then to few is cutting it to few.
LEMMA NestedRemainder ==
    ASSUME NEW m \in Nat \ {0}, NEW n \in Nat \ {0}, n % m = 0, NEW a \in Int
    PROVE  (a % n) % m = a % m
  <1>0. PICK r, z : r = a % n /\ z = n % m OBVIOUS
  <1>1. PICK q \in Int : a = n * q + r BY <1>0, Remainder
  <1>n. n \in Int OBVIOUS
  <1>2. PICK p \in Int : n = m * p + z BY <1>0, <1>n, Remainder
  <1>3. n = m * p BY <1>0, <1>2
  <1>4. r \in Int BY <1>0, Remainder
  <1>5. p * q \in Int OBVIOUS
  <1>6. a = r + m * (p * q)
    <2>1. n * q = m * (p * q) BY <1>3
    <2>2. PICK x : x = n * q OBVIOUS
    <2>3. x \in Int BY <2>2
    <2>4. a = r + x BY <1>1, <1>4, <2>2, <2>3
    <2> QED BY <2>1, <2>2, <2>4
  <1>7. PICK k : k = p * q OBVIOUS
  <1>b. k \in Int /\ a = r + m * k BY <1>5, <1>6, <1>7
  <1>8. a % m = r % m BY <1>4, <1>b, SameRemainder
  <1> QED BY <1>0, <1>8

\* The signed reading of a pattern differs from it by a multiple of the modulus.
LEMMA SignedRemainder ==
    ASSUME NEW m \in Nat \ {0}, NEW a \in Int, NEW h \in Int
    PROVE  LET b == a % m
               v == IF b < h THEN b ELSE b - m
           IN v \in Int /\ v % m = b
  <1> DEFINE b == a % m
             v == IF b < h THEN b ELSE b - m
  <1>1. b \in Int /\ 0 <= b /\ b < m BY Remainder
  <1> HIDE DEF b
  <1>2. b % m = b BY <1>1, SmallRemainder
  <1>3. PICK c : c = b - m OBVIOUS
  <1>c. c \in Int /\ c = b + m * (-1) /\ -1 \in Int BY <1>1, <1>3
  <1>4. (b - m) % m = b % m BY <1>1, <1>3, <1>c, SameRemainder
  <1>5. v \in Int /\ v % m = b BY <1>1, <1>2, <1>4
  <1> QED BY <1>5 DEF b

\* A small signed constant survives its trip through the bits of an instruction.
LEMMA ImmediateKept ==
    ASSUME NEW ty, NEW op, <<ty, op>> \in Operators, op \in {"store", "store8", "store16", "store32"},
           NEW c \in Nat,
           LET v == Signed(Stored(ty, op), Wrap(Stored(ty, op), c))
           IN -SMin(Field(op)) <= v /\ v <= SMax(Field(op))
    PROVE  LET v == Signed(Stored(ty, op), Wrap(Stored(ty, op), c))
           IN Wrap(Stored(ty, op), Wrap(TypeBits(ty), Signed(Field(op), Wrap(Field(op), v))))
              = Wrap(Stored(ty, op), c)
  <1> DEFINE int == Stored(ty, op)
             wide == TypeBits(ty)
             field == Field(op)
             P(t) == 2^Width[t]
             H(t) == 2^(Width[t] - 1)
             v == Signed(int, Wrap(int, c))
  <1>1. \A t \in StoredTypes : P(t) \in Int /\ H(t) \in Int
    BY WidthAssumption DEF StoredTypes
  <1>2. \A t \in StoredTypes : H(t) > 0 /\ P(t) = 2 * H(t) BY PowerAssumption DEF StoredTypes
  <1>3. int \in StoredTypes /\ wide \in StoredTypes /\ field \in StoredTypes
        /\ Width[int] <= Width[wide]
    BY OperatorWidths DEF StoredTypes, Field
  <1>4. P(wide) % P(int) = 0 BY <1>3, PowerAssumption DEF StoredTypes
  <1>5. \A t, n : Wrap(t, n) = n % P(t) BY DEF Wrap
  <1>6. \A t, n : Signed(t, n) = IF n < H(t) THEN n ELSE n - P(t) BY DEF Signed
  <1>7. -H(field) <= v /\ v <= H(field) - 1 BY DEF SMin, SMax
  <1> HIDE DEF int, wide, field, P, H
  <1>8. PICK p, h, q, w : p = P(int) /\ h = H(field) /\ q = P(field) /\ w = P(wide) OBVIOUS
  <1>9. /\ p \in Nat \ {0} /\ h \in Int /\ h > 0 /\ q = 2 * h /\ q \in Nat \ {0} /\ w \in Nat \ {0}
        /\ w % p = 0
    BY <1>1, <1>2, <1>3, <1>4, <1>8
  <1>10. v \in Int /\ v % p = c % p
    <2>1. PICK g : g = H(int) OBVIOUS
    <2>2. g \in Int BY <1>1, <1>3, <2>1
    <2>3. PICK b : b = c % p OBVIOUS
    <2>4. v = IF b < g THEN b ELSE b - p BY <1>5, <1>6, <1>8, <2>1, <2>3
    <2>5. c \in Int OBVIOUS
    <2> HIDE DEF v
    <2> QED BY <1>9, <2>2, <2>3, <2>4, <2>5, SignedRemainder
  <1> HIDE DEF v
  <1>11. -h <= v /\ v < h BY <1>7, <1>8, <1>9, <1>10
  <1>12. Signed(field, Wrap(field, v)) = v
    <2>0. \A n : Wrap(field, n) = n % q /\ Signed(field, n) = IF n < h THEN n ELSE n - q
      BY <1>5, <1>6, <1>8
    <2>1. CASE v >= 0
      <3>1. v < q /\ q \in Nat BY <1>9, <1>10, <1>11
      <3>2. v % q = v BY <1>10, <2>1, <3>1, SmallRemainder
      <3> QED BY <1>11, <2>0, <3>2
    <2>2. CASE v < 0
      <3>1. 0 - q <= v /\ q \in Nat BY <1>9, <1>10, <1>11
      <3>2. v % q = v + q BY <1>10, <2>2, <3>1, NegativeRemainder
      <3>3. ~(v + q < h) /\ v + q - q = v BY <1>9, <1>10, <1>11
      <3>4. PICK n : n = v + q OBVIOUS
      <3>w. Wrap(field, v) = v % q BY <2>0
      <3>5. Wrap(field, v) = n /\ ~(n < h) /\ n - q = v BY <1>9, <1>10, <3>w, <3>2, <3>3, <3>4
      <3>6. Signed(field, n) = v BY <2>0, <3>5
      <3> QED BY <3>5, <3>6
    <2> QED BY <1>10, <2>1, <2>2
  <1>13. (v % w) % p = v % p BY <1>9, <1>10, NestedRemainder
  <1>14. Wrap(int, Wrap(wide, v)) = Wrap(int, c) BY <1>5, <1>8, <1>10, <1>13
  <1>15. Wrap(int, Wrap(wide, Signed(field, Wrap(field, v)))) = Wrap(int, c) BY <1>12, <1>14
  <1> QED BY <1>15 DEF int, wide, field, v

-----------------------------------------------------------------------------
(* One operator, from its words to its effect *)

Code(o) == IF o.op \in Loads THEN load_code(o)
           ELSE IF o.ty \in IntTypes THEN istore_code(o) ELSE fstore_code(o)

\* What Wasm sees of a state.
State(m, r, t) == [mems |-> m, regs |-> r, trap |-> t]
TypedState(m, r) ==
    /\ DOMAIN m = 1 .. Len(Memories)
    /\ \A k \in 1 .. Len(Memories) : (\E S : m[k] \in Seq(S)) /\ Len(m[k]) <= UMax("i32") + 1
    /\ DOMAIN r = {"ptr", "val", "out"} /\ r.ptr \in 0 .. UMax("i32")

AddressIn(r, o) == (IF IsReg(o.ptr) THEN r[o.ptr.r] ELSE o.ptr.v) + o.offset
ValueIn(r, o) == IF IsReg(o.val) THEN r[o.val.r] ELSE o.val.v
BitsOf(o) == Width[Stored(o.ty, o.op)]
Outside(m, r, o) == AddressIn(r, o) + 1 + (BitsOf(o) \div Width.i8) - 1 > Len(m[o.mem + 1])
Loaded(m, r, o) ==
    LET u == FromBytes(m[o.mem + 1], AddressIn(r, o), BitsOf(o) \div Width.i8)
    IN IF IsSigned(o.op) THEN WasmSigned(u, BitsOf(o)) % 2^Width[TypeBits(o.ty)] ELSE u
Written(m, r, o) ==
    BytesOver(m[o.mem + 1], AddressIn(r, o) + 1, BitsOf(o) \div Width.i8,
              ValueIn(r, o) % 2^BitsOf(o))

\* The three outcomes of an access in Wasm.
LEMMA WasmStep ==
    ASSUME NEW m, NEW r, NEW o
    PROVE  WasmAccess(State(m, r, FALSE), o) =
              IF Outside(m, r, o) THEN State(m, r, TRUE)
              ELSE IF o.op \in Loads THEN State(m, [r EXCEPT !.out = Loaded(m, r, o)], FALSE)
              ELSE State([m EXCEPT ![o.mem + 1] = Written(m, r, o)], r, FALSE)
  <1>1. CASE Outside(m, r, o)
    <2>1. WasmAccess(State(m, r, FALSE), o) = [State(m, r, FALSE) EXCEPT !.trap = TRUE]
      BY <1>1 DEF WasmAccess, State, Outside, AddressIn, BitsOf
    <2> QED BY <1>1, <2>1 DEF State
  <1>2. CASE ~Outside(m, r, o) /\ o.op \in Loads
    <2>1. WasmAccess(State(m, r, FALSE), o) =
             [State(m, r, FALSE) EXCEPT !.regs.out = Loaded(m, r, o)]
      BY <1>2 DEF WasmAccess, State, Outside, AddressIn, BitsOf, Loaded
    <2> QED BY <1>2, <2>1 DEF State
  <1>3. CASE ~Outside(m, r, o) /\ o.op \notin Loads
    <2>1. WasmAccess(State(m, r, FALSE), o) =
             [State(m, r, FALSE) EXCEPT !.mems[o.mem + 1] = Written(m, r, o)]
      BY <1>3 DEF WasmAccess, State, Outside, AddressIn, ValueIn, BitsOf, Written, BytesOver
    <2> QED BY <1>3, <2>1 DEF State
  <1> QED BY <1>1, <1>2, <1>3

\* A trapped program stays as it is.
LEMMA WasmTrapped ==
    ASSUME NEW m, NEW r, NEW o
    PROVE  WasmAccess(State(m, r, TRUE), o) = State(m, r, TRUE)
  BY DEF WasmAccess, State

\* Addresses, operators and memories are what their names say.
LEMMA Typed ==
    ASSUME NEW m, NEW r, NEW o, TypedState(m, r), IsOperator(o)
    PROVE  /\ <<o.ty, o.op>> \in Operators /\ o.mem \in Nat /\ o.offset \in Nat
           /\ o.mem + 1 \in 1 .. Len(Memories) /\ Len(Memories) \in Nat
           /\ AddressIn(r, o) \in Nat
           /\ IsReg(o.ptr) => o.ptr.r = "ptr" /\ r[o.ptr.r] \in Nat
           /\ ~IsReg(o.ptr) => o.ptr.v \in Nat
           /\ \E S : m[o.mem + 1] \in Seq(S)
           /\ Len(m[o.mem + 1]) \in Nat /\ Len(m[o.mem + 1]) <= UMax("i32") + 1
  <1>1. UMax("i32") \in Nat BY Address
  <1>2. Len(Memories) \in Nat BY AccessAssumption
  <1>3. /\ o.mem \in 0 .. Len(Memories) - 1 /\ o.offset \in 0 .. UMax("i32")
        /\ <<o.ty, o.op>> \in Operators
    BY DEF IsOperator, Operators
  <1>4. o.mem \in Nat /\ o.offset \in Nat /\ o.mem + 1 \in 1 .. Len(Memories)
    <2>1. PICK a, f, l, u : a = o.mem /\ f = o.offset /\ l = Len(Memories) /\ u = UMax("i32")
      OBVIOUS
    <2>2. a \in 0 .. l - 1 /\ f \in 0 .. u /\ l \in Nat /\ u \in Nat BY <1>1, <1>2, <1>3, <2>1
    <2>3. a \in Nat /\ f \in Nat /\ a + 1 \in 1 .. l BY <2>2
    <2> QED BY <2>1, <2>3
  <1>5. r["ptr"] \in Nat BY <1>1 DEF TypedState
  <1>6. IsReg(o.ptr) => o.ptr.r = "ptr" /\ r[o.ptr.r] \in Nat
    BY <1>5 DEF IsOperator, IsReg, Register
  <1>7. ~IsReg(o.ptr) => o.ptr.v \in Nat
    BY <1>1 DEF IsOperator, IsReg, Register
  <1>8. AddressIn(r, o) \in Nat
    <2>1. PICK a, f : a = (IF IsReg(o.ptr) THEN r[o.ptr.r] ELSE o.ptr.v) /\ f = o.offset OBVIOUS
    <2>2. a \in Nat /\ f \in Nat BY <1>4, <1>6, <1>7, <2>1
    <2>3. a + f \in Nat BY <2>2
    <2> QED BY <2>1, <2>3 DEF AddressIn
  <1>9. PICK S : m[o.mem + 1] \in Seq(S) BY <1>4 DEF TypedState
  <1>10. Len(m[o.mem + 1]) \in Nat BY <1>9, LenProperties
  <1>11. Len(m[o.mem + 1]) <= UMax("i32") + 1 BY <1>4 DEF TypedState
  <1> QED BY <1>2, <1>3, <1>4, <1>6, <1>7, <1>8, <1>9, <1>10, <1>11

TypedResult(s) == \E n, q : TypedState(n, q) /\ \E t \in BOOLEAN : s = State(n, q, t)

\* An access keeps the sizes of the memories and the address register.
LEMMA WasmTyped ==
    ASSUME NEW m, NEW r, NEW o, TypedState(m, r), IsOperator(o)
    PROVE  TypedResult(WasmAccess(State(m, r, FALSE), o))
  <1> DEFINE k == o.mem + 1
             q == [r EXCEPT !.out = Loaded(m, r, o)]
             n == [m EXCEPT ![k] = Written(m, r, o)]
  <1>1. k \in 1 .. Len(Memories) /\ Len(Memories) \in Nat BY Typed
  <1>2. PICK S : m[k] \in Seq(S) BY Typed
  <1>3. TypedState(m, q)
    <2>1. DOMAIN r = {"ptr", "val", "out"} BY DEF TypedState
    <2>2. DOMAIN q = {"ptr", "val", "out"} /\ q["ptr"] = r["ptr"] BY <2>1
    <2> HIDE DEF q
    <2> QED BY <2>2 DEF TypedState
  <1>4. (\E T : Written(m, r, o) \in Seq(T)) /\ Len(Written(m, r, o)) = Len(m[k])
    <2>1. PICK w : w = Written(m, r, o) OBVIOUS
    <2>2. DOMAIN w = DOMAIN m[k] /\ w = [i \in DOMAIN w |-> w[i]] BY <2>1 DEF Written, BytesOver
    <2>3. DOMAIN m[k] = 1 .. Len(m[k]) /\ Len(m[k]) \in Nat BY <1>2, LenProperties
    <2> DEFINE T == {w[i] : i \in DOMAIN w}
    <2>4. w \in [1 .. Len(m[k]) -> T] BY <2>2, <2>3
    <2> HIDE DEF T
    <2>5. w \in Seq(T) BY <2>3, <2>4, SeqDef
    <2>6. Len(w) \in Nat /\ DOMAIN w = 1 .. Len(w) BY <2>5, LenProperties
    <2>7. Len(w) = Len(m[k])
      <3>1. PICK a, b : a = Len(w) /\ b = Len(m[k]) OBVIOUS
      <3>2. a \in Nat /\ b \in Nat /\ 1 .. a = 1 .. b BY <2>2, <2>3, <2>6, <3>1
      <3>3. a = b BY <3>2
      <3> QED BY <3>1, <3>3
    <2> QED BY <2>1, <2>5, <2>7
  <1>5. TypedState(n, r)
    <2>1. DOMAIN m = 1 .. Len(Memories) BY DEF TypedState
    <2>2. /\ DOMAIN n = 1 .. Len(Memories)
          /\ \A j \in 1 .. Len(Memories) : n[j] = IF j = k THEN Written(m, r, o) ELSE m[j]
      BY <1>1, <2>1
    <2> HIDE DEF n, k
    <2>3. \A j \in 1 .. Len(Memories) : (\E T : n[j] \in Seq(T)) /\ Len(n[j]) <= UMax("i32") + 1
      BY <1>1, <1>4, <2>2 DEF TypedState
    <2> QED BY <2>2, <2>3 DEF TypedState
  <1> HIDE DEF n, q
  <1>6. \/ WasmAccess(State(m, r, FALSE), o) = State(m, r, TRUE)
        \/ WasmAccess(State(m, r, FALSE), o) = State(m, q, FALSE)
        \/ WasmAccess(State(m, r, FALSE), o) = State(n, r, FALSE)
    BY WasmStep DEF n, q, k
  <1>7. TypedState(m, r) OBVIOUS
  <1> QED BY <1>3, <1>5, <1>6, <1>7 DEF TypedResult

\* A load step has the outcome Wasm gives it.
LEMMA LoadStep ==
    ASSUME NEW o, IsOperator(o), o.op \in Loads, TypedState(mems, regs), trap = FALSE,
           Executing.opcode[1] = o.ty, Executing.opcode[2] = o.op,
           NEW a \in Nat, NEW f \in Nat, a + f = AddressIn(regs, o), NEW next,
           LoadFrom(o.mem, a, f, next)
    PROVE  /\ State(mems', regs', trap') = WasmAccess(State(mems, regs, trap), o)
           /\ trap' \/ ip' = next
           /\ trap' \in BOOLEAN /\ UNCHANGED <<prog, pos, instrs>>
  <1>1. PICK m, r : m = mems /\ r = regs OBVIOUS
  <1>2. TypedState(m, r) BY <1>1
  <1> DEFINE cell == m[o.mem + 1]
             e == load_extend(cell, a, f, o.ty, o.op)
  <1>3. /\ e.ok = ~Outside(m, r, o)
        /\ e.ok => e.val = Loaded(m, r, o)
    <2>1. <<o.ty, o.op>> \in Operators /\ Len(cell) \in Nat /\ Len(cell) <= UMax("i32") + 1
      BY <1>2, Typed
    <2>2. PICK x : x = cell OBVIOUS
    <2>3. a + f = AddressIn(r, o) BY <1>1
    <2>4. PICK ty, op : ty = o.ty /\ op = o.op OBVIOUS
    <2>a. <<ty, op>> \in Operators /\ Len(x) \in Nat /\ Len(x) <= UMax("i32") + 1
      BY <2>1, <2>2, <2>4
    <2>5. LET q == load_extend(x, a, f, ty, op)
              bits == Width[Stored(ty, op)]
              n == bits \div Width.i8
              u == FromBytes(x, a + f, n)
          IN /\ q.ok = ~(a + f + 1 + n - 1 > Len(x))
             /\ q.ok => q.val = IF IsSigned(op)
                                THEN WasmSigned(u, bits) % 2^Width[TypeBits(ty)] ELSE u
      BY <2>a, LoadResult
    <2> QED BY <2>2, <2>3, <2>4, <2>5 DEF Outside, Loaded, BitsOf
  <1>4. /\ trap' = ~e.ok
        /\ regs' = IF e.ok THEN [r EXCEPT !.out = e.val] ELSE r
        /\ ip' = IF e.ok THEN next ELSE ip
        /\ UNCHANGED <<prog, pos, instrs, mems>>
    BY <1>1 DEF LoadFrom
  <1> HIDE DEF e
  <1>5. CASE Outside(m, r, o)
    <2>1. ~e.ok /\ trap' = TRUE /\ regs' = r /\ mems' = m BY <1>1, <1>3, <1>4, <1>5
    <2>2. WasmAccess(State(m, r, FALSE), o) = State(m, r, TRUE) BY <1>5, WasmStep
    <2> QED BY <1>1, <1>4, <2>1, <2>2
  <1>6. CASE ~Outside(m, r, o)
    <2>0. e.ok = TRUE BY <1>3, <1>6
    <2>1. trap' = FALSE /\ regs' = [r EXCEPT !.out = Loaded(m, r, o)] /\ mems' = m /\ ip' = next
      BY <1>1, <1>3, <1>4, <2>0
    <2>2. WasmAccess(State(m, r, FALSE), o) = State(m, [r EXCEPT !.out = Loaded(m, r, o)], FALSE)
      BY <1>6, WasmStep
    <2> QED BY <1>1, <1>4, <2>1, <2>2
  <1> QED BY <1>5, <1>6

\* So has a store step, for any value with the low bits of the operand.
LEMMA StoreStep ==
    ASSUME NEW o, IsOperator(o), o.op \notin Loads, TypedState(mems, regs), trap = FALSE,
           Executing.opcode[1] = o.ty, Executing.opcode[2] = o.op,
           NEW a \in Nat, NEW f \in Nat, a + f = AddressIn(regs, o), NEW v,
           Wrap(Stored(o.ty, o.op), v) = Wrap(Stored(o.ty, o.op), ValueIn(regs, o)), NEW next,
           StoreTo(o.mem, a, f, v, next)
    PROVE  /\ State(mems', regs', trap') = WasmAccess(State(mems, regs, trap), o)
           /\ trap' \/ ip' = next
           /\ trap' \in BOOLEAN /\ UNCHANGED <<prog, pos, instrs>>
  <1>1. PICK m, r : m = mems /\ r = regs OBVIOUS
  <1>2. TypedState(m, r) BY <1>1
  <1> DEFINE cell == m[o.mem + 1]
             e == store_wrap(cell, a, f, v, o.ty, o.op)
  <1>3. /\ e.ok = ~Outside(m, r, o)
        /\ e.ok => e.val = Written(m, r, o)
    <2>1. <<o.ty, o.op>> \in Operators /\ Len(cell) <= UMax("i32") + 1 /\ \E S : cell \in Seq(S)
      BY <1>2, Typed
    <2>2. PICK x : x = cell OBVIOUS
    <2>3. a + f = AddressIn(r, o) BY <1>1
    <2>4. PICK ty, op, w : ty = o.ty /\ op = o.op /\ w = ValueIn(r, o) OBVIOUS
    <2>5. PICK S : x \in Seq(S) BY <2>1, <2>2
    <2>6. Wrap(Stored(ty, op), v) = Wrap(Stored(ty, op), w) BY <1>1, <2>4
    <2>a. <<ty, op>> \in Operators /\ Len(x) <= UMax("i32") + 1 BY <2>1, <2>2, <2>4
    <2>7. StoresAs(x, a, f, ty, op, v, w) BY <2>a, <2>5, <2>6, StoreResult
    <2> QED BY <2>2, <2>3, <2>4, <2>7 DEF Outside, Written, BitsOf, StoresAs
  <1>4. /\ trap' = ~e.ok
        /\ mems' = IF e.ok THEN [m EXCEPT ![o.mem + 1] = e.val] ELSE m
        /\ ip' = IF e.ok THEN next ELSE ip
        /\ UNCHANGED <<prog, pos, instrs, regs>>
    BY <1>1 DEF StoreTo
  <1> HIDE DEF e
  <1>5. CASE Outside(m, r, o)
    <2>1. ~e.ok /\ trap' = TRUE /\ regs' = r /\ mems' = m BY <1>1, <1>3, <1>4, <1>5
    <2>2. WasmAccess(State(m, r, FALSE), o) = State(m, r, TRUE) BY <1>5, WasmStep
    <2> QED BY <1>1, <1>4, <2>1, <2>2
  <1>6. CASE ~Outside(m, r, o)
    <2>0. e.ok = TRUE BY <1>3, <1>6
    <2>1. /\ trap' = FALSE /\ mems' = [m EXCEPT ![o.mem + 1] = Written(m, r, o)]
          /\ regs' = r /\ ip' = next
      BY <1>1, <1>3, <1>4, <2>0
    <2>2. WasmAccess(State(m, r, FALSE), o)
          = State([m EXCEPT ![o.mem + 1] = Written(m, r, o)], r, FALSE)
      BY <1>6, WasmStep
    <2> QED BY <1>1, <1>4, <2>1, <2>2
  <1> QED BY <1>5, <1>6

\* A trap that the translator decided on is one in Wasm: the constant address
\* does not fit 32 bits, and no memory is that long.
LEMMA ConstantTrap ==
    ASSUME NEW o, IsOperator(o), NEW m, NEW r, TypedState(m, r), ~IsReg(o.ptr), ~AddressOf(o).ok
    PROVE  WasmAccess(State(m, r, FALSE), o) = State(m, r, TRUE)
  <1>1. o.ptr.v + o.offset > UMax("i32") BY DEF AddressOf, effective_address, Ok
  <1>2. AddressIn(r, o) = o.ptr.v + o.offset BY DEF AddressIn
  <1>3. <<o.ty, o.op>> \in Operators BY Typed
  <1>4. PICK ty, op : ty = o.ty /\ op = o.op OBVIOUS
  <1>5. Stored(ty, op) \in StoredTypes BY <1>3, <1>4, OperatorWidths
  <1>6. PICK n : n = Size(Stored(ty, op)) OBVIOUS
  <1>7. n \in Nat /\ n >= 1 BY <1>5, <1>6, Sizes
  <1>8. PICK l, u, e : l = Len(m[o.mem + 1]) /\ u = UMax("i32") /\ e = AddressIn(r, o) OBVIOUS
  <1>9. l \in Nat /\ l <= u + 1 /\ u \in Nat /\ e \in Nat /\ e > u BY <1>1, <1>2, <1>8, Typed, Address
  <1>10. e + 1 + n - 1 > l BY <1>7, <1>9
  <1>11. Outside(m, r, o) BY <1>4, <1>6, <1>8, <1>10 DEF Outside, BitsOf, Size
  <1> QED BY <1>11, WasmStep

\* The words of an operator, form by form.
EncodedAt(o, w, form) ==
    \E i : /\ i.opcode = <<o.ty, o.op, form>> /\ i.address = AddressOf(o).val
           /\ ~IsReg(o.ptr) /\ AddressOf(o).ok
           /\ o.op \notin Loads => \/ form = "at" /\ i.val = o.val
                                   \/ form = "at_imm" /\ HasField(o) /\ i.val = FieldOf(o)
           /\ w = IF o.mem = 0 THEN <<i>> ELSE <<i, MemoryIndex(o.mem)>>
EncodedOffset16(o, w, form) ==
    \E i : /\ i.opcode = <<o.ty, o.op, form>> /\ i.ptr = o.ptr /\ i.offset = o.offset
           /\ IsReg(o.ptr) /\ o.mem = 0
           /\ o.op \notin Loads => \/ form = "offset16" /\ i.val = o.val
                                   \/ form = "offset16_imm" /\ HasField(o) /\ i.val = FieldOf(o)
           /\ w = <<i>>
EncodedWord(o, w, form) ==
    \E i, j : /\ i.opcode = <<o.ty, o.op, form>> /\ i.memory = o.mem /\ IsReg(o.ptr)
              /\ IF o.op \in Loads THEN j = RegisterAndImm32(o.ptr, o.offset)
                 ELSE /\ i.ptr = o.ptr
                      /\ \/ form = "word" /\ j = RegisterAndImm32(o.val, o.offset)
                         \/ /\ form = "word_imm" /\ HasField(o)
                            /\ j = Imm16AndImm32(FieldOf(o), o.offset)
              /\ w = <<i, j>>
Encoded(o, w) ==
    \/ w = <<TrapInstr>> /\ ~IsReg(o.ptr) /\ ~AddressOf(o).ok
    \/ \E form \in {"at", "at_imm"} : EncodedAt(o, w, form)
    \/ \E form \in {"offset16", "offset16_imm"} : EncodedOffset16(o, w, form)
    \/ \E form \in {"word", "word_imm"} : EncodedWord(o, w, form)

\* An access at a constant address.
LEMMA AtEncoded ==
    ASSUME NEW o, NEW i, NEW form \in {"at", "at_imm"}, ~IsReg(o.ptr),
           i.opcode = <<o.ty, o.op, form>>, i.address = AddressOf(o).val,
           o.op \notin Loads => \/ form = "at" /\ i.val = o.val
                                \/ form = "at_imm" /\ HasField(o) /\ i.val = FieldOf(o)
    PROVE  Encoded(o, At(o, i))
  <1>1. CASE ~AddressOf(o).ok BY <1>1 DEF At, Encoded
  <1>2. CASE AddressOf(o).ok
    <2>1. At(o, i) = IF o.mem = 0 THEN <<i>> ELSE <<i, MemoryIndex(o.mem)>>
      <3>1. CASE o.mem = 0
        <4>1. At(o, i) = <<i>> \o <<>> BY <1>2, <3>1 DEF At, OptionalMemory
        <4> QED BY <3>1, <4>1
      <3>2. CASE o.mem # 0
        <4>1. At(o, i) = <<i>> \o <<MemoryIndex(o.mem)>> BY <1>2, <3>2 DEF At, OptionalMemory
        <4> QED BY <3>2, <4>1, PairConcat
      <3> QED BY <3>1, <3>2
    <2>2. EncodedAt(o, At(o, i), form) BY <1>2, <2>1 DEF EncodedAt
    <2> QED BY <2>2 DEF Encoded
  <1> QED BY <1>1, <1>2

\* Every operator is encoded in one of these forms.
LEMMA CodeEncoded == ASSUME NEW o PROVE Encoded(o, Code(o))
  <1>1. CASE o.op \in Loads
    <2>0. Code(o) = load_code(o) BY <1>1 DEF Code
    <2>1. CASE ~IsReg(o.ptr)
      <3>1. PICK i : i = [opcode |-> Opcode(o, "at"), address |-> AddressOf(o).val] OBVIOUS
      <3>2. load_code(o) = At(o, i) BY <2>1, <3>1 DEF load_code
      <3>3. i.opcode = <<o.ty, o.op, "at">> /\ i.address = AddressOf(o).val BY <3>1 DEF Opcode
      <3> QED BY <1>1, <2>0, <2>1, <3>2, <3>3, AtEncoded
    <2>2. CASE IsReg(o.ptr) /\ o.mem = 0 /\ Fits16(o.offset)
      <3>1. EncodedOffset16(o, load_code(o), "offset16")
        BY <1>1, <2>2 DEF load_code, EncodedOffset16, Opcode
      <3> QED BY <2>0, <3>1 DEF Encoded
    <2>3. CASE IsReg(o.ptr) /\ ~(o.mem = 0 /\ Fits16(o.offset))
      <3>1. EncodedWord(o, load_code(o), "word") BY <1>1, <2>3 DEF load_code, EncodedWord, Opcode
      <3> QED BY <2>0, <3>1 DEF Encoded
    <2> QED BY <2>1, <2>2, <2>3
  <1>2. CASE o.op \notin Loads /\ o.ty \in IntTypes
    <2>0. Code(o) = istore_code(o) BY <1>2 DEF Code
    <2>1. CASE ~IsReg(o.ptr) /\ HasField(o)
      <3>1. PICK i : i = [opcode |-> Opcode(o, "at_imm"), address |-> AddressOf(o).val,
                          val |-> FieldOf(o)]
        OBVIOUS
      <3>2. istore_code(o) = At(o, i) BY <2>1, <3>1 DEF istore_code, istore_at_code
      <3>3. /\ i.opcode = <<o.ty, o.op, "at_imm">> /\ i.address = AddressOf(o).val
            /\ i.val = FieldOf(o)
        BY <3>1 DEF Opcode
      <3> QED BY <2>0, <2>1, <3>2, <3>3, AtEncoded
    <2>2. CASE ~IsReg(o.ptr) /\ ~HasField(o)
      <3>1. PICK i : i = [opcode |-> Opcode(o, "at"), address |-> AddressOf(o).val, val |-> o.val]
        OBVIOUS
      <3>2. istore_code(o) = At(o, i) BY <2>2, <3>1 DEF istore_code, istore_at_code
      <3>3. /\ i.opcode = <<o.ty, o.op, "at">> /\ i.address = AddressOf(o).val
            /\ i.val = o.val
        BY <3>1 DEF Opcode
      <3> QED BY <2>0, <2>2, <3>2, <3>3, AtEncoded
    <2>3. CASE IsReg(o.ptr) /\ o.mem = 0 /\ Fits16(o.offset) /\ HasField(o)
      <3>1. EncodedOffset16(o, istore_code(o), "offset16_imm")
        BY <2>3 DEF istore_code, istore_mem0_code, EncodedOffset16, Opcode
      <3> QED BY <2>0, <3>1 DEF Encoded
    <2>4. CASE IsReg(o.ptr) /\ o.mem = 0 /\ Fits16(o.offset) /\ ~HasField(o)
      <3>1. EncodedOffset16(o, istore_code(o), "offset16")
        BY <2>4 DEF istore_code, istore_mem0_code, EncodedOffset16, Opcode
      <3> QED BY <2>0, <3>1 DEF Encoded
    <2>5. CASE IsReg(o.ptr) /\ ~(o.mem = 0 /\ Fits16(o.offset)) /\ HasField(o)
      <3>1. EncodedWord(o, istore_code(o), "word_imm")
        BY <1>2, <2>5 DEF istore_code, EncodedWord, Opcode
      <3> QED BY <2>0, <3>1 DEF Encoded
    <2>6. CASE IsReg(o.ptr) /\ ~(o.mem = 0 /\ Fits16(o.offset)) /\ ~HasField(o)
      <3>1. EncodedWord(o, istore_code(o), "word")
        BY <1>2, <2>6 DEF istore_code, EncodedWord, Opcode
      <3> QED BY <2>0, <3>1 DEF Encoded
    <2> QED BY <2>1, <2>2, <2>3, <2>4, <2>5, <2>6
  <1>3. CASE o.op \notin Loads /\ o.ty \notin IntTypes
    <2>0. Code(o) = fstore_code(o) BY <1>3 DEF Code
    <2>1. CASE ~IsReg(o.ptr)
      <3>1. PICK i : i = [opcode |-> Opcode(o, "at"), address |-> AddressOf(o).val, val |-> o.val]
        OBVIOUS
      <3>2. fstore_code(o) = At(o, i) BY <2>1, <3>1 DEF fstore_code
      <3>3. /\ i.opcode = <<o.ty, o.op, "at">> /\ i.address = AddressOf(o).val
            /\ i.val = o.val
        BY <3>1 DEF Opcode
      <3> QED BY <2>0, <2>1, <3>2, <3>3, AtEncoded
    <2>2. CASE IsReg(o.ptr) /\ o.mem = 0 /\ Fits16(o.offset)
      <3>1. EncodedOffset16(o, fstore_code(o), "offset16")
        BY <2>2 DEF fstore_code, EncodedOffset16, Opcode
      <3> QED BY <2>0, <3>1 DEF Encoded
    <2>3. CASE IsReg(o.ptr) /\ ~(o.mem = 0 /\ Fits16(o.offset))
      <3>1. EncodedWord(o, fstore_code(o), "word")
        BY <1>3, <2>3 DEF fstore_code, EncodedWord, Opcode
      <3> QED BY <2>0, <3>1 DEF Encoded
    <2> QED BY <2>1, <2>2, <2>3
  <1> QED BY <1>1, <1>2, <1>3

\* The arms of the two dispatch tables move in one direction each.
LEMMA ArmsDirection ==
    /\ \A x \in load_arms : x[2] \in Loads
    /\ \A x \in store_arms : x[2] \in {"store", "store8", "store16", "store32"}
  <1>1. \A ty, ops, forms : \A x \in Ops(ty, ops, forms) : x[2] \in ops BY DEF Ops
  <1>2. \A x \in load_numbers : x[2] = "load" BY DEF load_numbers
  <1>3. \A x \in store_floats : x[2] = "store" BY DEF store_floats
  <1>4. \A x \in load_arms : x[2] \in Loads
    BY <1>1, <1>2 DEF load_arms, load_f64_i32_8, load_i32_16_i64_8_s, load_i64_8_u_16, load_i64_32, Loads
  <1>5. \A x \in store_arms : x[2] \in {"store", "store8", "store16", "store32"}
    BY <1>1, <1>3 DEF store_arms, store_i32, store_i32_8, store_i32_16, store_i64, store_i64_8,
                      store_i64_16, store_i64_32
  <1> QED BY <1>4, <1>5

\* The words w stand at s, and what follows is not taken for a part of them.
Placed(c, s, w) ==
    /\ s \in Nat /\ s \in DOMAIN c /\ c[s] = w[1]
    /\ Len(w) = 2 => s + 1 \in DOMAIN c /\ c[s + 1] = w[2]
    /\ s + Len(w) \in DOMAIN c => c[s + Len(w)].opcode # Param("memory_index")

\* The form in the opcode tells the encoding.
LEMMA FormOf ==
    ASSUME NEW o, NEW w, Encoded(o, w), NEW x, x = w[1], x.opcode # <<"trap">>
    PROVE  /\ x.opcode[1] = o.ty /\ x.opcode[2] = o.op
           /\ x.opcode[3] \in {"word", "word_imm"} => EncodedWord(o, w, x.opcode[3])
           /\ x.opcode[3] \in {"at", "at_imm"} => EncodedAt(o, w, x.opcode[3])
           /\ x.opcode[3] \in {"offset16", "offset16_imm"} => EncodedOffset16(o, w, x.opcode[3])
  <1>1. w # <<TrapInstr>> BY DEF TrapInstr
  <1>2. ASSUME NEW form \in {"at", "at_imm"}, EncodedAt(o, w, form)
        PROVE  x.opcode = <<o.ty, o.op, form>>
    BY <1>2 DEF EncodedAt
  <1>3. ASSUME NEW form \in {"offset16", "offset16_imm"}, EncodedOffset16(o, w, form)
        PROVE  x.opcode = <<o.ty, o.op, form>>
    BY <1>3 DEF EncodedOffset16
  <1>4. ASSUME NEW form \in {"word", "word_imm"}, EncodedWord(o, w, form)
        PROVE  x.opcode = <<o.ty, o.op, form>>
    BY <1>4 DEF EncodedWord
  <1>5. CASE \E form \in {"at", "at_imm"} : EncodedAt(o, w, form) BY <1>2, <1>5
  <1>6. CASE \E form \in {"offset16", "offset16_imm"} : EncodedOffset16(o, w, form) BY <1>3, <1>6
  <1>7. CASE \E form \in {"word", "word_imm"} : EncodedWord(o, w, form) BY <1>4, <1>7
  <1> QED BY <1>1, <1>5, <1>6, <1>7 DEF Encoded

\* The immediate of a store stands for the constant it was made from.
LEMMA FieldKept ==
    ASSUME NEW o, IsOperator(o), o.op \in {"store", "store8", "store16", "store32"}, HasField(o),
           Executing.opcode[1] = o.ty, Executing.opcode[2] = o.op
    PROVE  Wrap(Stored(o.ty, o.op), FromField(FieldOf(o)))
           = Wrap(Stored(o.ty, o.op), ValueIn(regs, o))
  <1>1. ~IsReg(o.val) /\ o.val.v \in Nat /\ AsField(o) # {} BY DEF HasField, IsOperator, IsReg
  <1>2. <<o.ty, o.op>> \in Operators BY DEF IsOperator, Operators
  <1>3. PICK ty, op, c : ty = o.ty /\ op = o.op /\ c = o.val.v OBVIOUS
  <1>4. PICK v : v = Signed(Stored(ty, op), Wrap(Stored(ty, op), c)) OBVIOUS
  <1>5. AsField(o) = IF -SMin(Field(op)) <= v /\ v <= SMax(Field(op)) THEN {Wrap(Field(op), v)} ELSE {}
    BY <1>3, <1>4 DEF AsField
  <1>6. -SMin(Field(op)) <= v /\ v <= SMax(Field(op)) /\ AsField(o) = {Wrap(Field(op), v)}
    BY <1>1, <1>5
  <1>7. FieldOf(o) = Wrap(Field(op), v) BY <1>6 DEF FieldOf
  <1>8. FromField(FieldOf(o)) = Wrap(TypeBits(ty), Signed(Field(op), Wrap(Field(op), v)))
    BY <1>3, <1>7 DEF FromField
  <1>9. Wrap(Stored(ty, op), Wrap(TypeBits(ty), Signed(Field(op), Wrap(Field(op), v))))
        = Wrap(Stored(ty, op), c)
    BY <1>1, <1>2, <1>3, <1>4, <1>6, ImmediateKept
  <1> QED BY <1>1, <1>3, <1>8, <1>9 DEF ValueIn

\* The memory an access at a constant address finds, and where it ends.
LEMMA MemoryFound ==
    ASSUME NEW o, NEW form, NEW w, EncodedAt(o, w, form), Placed(instrs, ip, w)
    PROVE  /\ fetch_optional_memory(ip).memory = o.mem
           /\ fetch_optional_memory(ip).ip + 1 = ip + Len(w)
  <1>1. PICK i : w = IF o.mem = 0 THEN <<i>> ELSE <<i, MemoryIndex(o.mem)>> BY DEF EncodedAt
  <1>2. CASE o.mem = 0
    <2>1. Len(w) = 1 BY <1>1, <1>2
    <2>2. ~(ip + 1 \in DOMAIN instrs /\ instrs[ip + 1].opcode = Param("memory_index"))
      BY <2>1 DEF Placed
    <2> QED BY <1>2, <2>1, <2>2 DEF fetch_optional_memory
  <1>3. CASE o.mem # 0
    <2>1. Len(w) = 2 /\ w[2] = MemoryIndex(o.mem) BY <1>1, <1>3
    <2>2. /\ ip + 1 \in DOMAIN instrs /\ instrs[ip + 1].opcode = Param("memory_index")
          /\ instrs[ip + 1].index = o.mem /\ ip \in Nat
      BY <2>1 DEF Placed, MemoryIndex
    <2>3. ip + 1 + 1 = ip + 2 BY <2>2
    <2> QED BY <2>1, <2>2, <2>3 DEF fetch_optional_memory
  <1> QED BY <1>2, <1>3

\* The words of an operator that is loaded from or stored to a constant address.
LEMMA ConstantAddress ==
    ASSUME NEW o, IsOperator(o), NEW r, NEW m, TypedState(m, r), ~IsReg(o.ptr), AddressOf(o).ok
    PROVE  AddressOf(o).val \in Nat /\ 0 + AddressOf(o).val = AddressIn(r, o)
  <1>1. AddressIn(r, o) \in Nat /\ AddressIn(r, o) = o.ptr.v + o.offset BY Typed DEF AddressIn
  <1>2. AddressOf(o).val = o.ptr.v + o.offset BY DEF AddressOf, effective_address, Ok, Trap
  <1>3. PICK n : n = AddressIn(r, o) OBVIOUS
  <1>4. 0 + n = n BY <1>1, <1>3
  <1> QED BY <1>1, <1>2, <1>3, <1>4

\* What runs is the first word of its operator.
LEMMA RunsWord ==
    ASSUME NEW o, Placed(instrs, ip, Code(o)), NEW form, RunsLoad(form) \/ RunsStore(form)
    PROVE  /\ Executing.opcode[1] = o.ty /\ Executing.opcode[2] = o.op
           /\ RunsLoad(form) => o.op \in Loads
           /\ RunsStore(form) => o.op \in {"store", "store8", "store16", "store32"}
           /\ form \in {"word", "word_imm"} => EncodedWord(o, Code(o), form)
           /\ form \in {"at", "at_imm"} => EncodedAt(o, Code(o), form)
           /\ form \in {"offset16", "offset16_imm"} => EncodedOffset16(o, Code(o), form)
  <1>1. PICK x, w : x = Executing /\ w = Code(o) OBVIOUS
  <1>2. x = w[1] BY <1>1 DEF Executing, Placed
  <1>3. x.opcode # <<"trap">> BY <1>1, ArmsNotTrap
  <1>4. Encoded(o, w) BY <1>1, CodeEncoded
  <1>5. /\ x.opcode[1] = o.ty /\ x.opcode[2] = o.op
        /\ x.opcode[3] \in {"word", "word_imm"} => EncodedWord(o, w, x.opcode[3])
        /\ x.opcode[3] \in {"at", "at_imm"} => EncodedAt(o, w, x.opcode[3])
        /\ x.opcode[3] \in {"offset16", "offset16_imm"} => EncodedOffset16(o, w, x.opcode[3])
    BY <1>2, <1>3, <1>4, FormOf
  <1>6. x.opcode[3] = form BY <1>1 DEF RunsLoad, RunsStore, Runs
  <1>7. RunsLoad(form) => x.opcode[2] \in Loads
    BY <1>1, ArmsDirection DEF RunsLoad, Runs, execute_load_arms
  <1>8. RunsStore(form) => x.opcode[2] \in {"store", "store8", "store16", "store32"}
    BY <1>1, ArmsDirection DEF RunsStore, Runs, execute_store_arms
  <1> QED BY <1>1, <1>5, <1>6, <1>7, <1>8

\* One step of the executor runs the whole operator: its effect is Wasm's, and
\* unless it traps the next instruction is behind its words.
LEMMA InstrStep ==
    ASSUME NEW o, IsOperator(o), TypedState(mems, regs), trap = FALSE,
           Placed(instrs, ip, Code(o)), Len(instrs) \in Nat, DOMAIN instrs = 1 .. Len(instrs),
           pos > Len(prog), pos \in Int, Len(prog) \in Int, AccessNext
    PROVE  /\ State(mems', regs', trap') = WasmAccess(State(mems, regs, trap), o)
           /\ trap' \/ ip' = ip + Len(Code(o))
           /\ trap' \in BOOLEAN /\ UNCHANGED <<prog, pos, instrs>>
  <1> DEFINE w == Code(o)
  <1>n. \A x, y : Len(<<x>>) = 1 /\ Len(<<x, y>>) = 2 OBVIOUS
  <1>m. PICK m, r : m = mems /\ r = regs OBVIOUS
  <1>t. TypedState(m, r) BY <1>m
  <1>a. /\ o.mem \in Nat /\ o.offset \in Nat /\ <<o.ty, o.op>> \in Operators
        /\ IsReg(o.ptr) => o.ptr.r = "ptr" /\ r[o.ptr.r] \in Nat
    BY <1>t, Typed
  <1>e. \A op : op \in {"store", "store8", "store16", "store32"} => op \notin Loads BY DEF Loads
  <1>p. IsReg(o.ptr) => /\ ValueOf(o.ptr) \in Nat
                        /\ ValueOf(o.ptr) + o.offset = AddressIn(regs, o)
    BY <1>a, <1>m DEF ValueOf, AddressIn
  <1>v. ValueOf(o.val) = ValueIn(regs, o) BY DEF ValueOf, ValueIn
  <1>c. ~IsReg(o.ptr) /\ AddressOf(o).ok =>
           AddressOf(o).val \in Nat /\ 0 + AddressOf(o).val = AddressIn(regs, o)
    BY <1>m, <1>t, ConstantAddress
  <1>h. ip \in DOMAIN instrs /\ Executing = w[1] /\ ip \in Nat BY DEF Placed, Executing
  <1>i. \A p, n : RegisterAndImm32(p, n).reg = p /\ RegisterAndImm32(p, n).imm = n
    BY DEF RegisterAndImm32
  <1>j. \A f, n : Imm16AndImm32(f, n).imm16 = f /\ Imm16AndImm32(f, n).imm32 = n
    BY DEF Imm16AndImm32
  <1>1. CASE execute_load
    <2>1. RunsLoad("word") BY <1>1 DEF execute_load
    <2>2. /\ Executing.opcode[1] = o.ty /\ Executing.opcode[2] = o.op
          /\ o.op \in Loads /\ EncodedWord(o, w, "word")
      BY <2>1, RunsWord
    <2>3. /\ IsReg(o.ptr) /\ Executing.memory = o.mem /\ Len(w) = 2
          /\ Word(1) = RegisterAndImm32(o.ptr, o.offset)
      BY <1>e, <1>h, <1>n, <2>2 DEF EncodedWord, Placed, Word
    <2>4. LoadFrom(o.mem, ValueOf(o.ptr), o.offset, ip + 2)
      BY <1>1, <1>i, <2>3 DEF execute_load
    <2>5. ip + Len(w) = ip + 2 BY <2>3
    <2>6. PICK a, f, next : a = ValueOf(o.ptr) /\ f = o.offset /\ next = ip + Len(w) OBVIOUS
    <2>7. a \in Nat /\ f \in Nat /\ a + f = AddressIn(regs, o) BY <1>a, <1>p, <1>c, <2>3, <2>6
    <2>8. LoadFrom(o.mem, a, f, next) BY <2>4, <2>5, <2>6
    <2> HIDE DEF w
    <2>9. /\ State(mems', regs', trap') = WasmAccess(State(mems, regs, trap), o)
          /\ trap' \/ ip' = next
          /\ trap' \in BOOLEAN /\ UNCHANGED <<prog, pos, instrs>>
      BY <2>2, <2>7, <2>8, LoadStep
    <2> QED BY <2>6, <2>9 DEF w
  <1>2. CASE execute_load_at
    <2>1. RunsLoad("at") BY <1>2 DEF execute_load_at
    <2>2. /\ Executing.opcode[1] = o.ty /\ Executing.opcode[2] = o.op
          /\ o.op \in Loads /\ EncodedAt(o, w, "at")
      BY <2>1, RunsWord
    <2>3. /\ ~IsReg(o.ptr) /\ AddressOf(o).ok /\ Executing.address = AddressOf(o).val
      BY <1>e, <1>h, <1>n, <2>2 DEF EncodedAt
    <2>4. LoadFrom(fetch_optional_memory(ip).memory, 0, AddressOf(o).val, fetch_optional_memory(ip).ip + 1)
      BY <1>2, <2>3 DEF execute_load_at
    <2>5. /\ fetch_optional_memory(ip).memory = o.mem
          /\ fetch_optional_memory(ip).ip + 1 = ip + Len(w)
      BY <2>2, MemoryFound
    <2>6. PICK a, f, next : a = 0 /\ f = AddressOf(o).val /\ next = ip + Len(w) OBVIOUS
    <2>7. a \in Nat /\ f \in Nat /\ a + f = AddressIn(regs, o) BY <1>a, <1>p, <1>c, <2>3, <2>6
    <2>8. LoadFrom(o.mem, a, f, next) BY <2>4, <2>5, <2>6
    <2> HIDE DEF w
    <2>9. /\ State(mems', regs', trap') = WasmAccess(State(mems, regs, trap), o)
          /\ trap' \/ ip' = next
          /\ trap' \in BOOLEAN /\ UNCHANGED <<prog, pos, instrs>>
      BY <2>2, <2>7, <2>8, LoadStep
    <2> QED BY <2>6, <2>9 DEF w
  <1>3. CASE execute_load_offset16
    <2>1. RunsLoad("offset16") BY <1>3 DEF execute_load_offset16
    <2>2. /\ Executing.opcode[1] = o.ty /\ Executing.opcode[2] = o.op
          /\ o.op \in Loads /\ EncodedOffset16(o, w, "offset16")
      BY <2>1, RunsWord
    <2>3. /\ IsReg(o.ptr) /\ Executing.ptr = o.ptr /\ Executing.offset = o.offset
          /\ o.mem = 0 /\ Len(w) = 1
      BY <1>e, <1>h, <1>n, <2>2 DEF EncodedOffset16
    <2>4. LoadFrom(o.mem, ValueOf(o.ptr), o.offset, ip + 1)
      BY <1>3, <2>3 DEF execute_load_offset16
    <2>5. ip + Len(w) = ip + 1 BY <2>3
    <2>6. PICK a, f, next : a = ValueOf(o.ptr) /\ f = o.offset /\ next = ip + Len(w) OBVIOUS
    <2>7. a \in Nat /\ f \in Nat /\ a + f = AddressIn(regs, o) BY <1>a, <1>p, <1>c, <2>3, <2>6
    <2>8. LoadFrom(o.mem, a, f, next) BY <2>4, <2>5, <2>6
    <2> HIDE DEF w
    <2>9. /\ State(mems', regs', trap') = WasmAccess(State(mems, regs, trap), o)
          /\ trap' \/ ip' = next
          /\ trap' \in BOOLEAN /\ UNCHANGED <<prog, pos, instrs>>
      BY <2>2, <2>7, <2>8, LoadStep
    <2> QED BY <2>6, <2>9 DEF w
  <1>4. CASE execute_store
    <2>1. RunsStore("word") BY <1>4 DEF execute_store
    <2>2. /\ Executing.opcode[1] = o.ty /\ Executing.opcode[2] = o.op
          /\ o.op \in {"store", "store8", "store16", "store32"} /\ EncodedWord(o, w, "word")
      BY <2>1, RunsWord
    <2>3. /\ IsReg(o.ptr) /\ Executing.memory = o.mem /\ Len(w) = 2
          /\ Executing.ptr = o.ptr /\ Word(1) = RegisterAndImm32(o.val, o.offset)
      BY <1>e, <1>h, <1>n, <2>2 DEF EncodedWord, Placed, Word
    <2>4. StoreTo(o.mem, ValueOf(o.ptr), o.offset, ValueOf(o.val), ip + 2)
      BY <1>4, <1>i, <2>3 DEF execute_store
    <2>5. ip + Len(w) = ip + 2 BY <2>3
    <2>6. PICK a, f, v, next : a = ValueOf(o.ptr) /\ f = o.offset /\ v = ValueOf(o.val) /\ next = ip + Len(w)
      OBVIOUS
    <2>7. a \in Nat /\ f \in Nat /\ a + f = AddressIn(regs, o) BY <1>a, <1>p, <1>c, <2>3, <2>6
    <2>8. StoreTo(o.mem, a, f, v, next) BY <2>4, <2>5, <2>6
    <2>v. Wrap(Stored(o.ty, o.op), v) = Wrap(Stored(o.ty, o.op), ValueIn(regs, o))
      BY <1>v, <2>6
    <2> HIDE DEF w
    <2>9. /\ State(mems', regs', trap') = WasmAccess(State(mems, regs, trap), o)
          /\ trap' \/ ip' = next
          /\ trap' \in BOOLEAN /\ UNCHANGED <<prog, pos, instrs>>
      BY <1>e, <2>2, <2>7, <2>8, <2>v, StoreStep
    <2> QED BY <2>6, <2>9 DEF w
  <1>5. CASE execute_store_imm
    <2>1. RunsStore("word_imm") BY <1>5 DEF execute_store_imm
    <2>2. /\ Executing.opcode[1] = o.ty /\ Executing.opcode[2] = o.op
          /\ o.op \in {"store", "store8", "store16", "store32"} /\ EncodedWord(o, w, "word_imm")
      BY <2>1, RunsWord
    <2>3. /\ IsReg(o.ptr) /\ Executing.memory = o.mem /\ Len(w) = 2
          /\ Executing.ptr = o.ptr /\ Word(1) = Imm16AndImm32(FieldOf(o), o.offset) /\ HasField(o)
      BY <1>e, <1>h, <1>n, <2>2 DEF EncodedWord, Placed, Word
    <2>4. StoreTo(o.mem, ValueOf(o.ptr), o.offset, FromField(FieldOf(o)), ip + 2)
      BY <1>5, <1>j, <2>3 DEF execute_store_imm
    <2>5. ip + Len(w) = ip + 2 BY <2>3
    <2>6. PICK a, f, v, next : a = ValueOf(o.ptr) /\ f = o.offset /\ v = FromField(FieldOf(o)) /\ next = ip + Len(w)
      OBVIOUS
    <2>7. a \in Nat /\ f \in Nat /\ a + f = AddressIn(regs, o) BY <1>a, <1>p, <1>c, <2>3, <2>6
    <2>8. StoreTo(o.mem, a, f, v, next) BY <2>4, <2>5, <2>6
    <2>v. Wrap(Stored(o.ty, o.op), v) = Wrap(Stored(o.ty, o.op), ValueIn(regs, o))
      BY <2>2, <2>3, <2>6, FieldKept
    <2> HIDE DEF w
    <2>9. /\ State(mems', regs', trap') = WasmAccess(State(mems, regs, trap), o)
          /\ trap' \/ ip' = next
          /\ trap' \in BOOLEAN /\ UNCHANGED <<prog, pos, instrs>>
      BY <1>e, <2>2, <2>7, <2>8, <2>v, StoreStep
    <2> QED BY <2>6, <2>9 DEF w
  <1>6. CASE execute_store_offset16
    <2>1. RunsStore("offset16") BY <1>6 DEF execute_store_offset16
    <2>2. /\ Executing.opcode[1] = o.ty /\ Executing.opcode[2] = o.op
          /\ o.op \in {"store", "store8", "store16", "store32"} /\ EncodedOffset16(o, w, "offset16")
      BY <2>1, RunsWord
    <2>3. /\ IsReg(o.ptr) /\ Executing.ptr = o.ptr /\ Executing.offset = o.offset
          /\ o.mem = 0 /\ Len(w) = 1 /\ Executing.val = o.val
      BY <1>e, <1>h, <1>n, <2>2 DEF EncodedOffset16
    <2>4. StoreTo(o.mem, ValueOf(o.ptr), o.offset, ValueOf(o.val), ip + 1)
      BY <1>6, <2>3 DEF execute_store_offset16
    <2>5. ip + Len(w) = ip + 1 BY <2>3
    <2>6. PICK a, f, v, next : a = ValueOf(o.ptr) /\ f = o.offset /\ v = ValueOf(o.val) /\ next = ip + Len(w)
      OBVIOUS
    <2>7. a \in Nat /\ f \in Nat /\ a + f = AddressIn(regs, o) BY <1>a, <1>p, <1>c, <2>3, <2>6
    <2>8. StoreTo(o.mem, a, f, v, next) BY <2>4, <2>5, <2>6
    <2>v. Wrap(Stored(o.ty, o.op), v) = Wrap(Stored(o.ty, o.op), ValueIn(regs, o))
      BY <1>v, <2>6
    <2> HIDE DEF w
    <2>9. /\ State(mems', regs', trap') = WasmAccess(State(mems, regs, trap), o)
          /\ trap' \/ ip' = next
          /\ trap' \in BOOLEAN /\ UNCHANGED <<prog, pos, instrs>>
      BY <1>e, <2>2, <2>7, <2>8, <2>v, StoreStep
    <2> QED BY <2>6, <2>9 DEF w
  <1>7. CASE execute_store_offset16_imm16
    <2>1. RunsStore("offset16_imm") BY <1>7 DEF execute_store_offset16_imm16
    <2>2. /\ Executing.opcode[1] = o.ty /\ Executing.opcode[2] = o.op
          /\ o.op \in {"store", "store8", "store16", "store32"} /\ EncodedOffset16(o, w, "offset16_imm")
      BY <2>1, RunsWord
    <2>3. /\ IsReg(o.ptr) /\ Executing.ptr = o.ptr /\ Executing.offset = o.offset
          /\ o.mem = 0 /\ Len(w) = 1 /\ Executing.val = FieldOf(o)
          /\ HasField(o)
      BY <1>e, <1>h, <1>n, <2>2 DEF EncodedOffset16
    <2>4. StoreTo(o.mem, ValueOf(o.ptr), o.offset, FromField(FieldOf(o)), ip + 1)
      BY <1>7, <2>3 DEF execute_store_offset16_imm16
    <2>5. ip + Len(w) = ip + 1 BY <2>3
    <2>6. PICK a, f, v, next : a = ValueOf(o.ptr) /\ f = o.offset /\ v = FromField(FieldOf(o)) /\ next = ip + Len(w)
      OBVIOUS
    <2>7. a \in Nat /\ f \in Nat /\ a + f = AddressIn(regs, o) BY <1>a, <1>p, <1>c, <2>3, <2>6
    <2>8. StoreTo(o.mem, a, f, v, next) BY <2>4, <2>5, <2>6
    <2>v. Wrap(Stored(o.ty, o.op), v) = Wrap(Stored(o.ty, o.op), ValueIn(regs, o))
      BY <2>2, <2>3, <2>6, FieldKept
    <2> HIDE DEF w
    <2>9. /\ State(mems', regs', trap') = WasmAccess(State(mems, regs, trap), o)
          /\ trap' \/ ip' = next
          /\ trap' \in BOOLEAN /\ UNCHANGED <<prog, pos, instrs>>
      BY <1>e, <2>2, <2>7, <2>8, <2>v, StoreStep
    <2> QED BY <2>6, <2>9 DEF w
  <1>8. CASE execute_store_at
    <2>1. RunsStore("at") BY <1>8 DEF execute_store_at
    <2>2. /\ Executing.opcode[1] = o.ty /\ Executing.opcode[2] = o.op
          /\ o.op \in {"store", "store8", "store16", "store32"} /\ EncodedAt(o, w, "at")
      BY <2>1, RunsWord
    <2>3. /\ ~IsReg(o.ptr) /\ AddressOf(o).ok /\ Executing.address = AddressOf(o).val
          /\ Executing.val = o.val
      BY <1>e, <1>h, <1>n, <2>2 DEF EncodedAt
    <2>4. StoreTo(fetch_optional_memory(ip).memory, 0, AddressOf(o).val, ValueOf(o.val), fetch_optional_memory(ip).ip + 1)
      BY <1>8, <2>3 DEF execute_store_at
    <2>5. /\ fetch_optional_memory(ip).memory = o.mem
          /\ fetch_optional_memory(ip).ip + 1 = ip + Len(w)
      BY <2>2, MemoryFound
    <2>6. PICK a, f, v, next : a = 0 /\ f = AddressOf(o).val /\ v = ValueOf(o.val) /\ next = ip + Len(w)
      OBVIOUS
    <2>7. a \in Nat /\ f \in Nat /\ a + f = AddressIn(regs, o) BY <1>a, <1>p, <1>c, <2>3, <2>6
    <2>8. StoreTo(o.mem, a, f, v, next) BY <2>4, <2>5, <2>6
    <2>v. Wrap(Stored(o.ty, o.op), v) = Wrap(Stored(o.ty, o.op), ValueIn(regs, o))
      BY <1>v, <2>6
    <2> HIDE DEF w
    <2>9. /\ State(mems', regs', trap') = WasmAccess(State(mems, regs, trap), o)
          /\ trap' \/ ip' = next
          /\ trap' \in BOOLEAN /\ UNCHANGED <<prog, pos, instrs>>
      BY <1>e, <2>2, <2>7, <2>8, <2>v, StoreStep
    <2> QED BY <2>6, <2>9 DEF w
  <1>9. CASE execute_store_at_imm16
    <2>1. RunsStore("at_imm") BY <1>9 DEF execute_store_at_imm16
    <2>2. /\ Executing.opcode[1] = o.ty /\ Executing.opcode[2] = o.op
          /\ o.op \in {"store", "store8", "store16", "store32"} /\ EncodedAt(o, w, "at_imm")
      BY <2>1, RunsWord
    <2>3. /\ ~IsReg(o.ptr) /\ AddressOf(o).ok /\ Executing.address = AddressOf(o).val
          /\ Executing.val = FieldOf(o) /\ HasField(o)
      BY <1>e, <1>h, <1>n, <2>2 DEF EncodedAt
    <2>4. StoreTo(fetch_optional_memory(ip).memory, 0, AddressOf(o).val, FromField(FieldOf(o)), fetch_optional_memory(ip).ip + 1)
      BY <1>9, <2>3 DEF execute_store_at_imm16
    <2>5. /\ fetch_optional_memory(ip).memory = o.mem
          /\ fetch_optional_memory(ip).ip + 1 = ip + Len(w)
      BY <2>2, MemoryFound
    <2>6. PICK a, f, v, next : a = 0 /\ f = AddressOf(o).val /\ v = FromField(FieldOf(o)) /\ next = ip + Len(w)
      OBVIOUS
    <2>7. a \in Nat /\ f \in Nat /\ a + f = AddressIn(regs, o) BY <1>a, <1>p, <1>c, <2>3, <2>6
    <2>8. StoreTo(o.mem, a, f, v, next) BY <2>4, <2>5, <2>6
    <2>v. Wrap(Stored(o.ty, o.op), v) = Wrap(Stored(o.ty, o.op), ValueIn(regs, o))
      BY <2>2, <2>3, <2>6, FieldKept
    <2> HIDE DEF w
    <2>9. /\ State(mems', regs', trap') = WasmAccess(State(mems, regs, trap), o)
          /\ trap' \/ ip' = next
          /\ trap' \in BOOLEAN /\ UNCHANGED <<prog, pos, instrs>>
      BY <1>e, <2>2, <2>7, <2>8, <2>v, StoreStep
    <2> QED BY <2>6, <2>9 DEF w
  <1>10. CASE execute_trap
    <2>1. w[1].opcode = <<"trap">> /\ trap' = TRUE /\ UNCHANGED <<prog, pos, instrs, mems, regs, ip>>
      BY <1>10, <1>h DEF execute_trap
    <2>2. Encoded(o, w) BY CodeEncoded
    <2>3. \A ty, op, form : <<ty, op, form>> # <<"trap">> OBVIOUS
    <2>a. PICK c : c = w OBVIOUS
    <2>b. \A form : EncodedAt(o, c, form) => c[1].opcode = <<o.ty, o.op, form>>
      BY DEF EncodedAt
    <2>c. \A form : EncodedOffset16(o, c, form) => c[1].opcode = <<o.ty, o.op, form>>
      BY DEF EncodedOffset16
    <2>d. \A form : EncodedWord(o, c, form) => c[1].opcode = <<o.ty, o.op, form>>
      BY DEF EncodedWord
    <2>e. c[1].opcode = <<"trap">> BY <2>1, <2>a
    <2>4. ~IsReg(o.ptr) /\ ~AddressOf(o).ok BY <2>2, <2>3, <2>a, <2>b, <2>c, <2>d, <2>e DEF Encoded
    <2>5. WasmAccess(State(m, r, FALSE), o) = State(m, r, TRUE) BY <1>t, <2>4, ConstantTrap
    <2> QED BY <1>m, <2>1, <2>5
  <1>11. ~(translate_load \/ translate_istore \/ translate_fstore)
    BY DEF translate_load, translate_istore, translate_fstore
  <1>12. ~AccessDone BY <1>h DEF AccessDone, Finished
  <1> QED BY <1>1, <1>2, <1>3, <1>4, <1>5, <1>6, <1>7, <1>8, <1>9, <1>10, <1>11, <1>12
      DEF AccessNext

-----------------------------------------------------------------------------
(* Two operators: the invariant *)

Start(o) == State(Memories, [o.regs EXCEPT !.out = 0], FALSE)

\* The code translated so far is that of the operators passed, a constant trap
\* ends it, and between two instructions the state is Wasm's between the two
\* operators.
Progress(o, p, at, c, i, s) ==
    LET s1 == WasmAccess(Start(o), o)
        s2 == WasmAccess(s1, p)
    IN \/ at = 1 /\ c = <<>> /\ i = 1 /\ s = Start(o)
       \/ at = 2 /\ c = Code(o) /\ Code(o) # <<TrapInstr>> /\ i = 1 /\ s = Start(o)
       \/ /\ at = 3 /\ c = IF Code(o) = <<TrapInstr>> THEN Code(o) ELSE Code(o) \o Code(p)
          /\ \/ i = 1 /\ s = Start(o)
             \/ Code(o) # <<TrapInstr>> /\ i = Len(Code(o)) + 1 /\ s = s1 /\ s.trap = FALSE
             \/ Code(o) # <<TrapInstr>> /\ i = Len(Code(o)) + Len(Code(p)) + 1 /\ s = s2 /\ s.trap = FALSE
             \/ s = s2 /\ s.trap = TRUE
InStep ==
    \E o \in Firsts, p \in Followers :
        prog = <<o, p>> /\ Progress(o, p, pos, instrs, ip, State(mems, regs, trap))

\* The code of an operator is a block.
LEMMA CodeBlock == ASSUME NEW o PROVE Block(Code(o))
  BY LoadBlock, IStoreBlock, FStoreBlock DEF Code

\* Where the words of the operators are.
LEMMA Alone ==
    ASSUME NEW w, Block(w)
    PROVE  /\ Len(w) \in {1, 2} /\ DOMAIN w = 1 .. Len(w) /\ Placed(w, 1, w)
           /\ <<>> \o w = w
  <1>1. PICK S : w \in Seq(S) BY BlockParsed
  <1>2. Len(w) \in {1, 2} BY BlockParsed
  <1>3. DOMAIN w = 1 .. Len(w) BY <1>1
  <1>4. 1 \in DOMAIN w /\ (Len(w) = 2 => 1 + 1 \in DOMAIN w /\ w[1 + 1] = w[2])
        /\ 1 + Len(w) \notin DOMAIN w
    BY <1>2, <1>3
  <1> QED BY <1>1, <1>2, <1>3, <1>4 DEF Placed
LEMMA Together ==
    ASSUME NEW w, Block(w), NEW v, Block(v)
    PROVE  /\ Len(w \o v) = Len(w) + Len(v) /\ Len(w) \in {1, 2} /\ Len(v) \in {1, 2}
           /\ DOMAIN (w \o v) = 1 .. Len(w \o v)
           /\ Placed(w \o v, 1, w) /\ Placed(w \o v, Len(w) + 1, v)
  <1>1. PICK X, Y : w \in Seq(X) /\ v \in Seq(Y) BY BlockParsed
  <1>2. Len(w) \in {1, 2} /\ Len(v) \in {1, 2} BY BlockParsed
  <1>3. w \in Seq(X \cup Y) /\ v \in Seq(X \cup Y)
    <2>1. w \in [1 .. Len(w) -> X] /\ v \in [1 .. Len(v) -> Y] BY <1>1, LenProperties
    <2>2. w \in [1 .. Len(w) -> X \cup Y] /\ v \in [1 .. Len(v) -> X \cup Y] BY <2>1
    <2>3. Len(w) \in Nat /\ Len(v) \in Nat BY <1>2
    <2> QED BY <2>2, <2>3, SeqDef
  <1> DEFINE d == w \o v
  <1>4. /\ d \in Seq(X \cup Y) /\ Len(d) = Len(w) + Len(v)
        /\ \A i \in 1 .. Len(w) + Len(v) : d[i] = IF i <= Len(w) THEN w[i] ELSE v[i - Len(w)]
    BY <1>3, ConcatProperties
  <1>5. DOMAIN d = 1 .. Len(d) BY <1>4
  <1> HIDE DEF d
  <1>6. v[1].opcode # Param("memory_index") BY BlockParsed
  <1>7. Placed(d, 1, w)
    <2>1. 1 \in DOMAIN d /\ d[1] = w[1] BY <1>2, <1>4, <1>5
    <2>2. Len(w) = 2 => 1 + 1 \in DOMAIN d /\ d[1 + 1] = w[2] BY <1>2, <1>4, <1>5
    <2>3. d[1 + Len(w)] = v[1] BY <1>2, <1>4
    <2> QED BY <1>6, <2>1, <2>2, <2>3 DEF Placed
  <1>8. Placed(d, Len(w) + 1, v)
    <2>1. Len(w) + 1 \in Nat /\ Len(w) + 1 \in DOMAIN d /\ d[Len(w) + 1] = v[1]
      <3>1. PICK l, k : l = Len(w) /\ k = Len(v) OBVIOUS
      <3>2. /\ l + 1 \in Nat /\ l + 1 \in 1 .. l + k /\ ~(l + 1 <= l) /\ l + 1 - l = 1
        BY <1>2, <3>1
      <3> QED BY <1>4, <1>5, <3>1, <3>2
    <2>2. ASSUME Len(v) = 2 PROVE Len(w) + 1 + 1 \in DOMAIN d /\ d[Len(w) + 1 + 1] = v[2]
      <3>1. PICK l : l = Len(w) OBVIOUS
      <3>2. l + 1 + 1 \in 1 .. l + 2 /\ ~(l + 1 + 1 <= l) /\ l + 1 + 1 - l = 2 BY <1>2, <3>1
      <3> QED BY <1>4, <1>5, <2>2, <3>1, <3>2
    <2>3. Len(w) + 1 + Len(v) \notin DOMAIN d BY <1>2, <1>4, <1>5
    <2> QED BY <2>1, <2>2, <2>3 DEF Placed
  <1> QED BY <1>2, <1>4, <1>5, <1>7, <1>8 DEF d

\* What the operators of a program are.
LEMMA ProgramTyped ==
    ASSUME NEW o \in Firsts, NEW p \in Followers
    PROVE  /\ IsOperator(o) /\ IsOperator(p)
           /\ TypedState(Memories, [o.regs EXCEPT !.out = 0])
  <1>1. IsOperator(o) /\ IsOperator(p) /\ IsRegs(o.regs) BY AccessAssumption
  <1>2. PICK r : r = [o.regs EXCEPT !.out = 0] OBVIOUS
  <1>3. DOMAIN r = {"ptr", "val", "out"} /\ r.ptr \in 0 .. UMax("i32") BY <1>1, <1>2 DEF IsRegs
  <1>4. DOMAIN Memories = 1 .. Len(Memories) /\ \A k \in 1 .. Len(Memories) : Memories[k] \in Seq(Nat)
    BY AccessAssumption
  <1>5. \A k \in 1 .. Len(Memories) : Len(Memories[k]) <= UMax("i32") + 1 BY AccessAssumption
  <1>6. TypedState(Memories, r) BY <1>3, <1>4, <1>5 DEF TypedState
  <1> QED BY <1>1, <1>2, <1>6

\* Code that is one trap belongs to an operator that traps.
LEMMA TrapCode ==
    ASSUME NEW o, IsOperator(o), Code(o) = <<TrapInstr>>, NEW m, NEW r, TypedState(m, r)
    PROVE  WasmAccess(State(m, r, FALSE), o) = State(m, r, TRUE)
  <1>1. PICK c : c = Code(o) OBVIOUS
  <1>2. Encoded(o, c) BY <1>1, CodeEncoded
  <1>3. c[1].opcode = <<"trap">> BY <1>1 DEF TrapInstr
  <1>4. \A form : EncodedAt(o, c, form) => c[1].opcode = <<o.ty, o.op, form>> BY DEF EncodedAt
  <1>5. \A form : EncodedOffset16(o, c, form) => c[1].opcode = <<o.ty, o.op, form>>
    BY DEF EncodedOffset16
  <1>6. \A form : EncodedWord(o, c, form) => c[1].opcode = <<o.ty, o.op, form>> BY DEF EncodedWord
  <1>7. \A ty, op, form : <<ty, op, form>> # <<"trap">> OBVIOUS
  <1>8. ~IsReg(o.ptr) /\ ~AddressOf(o).ok BY <1>2, <1>3, <1>4, <1>5, <1>6, <1>7 DEF Encoded
  <1> QED BY <1>8, ConstantTrap

\* The translator appends the code of the operator it is at.
LEMMA TranslateCode ==
    ASSUME translate_load \/ translate_istore \/ translate_fstore
    PROVE  /\ pos <= Len(prog) /\ instrs' = instrs \o Code(prog[pos])
           /\ pos' = IF Code(prog[pos]) = <<TrapInstr>> THEN Len(prog) + 1 ELSE pos + 1
           /\ UNCHANGED <<prog, mems, regs, ip, trap>>
  <1>0. PICK o : o = prog[pos] OBVIOUS
  <1>1. CASE translate_load
    <2>1. Code(o) = load_code(o) BY <1>0, <1>1 DEF translate_load, Translate, Code
    <2> QED BY <1>0, <1>1, <2>1 DEF translate_load, Translate
  <1>2. CASE translate_istore
    <2>1. o.op \in {"store", "store8", "store16", "store32"} /\ o.ty \in IntTypes
      BY <1>0, <1>2 DEF translate_istore, Translate
    <2>2. Code(o) = istore_code(o) BY <2>1 DEF Code, Loads
    <2> QED BY <1>0, <1>2, <2>2 DEF translate_istore, Translate
  <1>3. CASE translate_fstore
    <2>1. o.op = "store" /\ o.ty \notin IntTypes
      BY <1>0, <1>3 DEF translate_fstore, Translate, IntTypes
    <2>2. Code(o) = fstore_code(o) BY <2>1 DEF Code, Loads
    <2> QED BY <1>0, <1>3, <2>2 DEF translate_fstore, Translate
  <1> QED BY <1>1, <1>2, <1>3

\* The executor waits for the translator, and stops behind the last instruction
\* or after a trap.
LEMMA NoStep ==
    ASSUME AccessNext, ~(translate_load \/ translate_istore \/ translate_fstore),
           ~(pos > Len(prog)) \/ ip \notin DOMAIN instrs \/ trap = TRUE
    PROVE  UNCHANGED accessVars
  <1>1. \A form : ~RunsLoad(form) /\ ~RunsStore(form) BY DEF RunsLoad, RunsStore, Runs
  <1>2. ~execute_trap BY DEF execute_trap
  <1> QED BY <1>1, <1>2
      DEF AccessNext, AccessDone, execute_load, execute_load_at, execute_load_offset16, execute_store,
          execute_store_imm, execute_store_offset16, execute_store_offset16_imm16, execute_store_at,
          execute_store_at_imm16

\* Nothing is translated and nothing has run.
LEMMA InitInStep == AccessInit => InStep
  <1> SUFFICES ASSUME AccessInit PROVE InStep OBVIOUS
  <1>1. PICK o \in Firsts, p \in Followers : prog = <<o, p>> BY DEF AccessInit
  <1>2. prog[1] = o BY <1>1
  <1>3. State(mems, regs, trap) = Start(o) BY <1>2 DEF AccessInit, Start
  <1>4. Progress(o, p, pos, instrs, ip, State(mems, regs, trap))
    BY <1>3 DEF AccessInit, Progress
  <1> QED BY <1>1, <1>4 DEF InStep

\* Each action takes the program to the next stage.
LEMMA NextInStep == ASSUME InStep, [AccessNext]_accessVars PROVE InStep'
  <1>1. PICK o \in Firsts, p \in Followers :
           prog = <<o, p>> /\ Progress(o, p, pos, instrs, ip, State(mems, regs, trap))
    BY DEF InStep
  <1>2. Len(prog) = 2 /\ prog[1] = o /\ prog[2] = p BY <1>1
  <1> SUFFICES ASSUME prog' = prog
               PROVE  Progress(o, p, pos', instrs', ip', State(mems', regs', trap'))
    <2>1. prog' = prog
      <3>1. CASE translate_load \/ translate_istore \/ translate_fstore BY <3>1, TranslateCode
      <3>2. CASE ~(translate_load \/ translate_istore \/ translate_fstore)
        BY <3>2 DEF AccessNext, accessVars, AccessDone, execute_load, execute_load_at,
                    execute_load_offset16, execute_store, execute_store_imm, execute_store_offset16,
                    execute_store_offset16_imm16, execute_store_at, execute_store_at_imm16,
                    execute_trap, LoadFrom, StoreTo
      <3> QED BY <3>1, <3>2
    <2> QED BY <1>1, <2>1 DEF InStep
  <1>s. CASE UNCHANGED accessVars BY <1>1, <1>s DEF accessVars
  <1> DEFINE c == Code(o)
             d == Code(p)
             s1 == WasmAccess(Start(o), o)
             s2 == WasmAccess(s1, p)
             now == State(mems, regs, trap)
  <1>3. Block(c) /\ Block(d) BY CodeBlock
  <1>4. /\ Len(c) \in {1, 2} /\ DOMAIN c = 1 .. Len(c) /\ Placed(c, 1, c) /\ <<>> \o c = c
    BY <1>3, Alone
  <1>5. /\ Len(c \o d) = Len(c) + Len(d) /\ Len(d) \in {1, 2} /\ DOMAIN (c \o d) = 1 .. Len(c \o d)
        /\ Placed(c \o d, 1, c) /\ Placed(c \o d, Len(c) + 1, d)
    BY <1>3, Together
  <1>6. /\ IsOperator(o) /\ IsOperator(p)
        /\ TypedState(Memories, [o.regs EXCEPT !.out = 0])
    BY ProgramTyped
  <1>r. PICK r0 : r0 = [o.regs EXCEPT !.out = 0] OBVIOUS
  <1>t. TypedState(Memories, r0) /\ Start(o) = State(Memories, r0, FALSE) BY <1>6, <1>r DEF Start
  <1>7. PICK n, q, t : TypedState(n, q) /\ t \in BOOLEAN /\ s1 = State(n, q, t)
    <2>1. TypedResult(WasmAccess(State(Memories, r0, FALSE), o)) BY <1>6, <1>t, WasmTyped
    <2>2. TypedResult(s1) BY <1>t, <2>1
    <2> HIDE DEF s1
    <2> QED BY <2>2 DEF TypedResult
  <1>8. \A m, r, b : /\ State(m, r, b).mems = m /\ State(m, r, b).regs = r
                     /\ State(m, r, b).trap = b
    BY DEF State
  <1> HIDE DEF c, d, s1, s2
  <1>9. s1.trap = TRUE => s2 = s1 BY <1>7, <1>8, WasmTrapped DEF s2
  <1>10. c = <<TrapInstr>> => s1.trap = TRUE 
    <2>1. c = <<TrapInstr>> => s1 = State(Memories, r0, TRUE) BY <1>6, <1>t, TrapCode DEF c, s1
    <2> QED BY <2>1 DEF State
  <1>11. \/ pos = 1 /\ instrs = <<>> /\ ip = 1 /\ now = Start(o)
         \/ pos = 2 /\ instrs = c /\ c # <<TrapInstr>> /\ ip = 1 /\ now = Start(o)
         \/ /\ pos = 3 /\ instrs = IF c = <<TrapInstr>> THEN c ELSE c \o d
            /\ \/ ip = 1 /\ now = Start(o)
               \/ c # <<TrapInstr>> /\ ip = Len(c) + 1 /\ now = s1 /\ now.trap = FALSE
               \/ c # <<TrapInstr>> /\ ip = Len(c) + Len(d) + 1 /\ now = s2 /\ now.trap = FALSE
               \/ now = s2 /\ now.trap = TRUE
    BY <1>1 DEF Progress, c, d, s1, s2
  <1>12. CASE translate_load \/ translate_istore \/ translate_fstore
    <2>1. /\ pos <= Len(prog) /\ instrs' = instrs \o Code(prog[pos])
          /\ pos' = IF Code(prog[pos]) = <<TrapInstr>> THEN Len(prog) + 1 ELSE pos + 1
          /\ UNCHANGED <<prog, mems, regs, ip, trap>>
      BY <1>12, TranslateCode
    <2>2. State(mems', regs', trap') = now /\ ip' = ip BY <2>1
    <2>3. CASE pos = 1
      <3>a. instrs = <<>> /\ ip = 1 /\ now = Start(o) BY <1>11, <2>3
      <3>b. Code(prog[pos]) = c BY <1>2, <2>3 DEF c
      <3>1. instrs' = c /\ ip = 1 /\ now = Start(o) BY <1>4, <2>1, <3>a, <3>b
      <3>2. pos' = IF c = <<TrapInstr>> THEN 3 ELSE 2 BY <1>2, <2>1, <2>3 DEF c
      <3> QED BY <2>2, <3>1, <3>2 DEF Progress, c
    <2>4. CASE pos = 2
      <3>1. instrs' = c \o d /\ ip = 1 /\ now = Start(o) /\ c # <<TrapInstr>>
        BY <1>2, <1>11, <2>1, <2>4 DEF d
      <3>2. pos' = 3 BY <1>2, <2>1, <2>4
      <3> QED BY <2>2, <3>1, <3>2 DEF Progress, c, d
    <2> QED BY <1>2, <1>11, <2>1, <2>3, <2>4
  <1>13. ASSUME ~(translate_load \/ translate_istore \/ translate_fstore), AccessNext
         PROVE  Progress(o, p, pos', instrs', ip', State(mems', regs', trap'))
    <2>1. CASE pos \in {1, 2}
      <3>1. ~(pos > Len(prog)) BY <1>2, <2>1
      <3> QED BY <1>s, <1>13, <3>1, NoStep
    <2>2. CASE pos = 3 /\ ip = 1 /\ now = Start(o)
      <3>1. pos > Len(prog) /\ pos \in Int /\ Len(prog) \in Int BY <1>2, <2>2
      <3>2. mems = Memories /\ regs = r0 /\ trap = FALSE 
        <4>1. PICK m, r, b : m = mems /\ r = regs /\ b = trap OBVIOUS
        <4>2. State(m, r, b) = State(Memories, r0, FALSE) BY <1>t, <2>2, <4>1
        <4>3. m = Memories /\ r = r0 /\ b = FALSE BY <4>2 DEF State
        <4> QED BY <4>1, <4>3
      <3>3. TypedState(mems, regs) BY <1>t, <3>2
      <3>4. instrs = IF c = <<TrapInstr>> THEN c ELSE c \o d BY <1>11, <2>2
      <3>5. Placed(instrs, ip, c) /\ Len(instrs) \in Nat /\ DOMAIN instrs = 1 .. Len(instrs)
        BY <1>4, <1>5, <2>2, <3>4
      <3>6. /\ State(mems', regs', trap') = WasmAccess(now, o)
            /\ trap' \/ ip' = ip + Len(c)
            /\ trap' \in BOOLEAN /\ UNCHANGED <<prog, pos, instrs>>
        BY <1>6, <1>13, <3>1, <3>2, <3>3, <3>5, InstrStep DEF c
      <3>7. State(mems', regs', trap') = s1 /\ s1.trap = trap' BY <1>8, <2>2, <3>6 DEF s1
      <3>8. CASE trap'
        <4>1. trap' = TRUE BY <3>6, <3>8
        <4>2. State(mems', regs', trap') = s2 /\ State(mems', regs', trap').trap = TRUE
          BY <1>8, <1>9, <3>7, <4>1
        <4>3. pos' = 3 /\ instrs' = (IF c = <<TrapInstr>> THEN c ELSE c \o d) BY <2>2, <3>4, <3>6
        <4> HIDE DEF now
        <4> QED BY <4>2, <4>3 DEF Progress, c, d, s1, s2
      <3>9. CASE ~trap'
        <4>1. trap' = FALSE BY <3>6, <3>9
        <4>2. c # <<TrapInstr>> BY <1>10, <3>7, <4>1
        <4>3. ip' = Len(c) + 1 BY <1>4, <2>2, <3>6, <3>9
        <4>4. State(mems', regs', trap') = s1 /\ State(mems', regs', trap').trap = FALSE
          BY <3>7, <4>1
        <4> QED BY <2>2, <3>4, <3>6, <4>2, <4>3, <4>4 DEF Progress, c, d, s1, s2
      <3> QED BY <3>8, <3>9
    <2>3. CASE pos = 3 /\ c # <<TrapInstr>> /\ ip = Len(c) + 1 /\ now = s1 /\ now.trap = FALSE
      <3>1. pos > Len(prog) /\ pos \in Int /\ Len(prog) \in Int BY <1>2, <2>3
      <3>2. mems = n /\ regs = q /\ trap = FALSE BY <1>7, <1>8, <2>3
      <3>3. TypedState(mems, regs) BY <1>7, <3>2
      <3>4. instrs = c \o d BY <1>11, <2>3
      <3>5. Placed(instrs, ip, d) /\ Len(instrs) \in Nat /\ DOMAIN instrs = 1 .. Len(instrs)
        BY <1>4, <1>5, <2>3, <3>4
      <3>6. /\ State(mems', regs', trap') = WasmAccess(now, p)
            /\ trap' \/ ip' = ip + Len(d)
            /\ trap' \in BOOLEAN /\ UNCHANGED <<prog, pos, instrs>>
        BY <1>6, <1>13, <3>1, <3>2, <3>3, <3>5, InstrStep DEF d
      <3>7. State(mems', regs', trap') = s2 /\ State(mems', regs', trap').trap = trap'
        BY <1>8, <2>3, <3>6 DEF s2
      <3>8. CASE trap'
        <4>1. trap' = TRUE BY <3>6, <3>8
        <4> QED BY <2>3, <3>4, <3>6, <3>7, <4>1 DEF Progress, c, d, s1, s2
      <3>9. CASE ~trap'
        <4>1. trap' = FALSE BY <3>6, <3>9
        <4>2. ip' = Len(c) + Len(d) + 1 BY <1>4, <1>5, <2>3, <3>6, <3>9
        <4> QED BY <2>3, <3>4, <3>6, <3>7, <4>1, <4>2 DEF Progress, c, d, s1, s2
      <3> QED BY <3>8, <3>9
    <2>4. CASE pos = 3 /\ c # <<TrapInstr>> /\ ip = Len(c) + Len(d) + 1
      <3>1. instrs = c \o d BY <1>11, <2>4
      <3>2. ip \notin DOMAIN instrs BY <1>4, <1>5, <2>4, <3>1
      <3> QED BY <1>s, <1>13, <3>2, NoStep
    <2>5. CASE now.trap = TRUE
      <3>1. trap = TRUE BY <1>8, <2>5
      <3> QED BY <1>s, <1>13, <3>1, NoStep
    <2> QED BY <1>11, <2>1, <2>2, <2>3, <2>4, <2>5
  <1> QED BY <1>s, <1>12, <1>13

\* When the program has finished, the last stage is Wasm's result.
LEMMA LastStage == InStep => SameAccess
  <1> SUFFICES ASSUME InStep, Finished
               PROVE  trap = Reference.trap /\ mems = Reference.mems /\ regs = Reference.regs
    BY DEF SameAccess
  <1>1. PICK o \in Firsts, p \in Followers :
           prog = <<o, p>> /\ Progress(o, p, pos, instrs, ip, State(mems, regs, trap))
    BY DEF InStep
  <1>2. Len(prog) = 2 /\ prog[1] = o /\ prog[2] = p BY <1>1
  <1> DEFINE c == Code(o)
             d == Code(p)
             s1 == WasmAccess(Start(o), o)
             s2 == WasmAccess(s1, p)
             now == State(mems, regs, trap)
  <1>3. Reference = s2 BY <1>2 DEF Reference, Start, State
  <1>4. now.mems = mems /\ now.regs = regs /\ now.trap = trap /\ Start(o).trap = FALSE
    BY DEF State, Start
  <1>5. Block(c) /\ Block(d) BY CodeBlock
  <1>6. Len(c) \in {1, 2} BY <1>5, Alone
  <1>7. Len(c \o d) = Len(c) + Len(d) /\ Len(d) \in {1, 2} BY <1>5, Together
  <1>8. \/ pos = 1 \/ pos = 2
        \/ /\ pos = 3 /\ instrs = IF c = <<TrapInstr>> THEN c ELSE c \o d
           /\ \/ ip = 1 /\ now = Start(o)
              \/ c # <<TrapInstr>> /\ ip = Len(c) + 1 /\ now = s1 /\ now.trap = FALSE
              \/ now = s2
    BY <1>1 DEF Progress
  <1> HIDE DEF c, d, s1, s2, now
  <1>9. pos = 3 BY <1>2, <1>8 DEF Finished
  <1>10. CASE ip = 1 /\ now = Start(o)
    <2>1. ~trap BY <1>4, <1>10
    <2>2. instrs = c \/ instrs = c \o d BY <1>8, <1>9
    <2>a. PICK l, k : l = Len(c) /\ k = Len(d) OBVIOUS
    <2>b. l \in Nat /\ l >= 1 /\ l + k \in Nat /\ l + k >= 1 BY <1>6, <1>7, <2>a
    <2>3. Len(instrs) \in Nat /\ Len(instrs) >= 1 BY <1>7, <2>2, <2>a, <2>b
    <2> QED BY <1>10, <2>1, <2>3 DEF Finished
  <1>11. CASE c # <<TrapInstr>> /\ ip = Len(c) + 1 /\ now = s1 /\ now.trap = FALSE
    <2>1. ~trap BY <1>4, <1>11
    <2>2. instrs = c \o d BY <1>8, <1>9, <1>11
    <2>3. ~(ip > Len(instrs)) BY <1>6, <1>7, <1>11, <2>2
    <2> QED BY <2>1, <2>3 DEF Finished
  <1>12. CASE now = s2 BY <1>3, <1>4, <1>12
  <1>13. \/ ip = 1 /\ now = Start(o)
         \/ c # <<TrapInstr>> /\ ip = Len(c) + 1 /\ now = s1 /\ now.trap = FALSE
         \/ now = s2
    BY <1>8, <1>9
  <1> QED BY <1>10, <1>11, <1>12, <1>13

-----------------------------------------------------------------------------
(* The results *)

\* The words emitted so far fall apart into whole instructions, and ip is always
\* at the start of one or behind the last.
THEOREM Invariance == AccessSpec => []CodeInv
  BY InitCode, NextCode, PTL DEF AccessSpec

\* The executor of loads and stores never takes a parameter word for an
\* instruction nor an instruction for a parameter word, whatever the operators
\* that follow one another, the offsets and the memories.
THEOREM WordsInPlace == AccessSpec => []NoStrayWord
  BY Invariance, StartIsInstruction, PTL

\* Between two instructions the memories, the registers and the trap are those of
\* Wasm between the two operators.
THEOREM Stages == AccessSpec => []InStep
  BY InitInStep, NextInStep, PTL DEF AccessSpec

\* Two loads or stores leave what Wasm prescribes, whatever the widths, the sizes
\* and contents of the memories, the addresses, offsets and constants: the choice
\* of the encoding, its parameter words, its immediates and the early trap at a
\* constant address are not seen.
THEOREM SameAsWasm == AccessSpec => []SameAccess
  BY Stages, LastStage, PTL
=============================================================================

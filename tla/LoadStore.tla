------------------------------ MODULE LoadStore ------------------------------
(* Two loads or stores, one after the other, on their way through Wasmi: the  *)
(* translator encodes each as an instruction and its parameter words, the     *)
(* executor runs what it finds.  Values are bit patterns, of the widths given *)
(* by Width; a byte is Width.i8 bits.                                         *)
EXTENDS UntypedVal, Instructions

CONSTANTS Memories,     \* the bytes of each memory, memory 0 the default one
          Firsts,       \* the first operator of the program
          Followers     \* the second one

VARIABLES prog,         \* the operators
          pos,          \* the next one to translate
          instrs, mems, regs, ip,
          trap
accessVars == <<prog, pos, instrs, mems, regs, ip, trap>>

Register(r) == [k |-> "reg", r |-> r]
Constant(v) == [k |-> "const", v |-> v]
IsReg(p) == p.k = "reg"
TypeBits(ty) == CASE ty = "f32" -> "i32" [] ty = "f64" -> "i64" [] OTHER -> ty

\* What an operator moves: the integer in memory, and whether its sign counts.
Stored(ty, op) == CASE op \in {"load", "store"}               -> TypeBits(ty)
                    [] op \in {"load8_s", "load8_u", "store8"}    -> "i8"
                    [] op \in {"load16_s", "load16_u", "store16"} -> "i16"
                    [] op \in {"load32_s", "load32_u", "store32"} -> "i32"
IsSigned(op) == op \in {"load8_s", "load16_s", "load32_s"}
Loads == {"load", "load8_s", "load8_u", "load16_s", "load16_u", "load32_s", "load32_u"}
Size(int) == Width[int] \div Width.i8
Byte == 2^Width.i8

\* The operators of Wasm: the value's type, and how it is kept in memory.
NarrowLoads == {"load8_s", "load8_u", "load16_s", "load16_u"}
LoadOperators == ({"i32", "i64", "f32", "f64"} \X {"load"}) \cup ({"i32"} \X NarrowLoads)
                 \cup ({"i64"} \X (NarrowLoads \cup {"load32_s", "load32_u"}))
StoreOperators == ({"i32", "i64", "f32", "f64"} \X {"store"})
                  \cup ({"i32"} \X {"store8", "store16"})
                  \cup ({"i64"} \X {"store8", "store16", "store32"})

\* An operator that passed validation: the address is an i32, in the register
\* ptr or a constant, and its memory exists.
IsOperator(o) ==
    /\ <<o.ty, o.op>> \in LoadOperators \cup StoreOperators
    /\ \/ o.ptr = Register("ptr")
       \/ o.ptr.k = "const" /\ o.ptr.v \in 0 .. UMax("i32")
    /\ o.offset \in 0 .. UMax("i32") /\ o.mem \in 0 .. Len(Memories) - 1
    /\ \/ o.val.k = "reg" /\ o.val.r \in {"val", "out"}
       \/ o.val.k = "const" /\ o.val.v \in Nat
IsRegs(r) == DOMAIN r = {"ptr", "val", "out"} /\ r.ptr \in 0 .. UMax("i32")

\* A memory has at most as many bytes as an i32 can address.
ASSUME AccessAssumption ==
    /\ \A o \in Firsts : IsOperator(o) /\ IsRegs(o.regs)
    /\ \A o \in Followers : IsOperator(o)
    /\ Memories \in Seq(Seq(Nat))
    /\ \A k \in 1 .. Len(Memories) : Len(Memories[k]) <= UMax("i32") + 1

AccessInit ==
    /\ \E first \in Firsts, second \in Followers : prog = <<first, second>>
    /\ pos = 1 /\ instrs = <<>>
    /\ mems = Memories
    /\ regs = [prog[1].regs EXCEPT !.out = 0]
    /\ ip = 1 /\ trap = FALSE

-----------------------------------------------------------------------------
(* Memory accesses *)

\* Mutant: the sum of address and offset wraps around.
effective_address_wrapping(address, offset) == Ok(Wrap("i32", address + offset))

effective_address(address, offset) ==
    IF address + offset > UMax("i32") THEN Trap("MemoryOutOfBounds") ELSE Ok(address + offset)

\* The slice memory[address..][..n] exists.
InBounds(m, address, n) == address <= Len(m) /\ n <= Len(m) - address

\* from_le_bytes of that slice.
FromBytes(m, address, n) == MapThenSumSet(LAMBDA i : m[address + 1 + i] * Byte^i, 0 .. n - 1)

load_extend(m, address, offset, ty, op) ==
    LET ea == effective_address(address, offset)
        int == Stored(ty, op)
        n == Size(int)
    IN IF ~ea.ok THEN ea
       ELSE IF ~InBounds(m, ea.val, n) THEN Trap("MemoryOutOfBounds")
       ELSE LET v == FromBytes(m, ea.val, n)
            IN Ok(IF IsSigned(op) THEN Wrap(TypeBits(ty), Signed(int, v)) ELSE v)

store_wrap(m, address, offset, v, ty, op) ==
    LET ea == effective_address(address, offset)
        int == Stored(ty, op)
        n == Size(int)
        wrapped == Wrap(int, v)
    IN IF ~ea.ok THEN ea
       ELSE IF ~InBounds(m, ea.val, n) THEN Trap("MemoryOutOfBounds")
       ELSE Ok([i \in DOMAIN m |-> IF i - 1 \in ea.val .. ea.val + n - 1
                                   THEN wrapped \div Byte^(i - 1 - ea.val) % Byte
                                   ELSE m[i]])

-----------------------------------------------------------------------------
(* Translation *)

Fits16(offset) == offset <= UMax("i16")
Param(name) == <<"param", name>>
MemoryIndex(m) == [opcode |-> Param("memory_index"), index |-> m]
RegisterAndImm32(p, imm) == [opcode |-> Param("register_and_imm32"), reg |-> p, imm |-> imm]
Imm16AndImm32(i, imm) == [opcode |-> Param("imm16_and_imm32"), imm16 |-> i, imm32 |-> imm]
TrapInstr == [opcode |-> <<"trap">>]
OptionalMemory(m) == IF m = 0 THEN <<>> ELSE <<MemoryIndex(m)>>
Opcode(o, form) == <<o.ty, o.op, form>>

AddressOf(o) == effective_address(o.ptr.v, o.offset)
At(o, instr) ==
    IF ~AddressOf(o).ok THEN <<TrapInstr>> ELSE <<instr>> \o OptionalMemory(o.mem)

\* The constant as the 8 or 16 bits of an instruction, if they hold it.
Field(op) == IF op = "store8" THEN "i8" ELSE "i16"
AsField(o) ==
    LET int == Stored(o.ty, o.op)
        v == Signed(int, Wrap(int, o.val.v))
        field == Field(o.op)
    IN IF -SMin(field) <= v /\ v <= SMax(field) THEN {Wrap(field, v)} ELSE {}
HasField(o) == ~IsReg(o.val) /\ AsField(o) # {}
FieldOf(o) == CHOOSE f \in AsField(o) : TRUE

load_code(o) ==
    IF ~IsReg(o.ptr) THEN At(o, [opcode |-> Opcode(o, "at"), address |-> AddressOf(o).val])
    ELSE IF o.mem = 0 /\ Fits16(o.offset)
         THEN <<[opcode |-> Opcode(o, "offset16"), ptr |-> o.ptr, offset |-> o.offset]>>
         ELSE <<[opcode |-> Opcode(o, "word"), memory |-> o.mem], RegisterAndImm32(o.ptr, o.offset)>>

istore_at_code(o) ==
    At(o, IF HasField(o)
          THEN [opcode |-> Opcode(o, "at_imm"), address |-> AddressOf(o).val, val |-> FieldOf(o)]
          ELSE [opcode |-> Opcode(o, "at"), address |-> AddressOf(o).val, val |-> o.val])

istore_mem0_code(o) ==
    << IF HasField(o)
       THEN [opcode |-> Opcode(o, "offset16_imm"), ptr |-> o.ptr, offset |-> o.offset,
             val |-> FieldOf(o)]
       ELSE [opcode |-> Opcode(o, "offset16"), ptr |-> o.ptr, offset |-> o.offset,
             val |-> o.val] >>

istore_code(o) ==
    IF ~IsReg(o.ptr) THEN istore_at_code(o)
    ELSE IF o.mem = 0 /\ Fits16(o.offset) THEN istore_mem0_code(o)
    ELSE IF HasField(o)
         THEN <<[opcode |-> Opcode(o, "word_imm"), ptr |-> o.ptr, memory |-> o.mem],
                Imm16AndImm32(FieldOf(o), o.offset)>>
         ELSE <<[opcode |-> Opcode(o, "word"), ptr |-> o.ptr, memory |-> o.mem],
                RegisterAndImm32(o.val, o.offset)>>

fstore_code(o) ==
    IF ~IsReg(o.ptr)
    THEN At(o, [opcode |-> Opcode(o, "at"), address |-> AddressOf(o).val, val |-> o.val])
    ELSE IF o.mem = 0 /\ Fits16(o.offset)
         THEN <<[opcode |-> Opcode(o, "offset16"), ptr |-> o.ptr, offset |-> o.offset,
                 val |-> o.val]>>
         ELSE <<[opcode |-> Opcode(o, "word"), ptr |-> o.ptr, memory |-> o.mem],
                RegisterAndImm32(o.val, o.offset)>>

\* A trap makes the rest unreachable: the visitor leaves it out.
Translate(ops, words) ==
    /\ pos <= Len(prog) /\ prog[pos].op \in ops
    /\ instrs' = instrs \o words
    /\ pos' = IF words = <<TrapInstr>> THEN Len(prog) + 1 ELSE pos + 1
    /\ UNCHANGED <<prog, mems, regs, ip, trap>>

translate_load == pos <= Len(prog) /\ Translate(Loads, load_code(prog[pos]))
translate_istore ==
    /\ pos <= Len(prog) /\ prog[pos].ty \in IntTypes
    /\ Translate({"store", "store8", "store16", "store32"}, istore_code(prog[pos]))
translate_fstore ==
    /\ pos <= Len(prog) /\ prog[pos].ty \in {"f32", "f64"}
    /\ Translate({"store"}, fstore_code(prog[pos]))

-----------------------------------------------------------------------------
(* Execution *)

load_arms == load_numbers \cup load_f64_i32_8 \cup load_i32_16_i64_8_s
             \cup load_i64_8_u_16 \cup load_i64_32
store_arms == store_i32 \cup store_i32_8 \cup store_i32_16 \cup store_i64 \cup store_i64_8
              \cup store_i64_16 \cup store_i64_32 \cup store_floats
execute_load_arms == load_arms
execute_store_arms == store_arms
execute_instr_load_arms == load_arms
execute_instr_store_arms == store_arms
invalid_instruction_words ==
    {Param(w) : w \in index_words \cup const_words \cup target_words \cup imm_words
                       \cup register_words \cup call_words}

Executing == instrs[ip]
Word(n) == instrs[ip + n]
ValueOf(p) == IF IsReg(p) THEN regs[p.r] ELSE p.v
FromField(imm) == Wrap(TypeBits(Executing.opcode[1]), Signed(Field(Executing.opcode[2]), imm))

\* Mutant: the optional word is read and not skipped.
fetch_optional_memory_unskipped(at) ==
    IF at + 1 \in DOMAIN instrs /\ instrs[at + 1].opcode = Param("memory_index")
    THEN [memory |-> instrs[at + 1].index, ip |-> at]
    ELSE [memory |-> 0, ip |-> at]

\* The memory index that may follow, and where the instruction ends.
fetch_optional_memory(at) ==
    IF at + 1 \in DOMAIN instrs /\ instrs[at + 1].opcode = Param("memory_index")
    THEN [memory |-> instrs[at + 1].index, ip |-> at + 1]
    ELSE [memory |-> 0, ip |-> at]

Runs(arms, form) == /\ pos > Len(prog) /\ ip \in DOMAIN instrs /\ ~trap
                    /\ Executing.opcode \in arms /\ Executing.opcode[3] = form
RunsLoad(form) == Runs(execute_load_arms \cap execute_instr_load_arms, form)
RunsStore(form) == Runs(execute_store_arms \cap execute_instr_store_arms, form)

LoadFrom(memory, address, offset, next) ==
    LET r == load_extend(mems[memory + 1], address, offset, Executing.opcode[1], Executing.opcode[2])
    IN /\ trap' = ~r.ok
       /\ regs' = IF r.ok THEN [regs EXCEPT !.out = r.val] ELSE regs
       /\ ip' = IF r.ok THEN next ELSE ip
       /\ UNCHANGED <<prog, pos, instrs, mems>>

StoreTo(memory, address, offset, v, next) ==
    LET r == store_wrap(mems[memory + 1], address, offset, v, Executing.opcode[1], Executing.opcode[2])
    IN /\ trap' = ~r.ok
       /\ mems' = IF r.ok THEN [mems EXCEPT ![memory + 1] = r.val] ELSE mems
       /\ ip' = IF r.ok THEN next ELSE ip
       /\ UNCHANGED <<prog, pos, instrs, regs>>

execute_load == RunsLoad("word") /\ LoadFrom(Executing.memory, ValueOf(Word(1).reg), Word(1).imm, ip + 2)
execute_load_at ==
    /\ RunsLoad("at")
    /\ LET m == fetch_optional_memory(ip) IN LoadFrom(m.memory, 0, Executing.address, m.ip + 1)
execute_load_offset16 == RunsLoad("offset16") /\ LoadFrom(0, ValueOf(Executing.ptr), Executing.offset, ip + 1)

execute_store ==
    /\ RunsStore("word")
    /\ StoreTo(Executing.memory, ValueOf(Executing.ptr), Word(1).imm, ValueOf(Word(1).reg), ip + 2)
execute_store_imm ==
    /\ RunsStore("word_imm")
    /\ StoreTo(Executing.memory, ValueOf(Executing.ptr), Word(1).imm32, FromField(Word(1).imm16), ip + 2)
execute_store_offset16 ==
    RunsStore("offset16") /\ StoreTo(0, ValueOf(Executing.ptr), Executing.offset, ValueOf(Executing.val), ip + 1)
execute_store_offset16_imm16 ==
    RunsStore("offset16_imm")
    /\ StoreTo(0, ValueOf(Executing.ptr), Executing.offset, FromField(Executing.val), ip + 1)
execute_store_at ==
    /\ RunsStore("at")
    /\ LET m == fetch_optional_memory(ip)
       IN StoreTo(m.memory, 0, Executing.address, ValueOf(Executing.val), m.ip + 1)
execute_store_at_imm16 ==
    /\ RunsStore("at_imm")
    /\ LET m == fetch_optional_memory(ip)
       IN StoreTo(m.memory, 0, Executing.address, FromField(Executing.val), m.ip + 1)
execute_trap ==
    /\ pos > Len(prog) /\ ip \in DOMAIN instrs /\ ~trap /\ Executing.opcode = <<"trap">>
    /\ trap' = TRUE
    /\ UNCHANGED <<prog, pos, instrs, mems, regs, ip>>

Finished == pos > Len(prog) /\ (trap \/ ip > Len(instrs))
AccessDone == Finished /\ UNCHANGED accessVars

AccessNext ==
    \/ translate_load \/ translate_istore \/ translate_fstore
    \/ execute_load \/ execute_load_at \/ execute_load_offset16
    \/ execute_store \/ execute_store_imm \/ execute_store_offset16
    \/ execute_store_offset16_imm16 \/ execute_store_at \/ execute_store_at_imm16
    \/ execute_trap \/ AccessDone

AccessSpec == AccessInit /\ [][AccessNext]_accessVars /\ WF_accessVars(AccessNext)

-----------------------------------------------------------------------------
(* What Wasm says: addresses do not wrap, and a failed access changes nothing *)

WasmSigned(n, bits) == IF n < 2^(bits - 1) THEN n ELSE n - 2^bits
WasmAccess(s, o) ==
    LET at == IF IsReg(o.ptr) THEN s.regs[o.ptr.r] ELSE o.ptr.v
        v == IF IsReg(o.val) THEN s.regs[o.val.r] ELSE o.val.v
        m == s.mems[o.mem + 1]
        bits == Width[Stored(o.ty, o.op)]
        n == bits \div Width.i8
        first == at + o.offset + 1
    IN IF s.trap THEN s
       ELSE IF first + n - 1 > Len(m) THEN [s EXCEPT !.trap = TRUE]
       ELSE IF o.op \in Loads
       THEN LET u == FromBytes(m, at + o.offset, n)
            IN [s EXCEPT !.regs.out = IF IsSigned(o.op)
                                      THEN WasmSigned(u, bits) % 2^Width[TypeBits(o.ty)] ELSE u]
       ELSE [s EXCEPT !.mems[o.mem + 1] =
                [i \in DOMAIN m |-> IF i \in first .. first + n - 1
                                    THEN (v % 2^bits) \div Byte^(i - first) % Byte ELSE m[i]]]
Reference ==
    WasmAccess(WasmAccess([mems |-> Memories, regs |-> [prog[1].regs EXCEPT !.out = 0],
                           trap |-> FALSE], prog[1]), prog[2])

\* Whatever encoding was chosen, the two accesses leave the memories, the loaded
\* value and the trap that Wasm prescribes.
SameAccess == Finished => /\ trap = Reference.trap
                          /\ mems = Reference.mems
                          /\ regs = Reference.regs

\* The executor is never led to a parameter word, and finds behind each
\* instruction the word it expects: its fetch methods are unchecked.
NoStrayWord ==
    (pos > Len(prog) /\ ip \in DOMAIN instrs) =>
        /\ Executing.opcode \notin invalid_instruction_words
        /\ Executing.opcode = <<"trap">>
           \/ /\ Executing.opcode[3] = "word" => Word(1).opcode = Param("register_and_imm32")
              /\ Executing.opcode[3] = "word_imm" => Word(1).opcode = Param("imm16_and_imm32")
=============================================================================

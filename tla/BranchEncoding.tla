--------------------------- MODULE BranchEncoding ---------------------------
(* A comparison, perhaps an i32.eqz, and a conditional branch on a register:  *)
(* the encoder folds them into one instruction where it may, resolves the     *)
(* label now or when it is pinned, and falls back to a wide encoding when the *)
(* offset does not fit 16 bits.  Then the code runs.                          *)
EXTENDS NumericTranslation

CONSTANTS Operands,    \* by type, the operand values
          Backward,    \* the positions of a label pinned before the branch
          Forward,     \* how far behind the end a label is pinned later
          HalfBits     \* bits of each half of an encoded ComparatorAndOffset

VARIABLES src,         \* the Wasm operators: comparison, where its result goes, the
                       \* branch condition, whether eqz comes between, which branch
          label,       \* where the label is pinned, or that it is not yet
          instrs, last_instr,
          cond,        \* the register the branch tests
          user,        \* the branch that waits for its label, 0 for none
          cells,       \* the registers
          ip, pc
branchVars == <<src, label, instrs, last_instr, cond, user, cells, ip, pc>>

\* Operands are values of their types.
ASSUME BranchAssumption ==
    /\ \A ty \in IntTypes : Operands[ty] \subseteq 0 .. UMax(ty)
    /\ \A ty \in {"f32", "f64"} : Operands[ty] \subseteq Floats(ty) /\ Magnitudes[ty] \subseteq Nat
    /\ Backward \subseteq Int /\ Forward \subseteq Nat

\* What the bits of a pattern add up to: a sum that no prover knows.
ASSUME NotationAssumption ==
    \A ty \in IntTypes, sign \in {"s", "u"} : \A v \in 0 .. UMax(ty) :
        Value(ty, sign, v) = Read(ty, sign, v)

Unpinned == [pinned |-> FALSE, at |-> 0]
Pinned(at) == [pinned |-> TRUE, at |-> at]

-----------------------------------------------------------------------------
(* Comparators *)

IntCmps == Orders \cup {"eq", "ne"}
ComparatorOrder ==
    << <<"i32", "eq">>, <<"i32", "ne">>, <<"i32", "lt_s">>, <<"i32", "lt_u">>,
       <<"i32", "le_s">>, <<"i32", "le_u">>, <<"i32", "gt_s">>, <<"i32", "gt_u">>,
       <<"i32", "ge_s">>, <<"i32", "ge_u">>, <<"i32", "and">>, <<"i32", "or">>,
       <<"i32", "xor">>, <<"i32", "and_eqz">>, <<"i32", "or_eqz">>, <<"i32", "xor_eqz">>,
       <<"i64", "eq">>, <<"i64", "ne">>, <<"i64", "lt_s">>, <<"i64", "lt_u">>,
       <<"i64", "le_s">>, <<"i64", "le_u">>, <<"i64", "gt_s">>, <<"i64", "gt_u">>,
       <<"i64", "ge_s">>, <<"i64", "ge_u">>,
       <<"f32", "eq">>, <<"f32", "ne">>, <<"f32", "lt">>, <<"f32", "le">>,
       <<"f32", "gt">>, <<"f32", "ge">>,
       <<"f64", "eq">>, <<"f64", "ne">>, <<"f64", "lt">>, <<"f64", "le">>,
       <<"f64", "gt">>, <<"f64", "ge">> >>
Comparators == {ComparatorOrder[i] : i \in DOMAIN ComparatorOrder}

from_cmp_instruction(instr) ==
    {c \in Comparators : c = <<instr.opcode[1], instr.opcode[2]>>
                         /\ instr.opcode[3] \in {"rr", "imm16"}}
from_cmp_branch_instruction(instr) ==
    {c \in Comparators : c = <<instr.opcode[1], instr.opcode[2]>>
                         /\ instr.opcode[3] \in {"branch", "branch_imm"}}

Opposite == [eq |-> "ne", ne |-> "eq", lt_s |-> "ge_s", lt_u |-> "ge_u", le_s |-> "gt_s",
             le_u |-> "gt_u", gt_s |-> "le_s", gt_u |-> "le_u", ge_s |-> "lt_s",
             ge_u |-> "lt_u", and |-> "and_eqz", or |-> "or_eqz", xor |-> "xor_eqz",
             and_eqz |-> "and", or_eqz |-> "or", xor_eqz |-> "xor"]

\* Mutant: the orders of floats are negated like those of integers.
negate_floats(c) ==
    {<<c[1], (Opposite @@ [lt |-> "ge", le |-> "gt", gt |-> "le", ge |-> "lt"])[c[2]]>>}

\* No negation of an order of floats: both are false for a NaN.
negate(c) == IF c[2] \in DOMAIN Opposite THEN {<<c[1], Opposite[c[2]]>>} ELSE {}

branch_cmp_instr(c) == <<c[1], c[2], "branch">>
branch_cmp_instr_imm(c) == <<c[1], c[2], "branch_imm">>

\* ComparatorAndOffset::as_u64 is hi << 32 & lo: the two halves are intersected.
as_u64(c, offset) ==
    LET hi == (CHOOSE i \in DOMAIN ComparatorOrder : ComparatorOrder[i] = c) - 1
        lo == offset % 2^(2 * HalfBits)
    IN MapThenSumSet(LAMBDA i : 2^i,
                     {i \in 0 .. 2 * HalfBits - 1 :
                         (hi * 2^HalfBits) \div 2^i % 2 = 1 /\ lo \div 2^i % 2 = 1})

from_u64(u) ==
    LET hi == u \div 2^HalfBits
        lo == u % 2^HalfBits
    IN [cmp |-> ComparatorOrder[hi + 1],
        offset |-> IF lo < 2^(HalfBits - 1) THEN lo ELSE lo - 2^HalfBits]

-----------------------------------------------------------------------------
(* Instructions and their execution *)

Compare(opcode, result, lhs, rhs) == [opcode |-> opcode, result |-> result, a |-> lhs, b |-> rhs]
Branch(opcode, lhs, rhs, offset) == [opcode |-> opcode, a |-> lhs, b |-> rhs, offset |-> offset]
Unsigned == {"lt_u", "le_u", "gt_u", "ge_u"}

\* T::from(Const16<T>)
DecodeImm(ty, o, imm) ==
    IF o \in Unsigned THEN imm.v ELSE Wrap(ty, Signed("i16", imm.v))
IsImm16(ty, o, v) == DecodeImm(ty, o, Imm(Wrap("i16", v))) = v

OperandOf(instr, p) == CASE p.k = "reg"   -> cells[p.r]
                       [] p.k = "const" -> p.v
                       [] p.k = "imm"   -> DecodeImm(instr.opcode[1], instr.opcode[2], p)

\* The functions cmp_eq ... cmp_i32_xor_eqz of the branch instructions.
cmp(c, a, b) ==
    CASE c[2] \in {"and", "or", "xor"} -> bitwise(c[2], a, b) # 0
      [] c[2] = "and_eqz" -> bitwise("and", a, b) = 0
      [] c[2] = "or_eqz"  -> bitwise("or", a, b) = 0
      [] c[2] = "xor_eqz" -> bitwise("xor", a, b) = 0
      [] OTHER -> binary(c[1], c[2], a, b).val = 1

\* The methods of the comparison instructions; UntypedValueExt for the fused ones.
Computed(instr) ==
    LET a == OperandOf(instr, instr.a)  b == OperandOf(instr, instr.b)
    IN CASE instr.opcode[2] = "and_eqz" -> Bool(bitwise("and", a, b) = 0)
         [] instr.opcode[2] = "or_eqz"  -> Bool(bitwise("or", a, b) = 0)
         [] instr.opcode[2] = "xor_eqz" -> Bool(bitwise("xor", a, b) = 0)
         [] OTHER -> binary(instr.opcode[1], instr.opcode[2], a, b).val

-----------------------------------------------------------------------------
(* The source: a comparison or another operator, its result in a local or in  *)
(* a dynamic register, the condition that result or some other register.      *)

SourceOps == {c \in Comparators : c[2] \notin Eqz3} \cup {<<"i32", "add">>}

BranchInit ==
    \E c \in SourceOps, form \in {"rr", "imm16"} : \E v, w \in Operands[c[1]] :
        /\ form = "imm16" => c[1] \in IntTypes /\ IsImm16(c[1], c[2], w)
        /\ src \in [cmp : {c}, local : BOOLEAN, tests : {"result", "other"},
                    eqz : BOOLEAN, br : {"eqz", "nez"}]
        /\ \E at \in Backward : label \in {Unpinned, Pinned(at)}
        /\ instrs = << Compare(<<c[1], c[2], form>>, "result", Reg("lhs"),
                               IF form = "rr" THEN Reg("rhs") ELSE Imm(Wrap("i16", w))) >>
        /\ last_instr \in {0, 1}
        /\ cond = src.tests
        /\ user = 0
        /\ cells = [lhs |-> v, rhs |-> w, result |-> 0, other |-> 1, tmp |-> 0]
        /\ ip = 1
        /\ pc = IF src.eqz THEN "eqz" ELSE "branch"

Space(reg) == IF reg = "result" /\ src.local THEN "Local" ELSE "Dynamic"

\* visit_i32_eqz: fused into a bitwise operator, else a comparison with zero.
CanFuseEqz ==
    /\ last_instr # 0
    /\ LET last == instrs[last_instr] IN
        /\ last.opcode[1] = "i32" /\ last.opcode[2] \in Bitwise3
        /\ Space(last.result) # "Local" /\ last.result = cond
fuse_i32_eqz ==
    /\ pc = "eqz" /\ CanFuseEqz
    /\ instrs' = [instrs EXCEPT ![last_instr].opcode[2] = Opposite[@]]
    /\ pc' = "branch"
    /\ UNCHANGED <<src, label, last_instr, cond, user, cells, ip>>

visit_i32_eqz ==
    /\ pc = "eqz" /\ ~CanFuseEqz
    /\ instrs' = Append(instrs, Compare(<<"i32", "eq", "imm16">>, "tmp", Reg(cond), Imm(0)))
    /\ last_instr' = Len(instrs) + 1
    /\ cond' = "tmp" /\ pc' = "branch"
    /\ UNCHANGED <<src, label, user, cells, ip>>

-----------------------------------------------------------------------------
(* Branches *)

\* try_resolve_label: zero stands for an offset that is not known yet.
Offset(at) == IF label.pinned THEN label.at - at ELSE 0
Fits16(offset) == -SMin("i16") <= offset /\ offset <= SMax("i16")

make_branch_cmp_fallback(c, lhs, rhs, offset) ==
    [opcode |-> branch_cmp_fallback, a |-> lhs, b |-> rhs, params |-> as_u64(c, offset)]

\* The constant of the narrow form moves to a register of its own.
FallbackOf(c, instr, offset) ==
    make_branch_cmp_fallback(c, instr.a,
        IF instr.b.k = "imm" THEN Const(DecodeImm(instr.opcode[1], instr.opcode[2], instr.b))
                             ELSE instr.b, offset)

\* Mutant: a comparison is fused although its result goes to a local.
try_fuse_branch_cmp_any(last, c, offset) ==
    IF last.result # cond THEN {}
    ELSE {IF ~Fits16(offset) THEN FallbackOf(c, last, offset)
          ELSE Branch(IF last.opcode[3] = "rr" THEN branch_cmp_instr(c) ELSE branch_cmp_instr_imm(c),
                      last.a, last.b, offset)}

try_fuse_branch_cmp(last, c, offset) ==
    IF Space(last.result) = "Local" \/ last.result # cond THEN {}
    ELSE {IF ~Fits16(offset) THEN FallbackOf(c, last, offset)
          ELSE Branch(IF last.opcode[3] = "rr" THEN branch_cmp_instr(c) ELSE branch_cmp_instr_imm(c),
                      last.a, last.b, offset)}

\* What the encoder puts in the place of the last instruction, if it may.
Fused == IF last_instr = 0 THEN {}
         ELSE LET last == instrs[last_instr]
                  cs == from_cmp_instruction(last)
              IN UNION {try_fuse_branch_cmp(last, c, Offset(last_instr)) :
                        c \in IF src.br = "nez" THEN cs ELSE UNION {negate(c) : c \in cs}}

Encoded(at, code) ==
    /\ instrs' = code
    /\ user' = IF label.pinned THEN 0 ELSE at
    /\ pc' = IF label.pinned THEN "run" ELSE "pin"
    /\ UNCHANGED <<src, label, cond, cells, ip>>

\* encode_branch_eqz and encode_branch_nez, fused with the comparison before.
encode_branch_fused ==
    /\ pc = "branch"
    /\ \E instr \in Fused : Encoded(last_instr, [instrs EXCEPT ![last_instr] = instr])
    /\ UNCHANGED last_instr

Unopt(c) ==
    LET at == Len(instrs) + 1
        instr == IF Fits16(Offset(at))
                 THEN Branch(branch_cmp_instr_imm(c), Reg(cond), Imm(0), Offset(at))
                 ELSE make_branch_cmp_fallback(c, Reg(cond), Const(0), Offset(at))
    IN /\ pc = "branch" /\ Fused = {}
       /\ Encoded(at, Append(instrs, instr))
       /\ last_instr' = at

encode_branch_eqz_unopt == src.br = "eqz" /\ Unopt(<<"i32", "eq">>)
encode_branch_nez_unopt == src.br = "nez" /\ Unopt(<<"i32", "ne">>)

\* The end of the block pins the label; update_branch_offset at the end of the
\* function writes the offset or replaces the instruction by its fallback.
update_branch_offset ==
    /\ pc = "pin"
    /\ \E d \in Forward :
        LET dst == Len(instrs) + 1 + d
            instr == instrs[user]
        IN /\ label' = Pinned(dst)
           /\ \E c \in from_cmp_branch_instruction(instr) :
                instrs' = [instrs EXCEPT ![user] =
                    IF Fits16(dst - user) THEN [@ EXCEPT !.offset = dst - user]
                                          ELSE FallbackOf(c, @, dst - user)]
    /\ user' = 0 /\ pc' = "run"
    /\ UNCHANGED <<src, last_instr, cond, cells, ip>>

-----------------------------------------------------------------------------
(* Execution, from the comparison to the end of the branch *)

execute_branch_i32_arms == branch_i32_bits \cup branch_i32_signed \cup branch_i32_rest
execute_branch_wide_arms ==
    branch_i64_signed \cup branch_i64_rest \cup branch_f32 \cup branch_f64
execute_instr_branch_i32_arms == branch_i32_bits \cup branch_i32_signed \cup branch_i32_rest
execute_instr_branch_wide_arms ==
    branch_i64_signed \cup branch_i64_rest \cup branch_f32 \cup branch_f64
IsBranch(opcode) ==
    opcode \in (execute_branch_i32_arms \cup execute_branch_wide_arms)
               \cap (execute_instr_branch_i32_arms \cup execute_instr_branch_wide_arms)

At(opcodes(_)) == pc = "run" /\ ip \in DOMAIN instrs /\ opcodes(instrs[ip].opcode)
Jump(taken, offset) ==
    /\ ip' = IF taken THEN ip + offset ELSE ip + 1
    /\ pc' = "done"
    /\ UNCHANGED <<src, label, instrs, last_instr, cond, user, cells>>

execute_compare ==
    /\ At(LAMBDA o : o[3] \in {"rr", "imm16"})
    /\ cells' = [cells EXCEPT ![instrs[ip].result] = Computed(instrs[ip])]
    /\ ip' = ip + 1
    /\ UNCHANGED <<src, label, instrs, last_instr, cond, user, pc>>

execute_branch_binop ==
    /\ At(LAMBDA o : IsBranch(o) /\ o[3] = "branch")
    /\ LET i == instrs[ip]
       IN Jump(cmp(<<i.opcode[1], i.opcode[2]>>, OperandOf(i, i.a), OperandOf(i, i.b)), i.offset)

execute_branch_binop_imm ==
    /\ At(LAMBDA o : IsBranch(o) /\ o[3] = "branch_imm")
    /\ LET i == instrs[ip]
       IN Jump(cmp(<<i.opcode[1], i.opcode[2]>>, OperandOf(i, i.a), OperandOf(i, i.b)), i.offset)

\* A comparator of another type reads the bits of the operands as its own.
execute_branch_cmp_fallback ==
    /\ At(LAMBDA o : o = branch_cmp_fallback)
    /\ LET i == instrs[ip]
           p == from_u64(i.params)
           holds == IF p.cmp[1] \in IntTypes /\ src.cmp[1] \notin IntTypes
                       /\ i.a \in {Reg("lhs"), Reg("rhs")}
                    THEN BOOLEAN
                    ELSE {cmp(p.cmp, OperandOf(i, i.a), OperandOf(i, i.b))}
       IN \E taken \in holds : Jump(taken, p.offset)

BranchDone == pc = "done" /\ UNCHANGED branchVars

BranchNext == \/ fuse_i32_eqz \/ visit_i32_eqz \/ encode_branch_fused
              \/ encode_branch_eqz_unopt \/ encode_branch_nez_unopt \/ update_branch_offset
              \/ execute_compare \/ execute_branch_binop \/ execute_branch_binop_imm
              \/ execute_branch_cmp_fallback \/ BranchDone

BranchSpec == BranchInit /\ [][BranchNext]_branchVars /\ WF_branchVars(BranchNext)

-----------------------------------------------------------------------------
\* What Wasm computes: the comparison, the condition, whether it branches.
Compared == LET c == src.cmp IN
            IF c[1] \in IntTypes THEN WasmInt(c[1], c[2], cells.lhs, cells.rhs).val
                                 ELSE WasmFloat(c[2], cells.lhs, cells.rhs).val
Tested == LET v == IF src.tests = "result" THEN Compared ELSE cells.other
          IN IF src.eqz THEN Bool(v = 0) ELSE v
Taken == (src.br = "nez") = (Tested # 0)
Expected == IF Taken THEN label.at ELSE Len(instrs) + 1
UsesFallback == \E i \in DOMAIN instrs : instrs[i].opcode = branch_cmp_fallback

\* However the branch was encoded within 16 bits, control goes where the Wasm
\* program sends it: a NaN makes neither an order nor its opposite true, and a
\* label pinned late is reached from the instruction that replaced another.
SameBranch == (pc = "done" /\ ~UsesFallback) => ip = Expected

\* A comparison whose result is stored in a local still stores it: a fused
\* branch must not drop the store.
ResultKept == (pc = "done" /\ src.local) => cells.result = Compared

\* A branch too far for 16 bits goes where the Wasm program sends it.
FarBranch == (pc = "done" /\ UsesFallback) => ip = Expected
=============================================================================

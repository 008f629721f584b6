----------------------------- MODULE CopyEncoder -----------------------------
(* How the instruction encoder turns copies of values between registers into  *)
(* instructions.  A value is in a register or a constant.                     *)
EXTENDS UntypedVal, Instructions, SequencesExt

CONSTANT Promote       \* f64.promote_f32, from the bits of an f32

Reg(r) == [k |-> "reg", r |-> r]
IsReg(p) == p.k = "reg"

-----------------------------------------------------------------------------
(* Operands *)

\* Const32::try_from: an i64 that is a sign extended i32, an f64 that is an f32.
Fits32(c) == CASE c.ty \in {"i32", "f32"} -> TRUE
               [] c.ty = "i64" -> Wrap("i64", Signed("i32", Wrap("i32", c.v))) = c.v
               [] c.ty = "f64" -> c.v \in Range(Promote)
               [] OTHER -> FALSE
Form32(c) == CASE c.ty = "i64" -> "i64imm32" [] c.ty = "f64" -> "f64imm32" [] OTHER -> "imm32"
Encode32(c) == CASE c.ty = "i64" -> Wrap("i32", c.v)
                 [] c.ty = "f64" -> CHOOSE u \in DOMAIN Promote : Promote[u] = c.v
                 [] OTHER -> c.v
Decode32(form, u) == CASE form = "i64imm32" -> Wrap("i64", Signed("i32", u))
                       [] form = "f64imm32" -> Promote[u]
                       [] OTHER -> u

\* A constant gets a register of its own, which nothing writes.
alloc_const(c) == [k |-> "const_reg", v |-> c.v]
provider2reg(p) == IF IsReg(p) THEN p ELSE alloc_const(p)
Regs(ps) == [i \in DOMAIN ps |-> provider2reg(ps[i])]

from_providers(ps) ==
    /\ \A i \in DOMAIN ps : IsReg(ps[i])
    /\ \A i \in 1 .. Len(ps) - 1 : ps[i + 1].r - ps[i].r = 1
SpanRegs(head, len) == [i \in 1 .. len |-> Reg(head + i - 1)]

has_overlapping_copy_spans(result, value, len) ==
    len > 1 /\ value < result /\ value + len - 1 >= result

\* Mutant: the first register written is forgotten.
has_overlapping_copies_after_first(head, ps) ==
    \E i \in DOMAIN ps : IsReg(ps[i]) /\ head < ps[i].r /\ ps[i].r < head + i - 1

\* A value is read after one of the copies before has overwritten it.
has_overlapping_copies(head, ps) ==
    \E i \in DOMAIN ps : IsReg(ps[i]) /\ head <= ps[i].r /\ ps[i].r < head + i - 1

-----------------------------------------------------------------------------
(* Encoder: a code is a sequence of words and the position of the last        *)
(* instruction, which is not the last word when parameter words follow it.    *)

push_instr(c, instr) == [c EXCEPT !.words = Append(@, instr), !.last = Len(c.words) + 1]
append_instrs(c, words) == [c EXCEPT !.words = @ \o words]
Param(name) == <<"param", name>>

\* Lists of three, and one, two or three registers at the end.
encode_register_list(ps) ==
    LET n == (Len(ps) + 2) \div 3
        Chunk(i) == SubSeq(Regs(ps), 3 * i - 2, IF 3 * i < Len(ps) THEN 3 * i ELSE Len(ps))
        Name(i) == IF i < n THEN "register_list"
                   ELSE CASE Len(Chunk(i)) = 1 -> "register" [] Len(Chunk(i)) = 2 -> "register2"
                          [] Len(Chunk(i)) = 3 -> "register3"
    IN [i \in 1 .. n |-> [opcode |-> Param(Name(i)), regs |-> Chunk(i)]]

Copy(form, result, values) == [opcode |-> <<"copy", form>>, result |-> result, values |-> values]

\* The copy before and this one as one copy of two, the value of this one
\* replaced when the copy before has just written its register.
merge_copy_instrs(c, result, p) ==
    IF ~IsReg(p) \/ c.last = 0 THEN {}
    ELSE LET last == c.words[c.last]
         IN IF last.opcode # <<"copy", "reg">> THEN {}
            ELSE LET v == IF p = Reg(last.result) THEN last.values[1] ELSE p
                 IN IF result = last.result + 1
                    THEN {[c EXCEPT !.words[c.last] = Copy("2", last.result, <<last.values[1], v>>)]}
                    ELSE IF result = last.result - 1
                    THEN {[c EXCEPT !.words[c.last] = Copy("2", result, <<v, last.values[1]>>)]}
                    ELSE {}

encode_copy(c, result, p) ==
    LET merged == merge_copy_instrs(c, result, p)
    IN IF merged # {} THEN CHOOSE m \in merged : TRUE
       ELSE IF p = Reg(result) THEN c
       ELSE push_instr(c, IF ~IsReg(p) /\ Fits32(p)
                          THEN [opcode |-> <<"copy", Form32(p)>>, result |-> result,
                                imm |-> Encode32(p)]
                          ELSE Copy("reg", result, <<provider2reg(p)>>))

\* Copies at the start that change nothing are left out.
encode_copies(c, first, all) ==
    LET skip == Max({n \in 0 .. Len(all) : \A i \in 1 .. n : all[i] = Reg(first + i - 1)})
        head == first + skip
        ps   == SubSeq(all, skip + 1, Len(all))
    IN CASE ps = <<>> -> c
         [] Len(ps) = 1 -> encode_copy(c, head, ps[1])
         [] Len(ps) = 2 -> IF ps[2] = Reg(head + 1) THEN encode_copy(c, head, ps[1])
                           ELSE push_instr(c, Copy("2", head, Regs(ps)))
         [] Len(ps) > 2 ->
              IF from_providers(ps)
              THEN push_instr(c, Copy(IF has_overlapping_copy_spans(head, ps[1].r, Len(ps))
                                      THEN "span" ELSE "span_non_overlapping",
                                      head, SpanRegs(ps[1].r, Len(ps))))
              ELSE append_instrs(
                     push_instr(c, Copy(IF has_overlapping_copies(head, ps)
                                        THEN "many" ELSE "many_non_overlapping",
                                        head, Regs(SubSeq(ps, 1, 2)))),
                     encode_register_list(SubSeq(ps, 3, Len(ps))))
=============================================================================

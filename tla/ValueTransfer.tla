---------------------------- MODULE ValueTransfer ----------------------------
(* One operator that moves values, on its way through Wasmi: two assignments  *)
(* of locals, br, br_if, br_table or return, with its operands in registers   *)
(* or constant.  The encoder picks an instruction by how many values there    *)
(* are, whether their registers are contiguous and whether a copy would       *)
(* overwrite a value before it is read; the executor runs what it picked.     *)
(* Fuel is left out.  Labels are resolved in BranchEncoding; here a branch    *)
(* names its label.                                                           *)
EXTENDS CopyEncoder

CONSTANTS NRegs,       \* registers of the frame, 0 .. NRegs - 1
          BlockParams, \* for each label, the first register of its parameters
          Sources      \* the operators

VARIABLES src,         \* the operator: kind, values, and where they go
          next,        \* what of it is translated next
          code, last_instr,
          regs, out,   \* the frame's registers, and the results of the caller
          ip, at       \* at: the label reached, or that control is still inside
transferVars == <<src, next, code, last_instr, regs, out, ip, at>>

ReturnLabel == 0
Inside == -1
FallThrough == -2

\* What validation and register allocation make sure of: operands in registers of
\* the frame, labels that exist, and room for the parameters of the label's block.
Providers == [k : {"reg"}, r : 0 .. NRegs - 1]
             \cup [k : {"const"}, ty : {"i32", "i64", "f32", "f64", "ref"}, v : Nat]
Labels == {ReturnLabel} \cup DOMAIN BlockParams
HasRoom(label, values) == label # ReturnLabel => BlockParams[label] + Len(values) <= NRegs
IsSource(s) ==
    \/ s \in [kind : {"sets"}, values : [1 .. 2 -> Providers], into : [1 .. 2 -> 0 .. NRegs - 1]]
    \/ s \in [kind : {"return"}, values : Seq(Providers), test : Providers]
    \/ /\ s \in [kind : {"br", "br_if"}, values : Seq(Providers), label : Labels, test : Providers]
       /\ HasRoom(s.label, s.values)
    \/ /\ s \in [kind : {"br_table"}, values : Seq(Providers), targets : Seq(Labels), test : Providers]
       /\ s.targets # <<>>
       /\ \A i \in DOMAIN s.targets : HasRoom(s.targets[i], s.values)

ASSUME TransferAssumption ==
    /\ NRegs \in Nat
    /\ BlockParams \in Seq(Nat)
    /\ \A s \in Sources : IsSource(s)

TransferInit == /\ src \in Sources
                /\ next = 1 /\ code = <<>> /\ last_instr = 0
                /\ regs = [r \in 0 .. NRegs - 1 |-> r]
                /\ out = <<>> /\ ip = 1 /\ at = Inside

-----------------------------------------------------------------------------
(* Translation of the operator *)

Now == [words |-> code, last |-> last_instr]

\* A return of values: in the instruction up to three registers, two if conditional.
Returning(c, family, inline, ps) ==
    LET Return(form, values) == [opcode |-> <<family, form>>, cond |-> src.test, values |-> values]
    IN CASE ps = <<>> -> push_instr(c, Return("none", <<>>))
         [] Len(ps) = 1 -> push_instr(c, IF ~IsReg(ps[1]) /\ Fits32(ps[1])
                                         THEN Return(Form32(ps[1]), <<Encode32(ps[1])>>)
                                         ELSE Return("reg", Regs(ps)))
         [] Len(ps) \in 2 .. inline -> push_instr(c, Return(IF Len(ps) = 2 THEN "reg2" ELSE "reg3", Regs(ps)))
         [] Len(ps) > 1 /\ Len(ps) > inline ->
              IF from_providers(ps) THEN push_instr(c, Return("span", SpanRegs(ps[1].r, Len(ps))))
              ELSE append_instrs(push_instr(c, Return("many", Regs(SubSeq(ps, 1, inline)))),
                                 encode_register_list(SubSeq(ps, inline + 1, Len(ps))))
encode_return(c, ps) == Returning(c, "return", 3, ps)
encode_return_nez(c, ps) == Returning(c, "return_nez", 2, ps)

Emitted(c, upto) ==
    /\ code' = c.words /\ last_instr' = c.last
    /\ next' = upto + 1
    /\ UNCHANGED <<src, regs, out, ip, at>>
Remaining == IF src.kind = "sets" THEN Len(src.values) ELSE 1
Pending(kind) == src.kind = kind /\ next <= Remaining
ParamsOf(label) == BlockParams[label]
BranchTo(c, label) == push_instr(c, [opcode |-> branch, label |-> label])

\* local.set, twice, when the value is not the result of the instruction before.
translate_sets == Pending("sets") /\ Emitted(encode_copy(Now, src.into[next], src.values[next]), next)

translate_return == Pending("return") /\ Emitted(encode_return(Now, src.values), 1)

translate_br(label) ==
    Emitted(IF label = ReturnLabel THEN encode_return(Now, src.values)
               ELSE BranchTo(encode_copies(Now, ParamsOf(label), src.values), label), 1)
visit_br == Pending("br") /\ translate_br(src.label)

BranchIf(c, op, label) ==
    push_instr(c, [opcode |-> <<"i32", op, "branch_imm">>, cond |-> src.test, label |-> label])

\* The copies are skipped when the branch is not taken.
visit_br_if ==
    /\ Pending("br_if")
    /\ IF ~IsReg(src.test)
       THEN IF src.test.v # 0 THEN translate_br(src.label) ELSE Emitted(Now, 1)
       ELSE IF src.label = ReturnLabel THEN Emitted(encode_return_nez(Now, src.values), 1)
       ELSE IF src.values = SpanRegs(ParamsOf(src.label), Len(src.values))
       THEN Emitted(BranchIf(Now, "ne", src.label), 1)
       ELSE Emitted(BranchTo(encode_copies(BranchIf(Now, "eq", FallThrough),
                                              ParamsOf(src.label), src.values), src.label), 1)

Chosen(i) == src.targets[IF i < Len(src.targets) THEN i + 1 ELSE Len(src.targets)]
IsJump == \/ Len(src.targets) = 1 \/ ~IsReg(src.test)
          \/ \A i \in DOMAIN src.targets : src.targets[i] = Last(src.targets)
translate_br_table_jump ==
    /\ Pending("br_table") /\ IsJump
    /\ translate_br(IF IsReg(src.test) THEN Last(src.targets) ELSE Chosen(src.test.v))

\* One word for each target: a branch, a target with its registers, or a return.
Target(label, overlaps) ==
    IF src.values = <<>> THEN [opcode |-> branch, label |-> label]
    ELSE [opcode |-> Param(IF overlaps THEN "branch_table_target"
                                       ELSE "branch_table_target_non_overlapping"),
          head |-> ParamsOf(label), label |-> label]
translate_br_table_targets(c, returned, overlapping) ==
    LET upto[n \in 0 .. Len(src.targets)] ==
            IF n = 0 THEN c
            ELSE LET label == src.targets[n]
                 IN IF label = ReturnLabel THEN encode_return(upto[n - 1], returned)
                    ELSE append_instrs(upto[n - 1], <<Target(label, label \in overlapping)>>)
    IN upto[Len(src.targets)]
BranchTable(form, params) ==
    append_instrs(push_instr(Now, [opcode |-> <<"branch_table", form>>, index |-> src.test,
                                   len |-> Len(src.targets)]), params)
Simple(form, params) ==
    /\ Pending("br_table") /\ ~IsJump
    /\ Emitted(translate_br_table_targets(BranchTable(form, params), src.values, Range(src.targets)), 1)

translate_br_table_0 == Len(src.values) = 0 /\ Simple("0", <<>>)
translate_br_table_1 ==
    /\ Len(src.values) = 1
    /\ LET p == src.values[1]
       IN Simple("1", IF ~IsReg(p) /\ Fits32(p)
                      THEN << [opcode |-> Param(CASE p.ty = "i64" -> "i64const32"
                                                  [] p.ty = "f64" -> "f64const32"
                                                  [] OTHER -> "const32"),
                               form |-> Form32(p), imm |-> Encode32(p)] >>
                      ELSE encode_register_list(<<p>>))
translate_br_table_2 == Len(src.values) = 2 /\ Simple("2", encode_register_list(src.values))
translate_br_table_3 == Len(src.values) = 3 /\ Simple("3", encode_register_list(src.values))
translate_br_table_span ==
    /\ Len(src.values) > 3 /\ from_providers(src.values)
    /\ Pending("br_table") /\ ~IsJump
    /\ LET v == src.values[1].r  n == Len(src.values)
       IN Emitted(translate_br_table_targets(
             BranchTable("span", <<[opcode |-> Param("register_span"), regs |-> SpanRegs(v, n)]>>),
             src.values, {l \in Range(src.targets) \ {ReturnLabel} :
                             has_overlapping_copy_spans(ParamsOf(l), v, n)}), 1)

\* The targets that return are plain returns: a return of many values would
\* take several words of the table.
translate_br_table_many ==
    /\ Len(src.values) > 3 /\ ~from_providers(src.values)
    /\ Pending("br_table") /\ ~IsJump
    /\ Emitted(translate_br_table_targets(
             BranchTable("many", encode_register_list(src.values)),
             <<>>, {l \in Range(src.targets) \ {ReturnLabel} :
                      has_overlapping_copies(ParamsOf(l), src.values)}), 1)

-----------------------------------------------------------------------------
(* Execution *)

execute_copy_arms == copies
execute_instr_copy_arms == copies
execute_return_arms == returns \cup conditional_returns
execute_instr_return_arms == returns \cup conditional_returns
execute_branch_table_arms == branch_tables
execute_instr_branch_table_arms == branch_tables

Instr == code[ip]
get_register(p) == IF IsReg(p) THEN regs[p.r] ELSE p.v
Values(ps) == [i \in DOMAIN ps |-> get_register(ps[i])]

\* Mutant: the word that ends a register list is not skipped.
skip_register_list_short(first) ==
    CHOOSE n \in first .. Len(code) : /\ code[n].opcode # Param("register_list")
                                      /\ \A m \in first .. n - 1 : code[m].opcode = Param("register_list")

\* Where the words of a register list end.
skip_register_list(first) ==
    1 + CHOOSE n \in first .. Len(code) :
            /\ code[n].opcode # Param("register_list")
            /\ \A m \in first .. n - 1 : code[m].opcode = Param("register_list")
ListRegs(first) ==
    LET end == CHOOSE n \in first .. Len(code) :
                  /\ code[n].opcode # Param("register_list")
                  /\ \A m \in first .. n - 1 : code[m].opcode = Param("register_list")
    IN FlattenSeq([i \in 1 .. end - first + 1 |-> code[first + i - 1].regs])

\* Through a temporary buffer, or one after the other.
Buffered(head, ps) ==
    [r \in DOMAIN regs |-> IF r \in head .. head + Len(ps) - 1 THEN Values(ps)[r - head + 1] ELSE regs[r]]
OneByOne(head, ps) ==
    LET upto[n \in 0 .. Len(ps)] ==
            IF n = 0 THEN regs
            ELSE [upto[n - 1] EXCEPT ![head + n - 1] =
                    IF IsReg(ps[n]) THEN upto[n - 1][ps[n].r] ELSE ps[n].v]
    IN upto[Len(ps)]

Runs(arms) == next > Remaining /\ at = Inside /\ ip \in DOMAIN code /\ Instr.opcode \in arms
RunsCopy(form) == Runs(execute_copy_arms \cap execute_instr_copy_arms) /\ Instr.opcode[2] = form
Copied(rs, then) == regs' = rs /\ ip' = then /\ UNCHANGED <<src, next, code, last_instr, out, at>>

execute_copy == RunsCopy("reg")
                /\ Copied([regs EXCEPT ![Instr.result] = get_register(Instr.values[1])], ip + 1)
execute_copy_2 ==
    /\ RunsCopy("2")
    /\ LET tmp == get_register(Instr.values[2])
       IN Copied([regs EXCEPT ![Instr.result] = get_register(Instr.values[1]),
                              ![Instr.result + 1] = tmp], ip + 1)
execute_copy_imm ==
    \E form \in {"imm32", "i64imm32", "f64imm32"} :
        RunsCopy(form) /\ Copied([regs EXCEPT ![Instr.result] = Decode32(form, Instr.imm)], ip + 1)
execute_copy_span == RunsCopy("span") /\ Copied(Buffered(Instr.result, Instr.values), ip + 1)
execute_copy_span_non_overlapping ==
    RunsCopy("span_non_overlapping") /\ Copied(OneByOne(Instr.result, Instr.values), ip + 1)
execute_copy_many ==
    /\ RunsCopy("many")
    /\ Copied(Buffered(Instr.result, Instr.values \o ListRegs(ip + 1)), skip_register_list(ip + 1))
execute_copy_many_non_overlapping ==
    /\ RunsCopy("many_non_overlapping")
    /\ Copied(OneByOne(Instr.result, Instr.values \o ListRegs(ip + 1)), skip_register_list(ip + 1))

\* The results of the caller, in another frame, and the end of this one.
Returned(results) ==
    out' = results /\ at' = ReturnLabel /\ UNCHANGED <<src, next, code, last_instr, regs, ip>>
ReturnValues ==
    CASE Instr.opcode[2] \in {"imm32", "i64imm32", "f64imm32"} -> <<Decode32(Instr.opcode[2], Instr.values[1])>>
      [] Instr.opcode[2] = "many" -> Values(Instr.values \o ListRegs(ip + 1))
      [] Instr.opcode[2] = "none" -> out
      [] OTHER -> Values(Instr.values)
RunsReturn(family) ==
    Runs(execute_return_arms \cap execute_instr_return_arms) /\ Instr.opcode[1] = family

execute_return == RunsReturn("return") /\ Returned(ReturnValues)
execute_return_nez ==
    /\ RunsReturn("return_nez")
    /\ IF get_register(Instr.cond) # 0 THEN Returned(ReturnValues)
       ELSE /\ ip' = IF Instr.opcode[2] = "many" THEN skip_register_list(ip + 1) ELSE ip + 1
            /\ UNCHANGED <<src, next, code, last_instr, regs, out, at>>

execute_branch ==
    /\ Runs({branch})
    /\ at' = Instr.label
    /\ UNCHANGED <<src, next, code, last_instr, regs, out, ip>>
execute_branch_i32_imm ==
    /\ Runs({<<"i32", "eq", "branch_imm">>, <<"i32", "ne", "branch_imm">>})
    /\ LET taken == (get_register(Instr.cond) = 0) = (Instr.opcode[2] = "eq")
       IN /\ at' = IF taken THEN Instr.label ELSE at
          /\ ip' = IF taken THEN ip ELSE ip + 1
    /\ UNCHANGED <<src, next, code, last_instr, regs, out>>

fetch_branch_table_offset ==
    LET i == get_register(Instr.index) IN (IF i < Instr.len THEN i ELSE Instr.len - 1) + 1
RunsTable(forms) ==
    Runs(execute_branch_table_arms \cap execute_instr_branch_table_arms) /\ Instr.opcode[2] \in forms

\* The target's word: its copies and its branch are done here; a branch or a
\* return is left for the next step.
ToTarget(pos, overlapping, separate, results) ==
    LET t == code[pos]
    IN /\ IF t.opcode = Param("branch_table_target") THEN regs' = overlapping[t.head] /\ at' = t.label
          ELSE IF t.opcode = Param("branch_table_target_non_overlapping")
          THEN regs' = separate[t.head] /\ at' = t.label
          ELSE UNCHANGED <<regs, at>>
       /\ out' = IF t.opcode = <<"return", "none">> THEN results ELSE out
       /\ ip' = pos
       /\ UNCHANGED <<src, next, code, last_instr>>
Heads == {BlockParams[l] : l \in DOMAIN BlockParams}

execute_branch_table_0 ==
    RunsTable({"0"}) /\ ToTarget(ip + fetch_branch_table_offset, <<>>, <<>>, out)
execute_branch_table_1 ==
    /\ RunsTable({"1"})
    /\ LET w == code[ip + 1]
           v == IF w.opcode = Param("register") THEN get_register(w.regs[1]) ELSE Decode32(w.form, w.imm)
           set == [h \in Heads |-> [regs EXCEPT ![h] = v]]
       IN ToTarget(ip + 1 + fetch_branch_table_offset, set, set, out)
execute_branch_table_2_3 ==
    /\ RunsTable({"2", "3"})
    /\ LET set == [h \in Heads |-> Buffered(h, code[ip + 1].regs)]
       IN ToTarget(ip + 1 + fetch_branch_table_offset, set, set, out)
execute_branch_table_span ==
    /\ RunsTable({"span"})
    /\ ToTarget(ip + 1 + fetch_branch_table_offset,
                [h \in Heads |-> Buffered(h, code[ip + 1].regs)],
                [h \in Heads |-> OneByOne(h, code[ip + 1].regs)], out)
execute_branch_table_many ==
    /\ RunsTable({"many"})
    /\ LET ps == ListRegs(ip + 1)
       IN ToTarget(skip_register_list(ip + 1) + fetch_branch_table_offset - 1,
                   [h \in Heads |-> Buffered(h, ps)], [h \in Heads |-> OneByOne(h, ps)], Values(ps))

TransferDone == /\ next > Remaining
                /\ at # Inside \/ ip > Len(code)
                /\ UNCHANGED transferVars

TransferNext == \/ translate_sets \/ translate_return \/ visit_br \/ visit_br_if
                \/ translate_br_table_jump \/ translate_br_table_0 \/ translate_br_table_1
                \/ translate_br_table_2 \/ translate_br_table_3 \/ translate_br_table_span
                \/ translate_br_table_many
                \/ execute_copy \/ execute_copy_2 \/ execute_copy_imm \/ execute_copy_span
                \/ execute_copy_span_non_overlapping \/ execute_copy_many
                \/ execute_copy_many_non_overlapping
                \/ execute_return \/ execute_return_nez \/ execute_branch \/ execute_branch_i32_imm
                \/ execute_branch_table_0 \/ execute_branch_table_1 \/ execute_branch_table_2_3
                \/ execute_branch_table_span \/ execute_branch_table_many
                \/ TransferDone

TransferSpec == TransferInit /\ [][TransferNext]_transferVars /\ WF_transferVars(TransferNext)

-----------------------------------------------------------------------------
(* What Wasm says.  Every register holds its own number at the start. *)

Original(p) == IF IsReg(p) THEN p.r ELSE p.v
WasmTarget ==
    LET t == IF src.kind \in {"br_if", "br_table"} THEN Original(src.test) ELSE 0
    IN CASE src.kind = "sets" -> FallThrough
         [] src.kind = "return" -> ReturnLabel
         [] src.kind = "br" -> src.label
         [] src.kind = "br_if" -> IF t # 0 THEN src.label ELSE FallThrough
         [] src.kind = "br_table" ->
              IF t + 1 < Len(src.targets) THEN src.targets[t + 1] ELSE Last(src.targets)
AfterSet(rs, into, p) == [rs EXCEPT ![into] = IF IsReg(p) THEN rs[p.r] ELSE p.v]
Identity == [r \in DOMAIN regs |-> r]
WasmRegs ==
    IF src.kind = "sets"
    THEN AfterSet(AfterSet(Identity, src.into[1], src.values[1]), src.into[2], src.values[2])
    ELSE IF WasmTarget \in {FallThrough, ReturnLabel} THEN Identity
    ELSE [r \in DOMAIN regs |->
            LET i == r - BlockParams[WasmTarget] + 1
            IN IF i \in DOMAIN src.values THEN Original(src.values[i]) ELSE r]
Reached == IF at = Inside THEN FallThrough ELSE at
Finished == next > Remaining /\ (at # Inside \/ ip > Len(code))

\* Whatever instruction was chosen, control arrives where Wasm sends it, with
\* each parameter or result holding the value its operand had at the start and
\* no other register changed.
SameTransfer ==
    Finished => /\ Reached = WasmTarget
                /\ Reached = ReturnLabel => out = [i \in DOMAIN src.values |-> Original(src.values[i])]
                /\ Reached # ReturnLabel => regs = WasmRegs /\ out = <<>>

\* Execution never arrives at a parameter word, and a register list is followed
\* by the word that ends it: the executor does not check either.
WordsConsumed ==
    (next > Remaining /\ ip \in DOMAIN code /\ at = Inside) =>
        /\ Instr.opcode[1] # "param"
        /\ Instr.opcode[2] = "many" =>
             \E n \in ip + 1 .. Len(code) :
                /\ code[n].opcode \in {Param("register"), Param("register2"), Param("register3")}
                /\ \A m \in ip + 1 .. n - 1 : code[m].opcode = Param("register_list")
=============================================================================

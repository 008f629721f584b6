-------------------------- MODULE LocalPreservation --------------------------
(* Translation of local.get emits nothing: the value stack refers to the       *)
(* register of the local.  Before the local changes, or may change in a block, *)
(* what refers to it is moved to a preserved register, which the allocator     *)
(* takes from the top of the register file and moves down at the end.          *)
(* local.set rewrites the result of the instruction before it if it can.       *)
(* Operators: local.get, local.set, local.tee, i32.const, global.get, an i32   *)
(* operator of two operands, drop, block, loop, if, end, and a br_if to the    *)
(* loop.  Blocks have no parameters and no results, an if has no else, and one *)
(* control frame is open at a time.  Fuel is left out.                         *)
EXTENDS CopyEncoder

CONSTANTS NLocals,                     \* the locals are registers 0 .. NLocals - 1
          INITIAL_PRESERVATION_INDEX,
          PRESERVE_THRESHOLD,
          MaxOps                       \* bound on the operators, drop and end not counted

ASSUME SizesAssumption == /\ NLocals \in Nat \ {0} /\ MaxOps \in Nat
                          /\ PRESERVE_THRESHOLD \in Nat
                          /\ INITIAL_PRESERVATION_INDEX \in Nat
                          /\ NLocals < INITIAL_PRESERVATION_INDEX

VARIABLES stack,   \* the ValueStack: providers, references to locals, registers
          enc,     \* the InstrEncoder: words, last, notified_preservation
          frame,   \* the open control frame
          wasm,    \* the stack and the locals of the Wasm function
          phase
vars == <<stack, enc, frame, wasm, phase>>

Locals == 0 .. NLocals - 1
None == 0
NoReg == -1
NoFrame == [kind |-> "none", height |-> 0, taken |-> TRUE]
InitialValue(l) == l      \* the first local is zero: an if on it is not taken

Init ==
    /\ stack = [providers |-> <<>>, use_locals |-> FALSE,
                locals_last |-> [l \in Locals |-> None], entries |-> <<>>, next_free |-> None,
                amounts |-> <<>>, free |-> <<>>, removed_preserved |-> {},
                next_dynamic |-> NLocals, max_dynamic |-> NLocals,
                min_preserve |-> INITIAL_PRESERVATION_INDEX, error |-> FALSE]
    /\ enc = [words |-> <<>>, last |-> None, notified |-> None]
    /\ frame = NoFrame
    /\ wasm = [stack |-> <<>>, locals |-> [l \in Locals |-> InitialValue(l)], ops |-> 0]
    /\ phase = "alloc"

-----------------------------------------------------------------------------
(* LocalRefs: for each local the entries of its references, newest first, in   *)
(* one vector whose vacant entries form a list of their own.                   *)

Occupied(slot, prev) == [occupied |-> TRUE, slot |-> slot, link |-> prev]
Vacant(next) == [occupied |-> FALSE, slot |-> 0, link |-> next]

\* Mutant: the entry does not remember the one before.
push_at_unlinked(s, l, slot) ==
    LET index == IF s.next_free # None THEN s.next_free ELSE Len(s.entries) + 1
    IN [s EXCEPT !.locals_last[l] = index,
                 !.entries = IF index \in DOMAIN @ THEN [@ EXCEPT ![index] = Occupied(slot, None)]
                             ELSE Append(@, Occupied(slot, None)),
                 !.next_free = IF @ = None THEN None ELSE s.entries[@].link]

push_at(s, l, slot) ==
    LET index == IF s.next_free # None THEN s.next_free ELSE Len(s.entries) + 1
        entry == Occupied(slot, s.locals_last[l])
    IN [s EXCEPT !.locals_last[l] = index,
                 !.entries = IF index \in DOMAIN @ THEN [@ EXCEPT ![index] = entry]
                             ELSE Append(@, entry),
                 !.next_free = IF @ = None THEN None ELSE s.entries[@].link]

remove_entry(s, index) ==
    [s EXCEPT !.entries[index] = Vacant(s.next_free), !.next_free = index]
reset_if_empty(s) ==
    IF \A l \in Locals : s.locals_last[l] = None
    THEN [s EXCEPT !.entries = <<>>, !.next_free = None] ELSE s
pop_at(s, l) ==
    LET index == s.locals_last[l]
    IN reset_if_empty([remove_entry(s, index) EXCEPT !.locals_last[l] = s.entries[index].link])

\* The entries of a list.
ChainOf(s, l) ==
    LET chain[i \in 0 .. Len(s.entries)] ==
            IF i = None THEN <<>> ELSE <<i>> \o chain[s.entries[i].link]
    IN chain[s.locals_last[l]]
SlotsOf(s, l) == [i \in DOMAIN ChainOf(s, l) |-> s.entries[ChainOf(s, l)[i]].slot]
drain_at(s, l) ==
    IF s.locals_last[l] = None THEN s
    ELSE reset_if_empty(FoldLeft(remove_entry, [s EXCEPT !.locals_last[l] = None], ChainOf(s, l)))

-----------------------------------------------------------------------------
(* RegisterAlloc: dynamic registers grow up, preserved ones down.  A preserved *)
(* register is a slot of a stash with a count, one more than its uses, so that *)
(* it outlives its last use until the next collection.                         *)

key2reg(key) == INITIAL_PRESERVATION_INDEX - (key - 1)
reg2key(r) == INITIAL_PRESERVATION_INDEX - r + 1

\* MultiStash::put takes the slot that was vacated last.
NextKey(s) == IF s.free # <<>> THEN Head(s.free) ELSE Len(s.amounts) + 1
Put(s, key, amount) ==
    [s EXCEPT !.amounts = IF key \in DOMAIN @ THEN [@ EXCEPT ![key] = amount] ELSE Append(@, amount),
              !.free = IF @ # <<>> THEN Tail(@) ELSE @]

Smaller(a, b) == IF a < b THEN a ELSE b
Larger(a, b) == IF a > b THEN a ELSE b

push_dynamic(s) ==
    IF s.next_dynamic = s.min_preserve THEN [s EXCEPT !.error = TRUE]
    ELSE [s EXCEPT !.providers = Append(@, [k |-> "dynamic", r |-> s.next_dynamic]),
                   !.next_dynamic = @ + 1,
                   !.max_dynamic = Larger(@, s.next_dynamic + 1)]

update_min_preserved(s, r) ==
    LET min == Smaller(s.min_preserve, r)
    IN [s EXCEPT !.min_preserve = min, !.error = @ \/ s.next_dynamic = min]

\* One slot for all the uses of a local.
push_preserved(s, uses) ==
    LET key == NextKey(s)
    IN update_min_preserved(Put([s EXCEPT !.removed_preserved = {}], key, 1 + uses), key2reg(key) - 1)

gc_preservations(s) ==
    FoldLeft(LAMBDA acc, key : IF acc.amounts[key] # 1 THEN acc
                               ELSE [acc EXCEPT !.amounts[key] = 0, !.free = <<key>> \o @],
             s, SetToSortSeq(s.removed_preserved, <))

pop_preserved(s, r) ==
    [s EXCEPT !.amounts[reg2key(r)] = @ - 1, !.removed_preserved = @ \cup {reg2key(r)}]

register_space(s, r) == IF r < NLocals THEN "local"
                        ELSE IF s.min_preserve < r THEN "preserve" ELSE "dynamic"

-----------------------------------------------------------------------------
(* ProviderStack *)

Typed(p) == IF p.k = "const" THEN p ELSE Reg(p.r)
Push(s, p) ==
    LET pushed == [s EXCEPT !.providers = Append(@, p)]
    IN IF p.k = "local" /\ s.use_locals THEN push_at(pushed, p.r, Len(s.providers)) ELSE pushed
push_local(s, l) == Push(s, [k |-> "local", r |-> l])
push_const(s, v) == Push(s, [k |-> "const", ty |-> "i32", v |-> v])

peek(s) == Typed(Last(s.providers))
pop(s) ==
    LET p == Last(s.providers)
        popped == [s EXCEPT !.providers = Front(@)]
    IN CASE p.k = "local" -> IF s.use_locals THEN pop_at(popped, p.r) ELSE popped
         [] p.k = "dynamic" -> [popped EXCEPT !.next_dynamic = @ - 1]
         [] p.k = "preserved" -> pop_preserved(popped, p.r)
         [] p.k = "const" -> popped

HasLocals(s) == \E i \in DOMAIN s.providers : s.providers[i].k = "local"
Uses(s, l) == {i \in DOMAIN s.providers : s.providers[i] = [k |-> "local", r |-> l]}

\* From a stack of this height on, the references are kept in LocalRefs.
sync_local_refs(s) ==
    IF s.use_locals \/ Len(s.providers) < PRESERVE_THRESHOLD THEN s
    ELSE FoldLeft(LAMBDA acc, i : IF s.providers[i].k = "local"
                                  THEN push_at(acc, s.providers[i].r, i - 1) ELSE acc,
                  [s EXCEPT !.use_locals = TRUE], [i \in DOMAIN s.providers |-> i])

\* The uses of a local, found on the stack or in LocalRefs, become uses of one
\* preserved register.
preserve_local(s, l) ==
    LET uses == IF s.use_locals THEN {slot + 1 : slot \in Range(SlotsOf(s, l))} ELSE Uses(s, l)
        r    == key2reg(NextKey(s))
        kept == IF s.use_locals THEN drain_at(s, l) ELSE s
    IN IF uses = {} THEN [stack |-> s, preserved |-> NoReg]
       ELSE [stack |-> [push_preserved(kept, Cardinality(uses)) EXCEPT
                          !.providers = [i \in DOMAIN @ |-> IF i \in uses
                                                            THEN [k |-> "preserved", r |-> r]
                                                            ELSE @[i]]],
             preserved |-> r]
preserve_locals(s, l) ==
    IF ~HasLocals(s) THEN [stack |-> s, preserved |-> NoReg]
    ELSE preserve_local(sync_local_refs(s), l)

\* All locals: from the top of the stack down, or by register from LocalRefs.
Order(s) ==
    IF s.use_locals THEN SetToSortSeq({l \in Locals : s.locals_last[l] # None}, <)
    ELSE SetToSortSeq({l \in Locals : Uses(s, l) # {}}, LAMBDA a, b : Max(Uses(s, a)) > Max(Uses(s, b)))
preserve_all_locals(s) ==
    IF ~HasLocals(s) THEN [stack |-> s, preserved |-> <<>>]
    ELSE LET synced == sync_local_refs(s)
         IN FoldLeft(LAMBDA acc, l :
                        LET one == preserve_local(acc.stack, l)
                        IN [stack |-> one.stack,
                            preserved |-> Append(acc.preserved, [local |-> l, preserved |-> one.preserved])],
                     [stack |-> synced, preserved |-> <<>>], Order(synced))

-----------------------------------------------------------------------------
(* InstrEncoder *)

notify_preserved_register(e, pos) == IF e.notified = None THEN [e EXCEPT !.notified = pos] ELSE e
reset_last_instr(e) == [e EXCEPT !.last = None]

\* The registers of a word that defragmentation renames and that a preserving
\* copy before the word must not overwrite: the inputs, and the results of copies.
visit_input_registers(w) ==
    (IF "values" \in DOMAIN w THEN Range(w.values) ELSE {})
    \cup (IF "regs" \in DOMAIN w THEN Range(w.regs) ELSE {})
    \cup (IF w.opcode \in copies THEN {Reg(w.result)} ELSE {})

CopyToLocal(e, l, value, preserved) ==
    LET kept == push_instr(e, Copy("reg", preserved, <<Reg(l)>>))
    IN encode_copy(IF preserved = NoReg THEN e ELSE notify_preserved_register(kept, kept.last), l, value)
relink_result(w, new, old) ==
    IF w.opcode[1] # "copy" /\ "result" \in DOMAIN w /\ w.result = old THEN [w EXCEPT !.result = new] ELSE w

\* The preserving copy, if there is one, goes before the instruction whose
\* result becomes the local.
ResultToLocal(e, l, value, preserved) ==
    LET relinked == [e EXCEPT !.words[e.last] = relink_result(@, l, value.r)]
    IN IF preserved = NoReg THEN relinked
       ELSE notify_preserved_register(
              [relinked EXCEPT !.words = InsertAt(@, e.last, Copy("reg", preserved, <<Reg(l)>>)),
                               !.last = @ + 1],
              e.last)

CanRelink(s, e, l, value) ==
    /\ IsReg(value)
    /\ register_space(s, value.r) \notin {"local", "preserve"}
    /\ e.last # None
    /\ relink_result(e.words[e.last], l, value.r) # e.words[e.last]

\* Mutant: the preserved register may be an input of the instruction.
encode_local_set_unchecked(s, e, l, value, preserved) ==
    IF CanRelink(s, e, l, value) THEN ResultToLocal(e, l, value, preserved)
    ELSE CopyToLocal(e, l, value, preserved)

\* Not if the instruction is long or reads the register that is written before it.
encode_local_set(s, e, l, value, preserved) ==
    IF /\ CanRelink(s, e, l, value)
       /\ preserved # NoReg =>
            /\ Len(e.words) + 1 - e.last < 4
            /\ \A i \in e.last .. Len(e.words) :
                  Reg(preserved) \notin visit_input_registers(e.words[i])
    THEN ResultToLocal(e, l, value, preserved)
    ELSE CopyToLocal(e, l, value, preserved)

-----------------------------------------------------------------------------
(* Operators *)

Op(a, b) == 3 * a + 5 * b + 1
GlobalValue == 9
global_get == <<"global", "get">>
Top(w, n) == w.stack[Len(w.stack) - n]
Less(w, n) == SubSeq(w.stack, 1, Len(w.stack) - n)

\* What an operator does to the Wasm function.
WasmStep(w, op) ==
    CASE op[1] = "get" -> [w EXCEPT !.stack = Append(@, w.locals[op[2]])]
      [] op[1] \in {"const", "global"} -> [w EXCEPT !.stack = Append(@, op[2])]
      [] op[1] = "binary" -> [w EXCEPT !.stack = Append(Less(w, 2), Op(Top(w, 1), Top(w, 0)))]
      [] op[1] = "drop" -> [w EXCEPT !.stack = Less(w, 1)]
      [] op[1] = "set" -> [w EXCEPT !.stack = Less(w, 1), !.locals[op[2]] = Top(w, 0)]
      [] op[1] = "tee" -> [w EXCEPT !.locals[op[2]] = Top(w, 0)]
Counted(w) == [w EXCEPT !.ops = @ + 1]

\* An operator inside a block leaves the values below the block alone.
Has(pops) == phase = "alloc" /\ Len(stack.providers) >= frame.height + pops
Enabled(pops) == Has(pops) /\ wasm.ops < MaxOps
Translated(s, e) ==
    /\ stack' = s /\ enc' = IF s.error THEN enc ELSE e
    /\ phase' = IF s.error THEN "error" ELSE phase
Operator(op, s, e) ==
    /\ Translated(s, e)
    /\ wasm' = IF op[1] = "drop" THEN WasmStep(wasm, op) ELSE Counted(WasmStep(wasm, op))
    /\ frame' = IF frame.kind = "loop" THEN [frame EXCEPT !.body = Append(@, op)] ELSE frame

visit_local_get(l) == Enabled(0) /\ Operator(<<"get", l>>, push_local(stack, l), enc)
visit_i32_const == Enabled(0) /\ Operator(<<"const", 7>>, push_const(stack, 7), enc)
visit_drop == Has(1) /\ Operator(<<"drop", 0>>, pop(stack), enc)
visit_global_get ==
    /\ Enabled(0)
    /\ Operator(<<"global", GlobalValue>>, push_dynamic(stack),
                push_instr(enc, [opcode |-> global_get, result |-> stack.next_dynamic]))
translate_binary ==
    /\ Enabled(2)
    /\ LET rhs == peek(stack)
           lhs == peek(pop(stack))
           s   == pop(pop(stack))
       IN IF ~IsReg(lhs) /\ ~IsReg(rhs)
          THEN Operator(<<"binary", 0>>, push_const(s, Op(lhs.v, rhs.v)), enc)
          ELSE Operator(<<"binary", 0>>, push_dynamic(s),
                        push_instr(enc, [opcode |-> <<"i32", "binary">>, result |-> s.next_dynamic,
                                         values |-> Regs(<<lhs, rhs>>)]))

\* local.set of the local's own value changes nothing.
LocalSet(l) ==
    LET collected == gc_preservations(stack)
        value == peek(collected)
        kept  == preserve_locals(pop(collected), l)
    IN IF value = Reg(l) THEN [stack |-> pop(collected), enc |-> enc]
       ELSE [stack |-> kept.stack, enc |-> encode_local_set(kept.stack, enc, l, value, kept.preserved)]
visit_local_set(l) == Enabled(1) /\ LET set == LocalSet(l) IN Operator(<<"set", l>>, set.stack, set.enc)
visit_local_tee(l) ==
    /\ Enabled(1)
    /\ LET set == LocalSet(l)  input == peek(stack)
       IN Operator(<<"tee", l>>,
                   IF IsReg(input) THEN push_local(set.stack, l) ELSE push_const(set.stack, input.v),
                   set.enc)

\* On entry of a block all locals on the stack are preserved; neighbours among
\* the preserved registers are written by one copy.
CopyGroups(preserved) ==
    FoldLeft(LAMBDA groups, p :
               IF groups # <<>> /\ p.preserved - Last(Last(groups)).preserved = 1
               THEN Append(Front(groups), Append(Last(groups), p)) ELSE Append(groups, <<p>>),
             <<>>, Reverse(preserved))
CopyGroup(e, group) ==
    LET copied == encode_copies(e, group[1].preserved,
                                [i \in DOMAIN group |-> Reg(group[i].local)])
    IN notify_preserved_register(copied, copied.last)
PreserveLocals(s) ==
    LET kept == preserve_all_locals(s)
    IN [stack |-> kept.stack, enc |-> FoldLeft(CopyGroup, enc, CopyGroups(kept.preserved))]

NewFrame(kind, s, e, taken) ==
    [kind |-> kind, height |-> Len(s.providers), start |-> Len(e.words) + 1, body |-> <<>>,
     before |-> wasm, taken |-> taken]
Entered(kind, s, e, w, taken) ==
    /\ frame.kind = "none"
    /\ Translated(s, e)
    /\ frame' = [NewFrame(kind, s, e, taken) EXCEPT !.before = w]
    /\ wasm' = Counted(w)

\* Mutant: a loop is entered like a block that is only executed once.
visit_loop_unpreserved ==
    Enabled(0) /\ Entered("loop", stack, reset_last_instr(enc), wasm, TRUE)

visit_block ==
    Enabled(0) /\ LET kept == PreserveLocals(stack) IN Entered("block", kept.stack, kept.enc, wasm, TRUE)
visit_loop ==
    /\ Enabled(0)
    /\ LET kept == PreserveLocals(stack)
       IN Entered("loop", kept.stack, reset_last_instr(kept.enc), wasm, TRUE)

\* With a condition that is not constant.
visit_if ==
    /\ Enabled(1) /\ IsReg(peek(stack))
    /\ LET condition == peek(stack)
           kept == PreserveLocals(pop(stack))
           branched == push_instr(kept.enc, [opcode |-> <<"branch", "eqz">>, values |-> <<condition>>,
                                             to |-> None])
       IN Entered("if", kept.stack, branched, [wasm EXCEPT !.stack = Less(wasm, 1)], Top(wasm, 0) # 0)

\* A br_if to the loop, on a condition from outside, that is taken once.
visit_br_if_loop ==
    /\ Enabled(0) /\ frame.kind = "loop" /\ Len(stack.providers) = frame.height
    /\ Translated(stack, push_instr(enc, [opcode |-> <<"branch", "again">>, to |-> frame.start]))
    /\ wasm' = Counted(FoldLeft(WasmStep, wasm, frame.body))
    /\ frame' = [frame EXCEPT !.kind = "loop_left"]

\* The else label of an if is pinned here; a body that was not executed has
\* changed nothing.
visit_end ==
    /\ Has(0) /\ frame.kind # "none" /\ Len(stack.providers) = frame.height
    /\ Translated(stack, reset_last_instr(
                    IF frame.kind = "if" THEN [enc EXCEPT !.words[frame.start - 1].to = Len(enc.words) + 1]
                    ELSE enc))
    /\ wasm' = IF frame.taken THEN wasm ELSE [frame.before EXCEPT !.ops = wasm.ops]
    /\ frame' = NoFrame

-----------------------------------------------------------------------------
(* The end of the function: a return of what is on the stack, and preserved    *)
(* registers moved down to follow the dynamic ones.                            *)

\* Mutant: one register too far.
finalize_alloc_short(s) == s.min_preserve - s.max_dynamic

finalize_alloc(s) == s.min_preserve - s.max_dynamic + 1
defrag_register(s, r) == IF s.min_preserve < r THEN r - finalize_alloc(s) ELSE r
len_registers(s) ==
    INITIAL_PRESERVATION_INDEX - (IF s.max_dynamic < s.min_preserve THEN s.min_preserve - s.max_dynamic
                                  ELSE s.max_dynamic - s.min_preserve)

DefragAll(s, ps) == [i \in DOMAIN ps |-> IF IsReg(ps[i]) THEN Reg(defrag_register(s, ps[i].r)) ELSE ps[i]]
DefragWord(s, w) ==
    [f \in DOMAIN w |-> IF f \in {"values", "regs"} THEN DefragAll(s, w[f])
                        ELSE IF f = "result" /\ w.opcode \in copies THEN defrag_register(s, w.result)
                        ELSE w[f]]
defrag_registers(s, e) ==
    IF e.notified = None THEN e
    ELSE [e EXCEPT !.words = [i \in DOMAIN @ |-> IF i < e.notified THEN @[i] ELSE DefragWord(s, @[i])]]

finish ==
    /\ phase = "alloc" /\ frame.kind = "none"
    /\ LET values == [i \in DOMAIN stack.providers |-> Typed(stack.providers[i])]
           returning == push_instr(enc, [opcode |-> <<"return", "values">>, values |-> Regs(values)])
       IN enc' = defrag_registers(stack, returning)
    /\ phase' = "defrag"
    /\ UNCHANGED <<stack, frame, wasm>>

Done == phase \in {"defrag", "error"} /\ UNCHANGED vars

Next == \/ \E l \in Locals : visit_local_get(l) \/ visit_local_set(l) \/ visit_local_tee(l)
        \/ visit_i32_const \/ visit_drop \/ visit_global_get \/ translate_binary
        \/ visit_block \/ visit_loop \/ visit_if \/ visit_br_if_loop \/ visit_end
        \/ finish \/ Done

Spec == Init /\ [][Next]_vars

-----------------------------------------------------------------------------
(* Execution of the words emitted so far.  Copies of several registers behave  *)
(* as if at once: see SameTransfer of ValueTransfer.                           *)

ListAt(words, first) ==
    LET end == CHOOSE n \in first .. Len(words) :
                  /\ words[n].opcode # Param("register_list")
                  /\ \A m \in first .. n - 1 : words[m].opcode = Param("register_list")
    IN FlattenSeq([i \in 1 .. end - first + 1 |-> words[first + i - 1].regs])
Value(regs, p) == IF IsReg(p) THEN regs[p.r] ELSE p.v
Unset == -1

Step(words, m) ==
    IF m.ip > Len(words) THEN m
    ELSE LET w == words[m.ip]
             Branch(taken) ==
                [m EXCEPT !.ip = IF ~taken THEN @ + 1 ELSE IF w.to = None THEN Len(words) + 1 ELSE w.to]
         IN CASE w.opcode[1] = "param" -> [m EXCEPT !.ip = @ + 1]
              [] w.opcode[1] = "copy" ->
                   LET ps == IF w.opcode[2] \in {"imm32"} THEN <<[k |-> "const_reg", v |-> w.imm]>>
                             ELSE IF w.opcode[2] \in {"many", "many_non_overlapping"}
                             THEN w.values \o ListAt(words, m.ip + 1) ELSE w.values
                   IN [m EXCEPT !.ip = @ + 1,
                                !.regs = [r \in DOMAIN @ |-> IF r - w.result + 1 \in DOMAIN ps
                                                             THEN Value(@, ps[r - w.result + 1]) ELSE @[r]]]
              [] w.opcode[1] = "i32" ->
                   [m EXCEPT !.ip = @ + 1,
                             !.regs[w.result] = Op(Value(m.regs, w.values[1]), Value(m.regs, w.values[2]))]
              [] w.opcode = global_get -> [m EXCEPT !.ip = @ + 1, !.regs[w.result] = GlobalValue]
              [] w.opcode = <<"branch", "eqz">> -> Branch(Value(m.regs, w.values[1]) = 0)
              [] w.opcode = <<"branch", "again">> -> [Branch(m.again) EXCEPT !.again = FALSE]
              [] w.opcode[1] = "return" ->
                   [m EXCEPT !.ip = Len(words) + 1,
                             !.out = [i \in DOMAIN w.values |-> Value(m.regs, w.values[i])]]
Execute(words) ==
    LET start == [ip |-> 1, again |-> TRUE, out |-> <<>>,
                  regs |-> [r \in 0 .. INITIAL_PRESERVATION_INDEX |->
                              IF r \in Locals THEN InitialValue(r) ELSE Unset]]
        run[n \in 0 .. 2 * Len(words)] == IF n = 0 THEN start ELSE Step(words, run[n - 1])
    IN run[2 * Len(words)]

-----------------------------------------------------------------------------

\* Wherever translation stands, the code emitted so far gives each local and
\* each provider on the value stack the value Wasm gives it: no preserved
\* register was reused, moved past a write or left unwritten on some path.
StackValues ==
    (phase = "alloc" /\ frame.taken) =>
        LET regs == Execute(enc.words).regs
        IN /\ \A l \in Locals : regs[l] = wasm.locals[l]
           /\ [i \in DOMAIN stack.providers |-> Value(regs, Typed(stack.providers[i]))] = wasm.stack

\* The finished function returns the values of Wasm after its preserved registers
\* were renamed, and uses no register beyond the frame it asks for.
DefragValues ==
    phase = "defrag" =>
        /\ \A i \in DOMAIN enc.words :
              \A p \in visit_input_registers(enc.words[i]) : IsReg(p) => p.r < len_registers(stack)
        /\ Execute(enc.words).out = wasm.stack

\* Once references to locals are kept in LocalRefs, its lists name exactly the
\* places on the stack that refer to each local, newest first.
RefsInSync ==
    stack.use_locals =>
        \A l \in Locals :
            SlotsOf(stack, l) = SetToSortSeq({i - 1 : i \in Uses(stack, l)}, >)

\* A preserved register that nothing refers to any more is vacant or waits for
\* the next collection (register_alloc.rs, removed_preserved).
UnusedCollected ==
    \A key \in DOMAIN stack.amounts : stack.amounts[key] = 1 => key \in stack.removed_preserved

\* Dynamic and preserved registers do not meet (register_alloc.rs, RegisterAlloc).
SpacesApart == phase # "error" => stack.max_dynamic <= stack.min_preserve + 1
=============================================================================

------------------------------ MODULE Executor ------------------------------
(***************************************************************************)
(* One Wasmi executor: the call stack, the value stack and the pointers    *)
(* into both that `Executor` keeps (crates/wasmi/src/engine/executor).     *)
(* Every instruction is one action; the value of a register is left out,   *)
(* where registers live and which instruction runs next are kept.          *)
(*                                                                         *)
(* An action takes `out`, what execute_instr hands back: the signal, the   *)
(* function `call_idx` names (Null for -1) and the flag `is_pop_frame`.    *)
(* The engine's loop (EngineExecutor) looks at the signal only, the        *)
(* debugger (DebugSession) at all three.                                   *)
(***************************************************************************)
EXTENDS Integers, Sequences, SequencesExt

CONSTANTS
    Funcs,          \* Wasm functions
    Hosts,          \* host functions
    Null,           \* a null table entry; "no function"
    NoInstance,     \* None where the code has an Option<Instance>
    InstanceOf,     \* the instance of every Wasm function
    Code,           \* the instruction words of every Wasm function
    Regs,           \* CompiledFuncRef::len_registers
    InOut,          \* max(len_params, len_results) of every host function
    Uncompilable,   \* functions CodeMap::get may refuse
    Succeeds,       \* host functions that may return
    Fails,          \* host functions that may return an error
    Grows,          \* host functions that may grow the memory
    HookFails,      \* the store has a call hook that may return an error
    RecursionLimit, \* StackLimits::maximum_recursion_depth
    MinHeight,      \* StackLimits::initial_value_stack_height
    MaxHeight,      \* StackLimits::maximum_value_stack_height
    MaxPages        \* bound: pages of the memory the instances share

Callees == Funcs \cup Hosts \cup {Null}
CallOps == {"call", "call_imported", "call_indirect"}
ReturnOps == {"return", "return_nez"}

\* An instruction word.  "plain" is every instruction that only moves ip: `to`
\* holds the words that may come next.  `words` counts the parameter words
\* that follow (registers, table index), each of them an entry of op "word".
Instruction ==
    [op : {"plain", "memory_grow", "word"} \cup CallOps \cup ReturnOps,
     to : SUBSET (Nat \ {0}), words : Nat,
     callees : SUBSET Callees, tail : BOOLEAN, traps : BOOLEAN]

\* The words of f from which execution can go on.
Executable(f) == {pc \in DOMAIN Code[f] : Code[f][pc].op # "word"}

\* What Wasm validation and the translator guarantee of a body.
WellFormed(f) ==
    /\ 1 \in Executable(f)
    /\ \A pc \in Executable(f) :
        LET i == Code[f][pc] IN
        /\ i.op = "plain" => i.to \subseteq Executable(f)
        /\ i.op \in {"memory_grow", "return_nez"} \cup (IF i.tail THEN {} ELSE CallOps)
            => pc + 1 + i.words \in Executable(f)
        /\ i.op = "call" =>
            i.callees \subseteq {g \in Funcs : InstanceOf[g] = InstanceOf[f]}
        /\ i.op = "call_imported" => Null \notin i.callees

ASSUME ExecutorAssumption ==
    /\ Null \notin Funcs \cup Hosts
    /\ Funcs \cap Hosts = {}
    /\ NoInstance \notin {InstanceOf[f] : f \in Funcs}
    /\ DOMAIN InstanceOf = Funcs
    /\ Code \in [Funcs -> Seq(Instruction)]
    /\ \A f \in Funcs : WellFormed(f)
    /\ Regs \in [Funcs -> Nat]
    /\ InOut \in [Hosts -> Nat]
    /\ HookFails \in BOOLEAN
    /\ RecursionLimit \in Nat \ {0}
    /\ MinHeight \in Nat \ {0}
    /\ MaxHeight \in Nat /\ MinHeight <= MaxHeight
    /\ MaxPages \in Nat

VARIABLES
    frames,     \* CallStack.frames
    instances,  \* CallStack.instances
    height,     \* ValueStack.values.len()
    cap,        \* ValueStack.values.capacity(): changes when the buffer moves
    ip,         \* Executor.ip
    sp,         \* Executor.sp: the frame offset and the buffer it points into
    cache,      \* Executor.cache: the instance and the memory view it holds
    pages       \* size of memory 0, which all the instances share

execVars == <<frames, instances, height, cap, ip, sp, cache, pages>>

Instr == Code[ip.func][ip.pc]
At(n) == [ip EXCEPT !.pc = @ + n]
Entry(f) == [func |-> f, pc |-> 1]
Cached(inst, size) == [inst |-> inst, pages |-> size]

-----------------------------------------------------------------------------
(* What an instruction reports.                                            *)

Done(sig) == [sig |-> sig, call |-> Null, pop |-> FALSE]
Returned(sig) == [sig |-> sig, call |-> Null, pop |-> TRUE]

\* CallInternal* and CallIndirect* set call_idx, before and after the call
\* respectively; CallImported* and the tail calls never do.
Called(f) ==
    [sig |-> "Next", pop |-> FALSE,
     call |-> IF Instr.op # "call_imported" /\ ~Instr.tail THEN f ELSE Null]

\* Everything the instruction at ip can report.
Outcome ==
    {Done(sig) : sig \in {"Next", "Err", "HostErr"}}
        \cup {Returned(sig) : sig \in {"Next", "End"}}
        \cup {Called(f) : f \in Instr.callees}

-----------------------------------------------------------------------------
(* The value stack.                                                        *)

\* Mutant: the last cell may be used.
fits_exactly(h, n) == n <= MaxHeight - h

\* ValueStack::extend_by refuses to fill the last cell.
FitsAt(h, n) == n < MaxHeight - h
Fits(n) == FitsAt(height, n)

\* Vec::reserve on a buffer of capacity c that holds h cells: the capacity
\* doubles, or becomes what is needed.
ReservedAt(h, c, n) ==
    IF h + n <= c THEN c ELSE IF h + n <= 2 * c THEN 2 * c ELSE h + n
Reserved(n) == ReservedAt(height, cap, n)

\* A root function reserves the cells of its l results, then its r registers.
RootReserved(h, c, l, r) == ReservedAt(h + l, ReservedAt(h, c, l), r)

-----------------------------------------------------------------------------
(* The call stack.                                                         *)

\* Mutant: the instance stays when the frame that brought it goes.
pop_frame_only == instances

\* CallStack::pop.
InstancesAfterPop ==
    IF Last(frames).changed THEN Front(instances) ELSE instances

\* CallStack::push onto the stacks fs and insts; the callers check the limit.
push(fs, insts, f, off, inst) ==
    LET changed == /\ inst # NoInstance
                   /\ insts # <<>> => inst # Last(insts)
    IN  /\ frames' = Append(fs, [func |-> f, ip |-> Entry(f),
                                 off |-> off, changed |-> changed])
        /\ instances' = IF changed THEN Append(insts, inst) ELSE insts

\* init_call_frame for a frame of f at off.
init_call_frame(f, off) ==
    /\ ip' = Entry(f)
    /\ sp' = [off |-> off, cap |-> cap']

-----------------------------------------------------------------------------
(* Instructions that stay in their frame.                                  *)

execute_plain(out) ==
    /\ Instr.op = "plain"
    /\ \E pc \in Instr.to : ip' = [ip EXCEPT !.pc = pc]
    /\ out = Done("Next")
    /\ UNCHANGED <<frames, instances, height, cap, sp, cache, pages>>

\* Instruction::Trap, and the fallible instructions: `?` leaves ip on them.
execute_trap(out) ==
    /\ Instr.op \in {"plain", "memory_grow"}
    /\ Instr.traps
    /\ out = Done("Err")
    /\ UNCHANGED execVars

\* Growing by 0 pages and an InvalidGrow leave memory and cache alone.
execute_memory_grow(out) ==
    /\ Instr.op = "memory_grow"
    /\ \/ /\ pages < MaxPages
          /\ pages' = pages + 1
          /\ cache' = [cache EXCEPT !.pages = pages']
       \/ UNCHANGED <<pages, cache>>
    /\ ip' = At(1 + Instr.words)
    /\ out = Done("Next")
    /\ UNCHANGED <<frames, instances, height, cap, sp>>

-----------------------------------------------------------------------------
(* Calls.                                                                  *)

\* pull_call_indirect_params moves ip onto the table word before any check.
Resolved == IF Instr.op = "call_indirect" THEN At(1) ELSE ip

\* The Option<Instance> a call passes on, and the cache after it.
InstanceArg(f) == IF Instr.op = "call" THEN NoInstance ELSE InstanceOf[f]
CacheAfterCall(f) ==
    IF Instr.op = "call" THEN cache ELSE Cached(InstanceOf[f], pages)

\* A call that fails before it touches a stack: a null entry, an index out of
\* bounds or a wrong signature; CodeMap::get; the value stack; the call hook.
call_refused(out) ==
    /\ Instr.op \in CallOps
    /\ \/ Null \in Instr.callees
       \/ Instr.callees \cap Uncompilable # {}
       \/ \E f \in Instr.callees \cap Funcs : ~Fits(Regs[f])
       \/ \E h \in Instr.callees \cap Hosts :
             HookFails \/ (~Instr.tail /\ ~Fits(InOut[h]))
    /\ ip' = Resolved
    /\ out = Done("Err")
    /\ UNCHANGED <<frames, instances, height, cap, sp, cache, pages>>

\* prepare_compiled_func_call, CallKind::Nested: the caller's return address is
\* written, the executor moves into the callee, and only then is the frame
\* pushed -- which fails at the recursion limit.
Nested(f) ==
    /\ Instr.op \in CallOps /\ ~Instr.tail
    /\ f \in Instr.callees \cap Funcs
    /\ Fits(Regs[f])
    /\ height' = height + Regs[f]
    /\ cap' = Reserved(Regs[f])
    /\ init_call_frame(f, height)
    /\ UNCHANGED pages

CallersAt(addr) == [frames EXCEPT ![Len(frames)].ip = addr]

\* Mutant: the return address ignores the parameter words.
call_returns_to_word(f, out) ==
    /\ Nested(f)
    /\ Len(frames) # RecursionLimit
    /\ push(CallersAt(At(1)), instances, f, height, InstanceArg(f))
    /\ cache' = CacheAfterCall(f)
    /\ out = Called(f)

call_compiled(f, out) ==
    /\ Nested(f)
    /\ Len(frames) # RecursionLimit
    /\ push(CallersAt(At(1 + Instr.words)), instances, f, height, InstanceArg(f))
    /\ cache' = CacheAfterCall(f)
    /\ out = Called(f)

call_overflow(f, out) ==
    /\ Nested(f)
    /\ Len(frames) = RecursionLimit
    /\ frames' = CallersAt(At(1 + Instr.words))
    /\ out = Done("Err")
    /\ UNCHANGED <<instances, cache>>

\* Mutant: the cells are drained but the frame is not moved down with them.
tail_without_move_down(f, out) ==
    LET caller == Last(frames)
        inst == IF InstanceArg(f) = NoInstance /\ caller.changed
                THEN Last(instances) ELSE InstanceArg(f)
    IN  /\ Instr.op \in CallOps /\ Instr.tail
        /\ f \in Instr.callees \cap Funcs
        /\ Fits(Regs[f])
        /\ height' = caller.off + Regs[f]
        /\ cap' = Reserved(Regs[f])
        /\ push(Front(frames), InstancesAfterPop, f, height, inst)
        /\ init_call_frame(f, height)
        /\ cache' = CacheAfterCall(f)
        /\ out = Called(f)
        /\ UNCHANGED pages

\* CallKind::Tail: merge_call_frames drains the caller's cells from under the
\* new frame and hands the instance of the caller on if it had changed it.
return_call_compiled(f, out) ==
    LET caller == Last(frames)
        inst == IF InstanceArg(f) = NoInstance /\ caller.changed
                THEN Last(instances) ELSE InstanceArg(f)
    IN  /\ Instr.op \in CallOps /\ Instr.tail
        /\ f \in Instr.callees \cap Funcs
        /\ Fits(Regs[f])
        /\ height' = caller.off + Regs[f]
        /\ cap' = Reserved(Regs[f])
        /\ push(Front(frames), InstancesAfterPop, f, caller.off, inst)
        /\ init_call_frame(f, caller.off)
        /\ cache' = CacheAfterCall(f)
        /\ out = Called(f)
        /\ UNCHANGED pages

-----------------------------------------------------------------------------
(* Host functions.                                                         *)

\* Mutant: extend_by moves the buffer and nobody tells sp.
sp_not_reseated(off) == sp' = sp

\* The on_resize callback of extend_by.
on_resize(off) ==
    sp' = IF cap' = cap THEN sp ELSE [off |-> off, cap |-> cap']

\* The host function runs on a buffer of cells that is dropped either way, may
\* grow the memory, and the cache is reloaded when it returns.
RunHost(h, inst, hostErr, out) ==
    /\ cap' = Reserved(InOut[h])
    /\ on_resize(Last(frames).off)
    /\ \/ UNCHANGED pages
       \/ h \in Grows /\ pages < MaxPages /\ pages' = pages + 1
    /\ \/ /\ h \in Succeeds
          /\ cache' = Cached(inst, pages')
          /\ \/ out = Called(h)
             \/ HookFails /\ out = Done("Err")
       \/ /\ h \in Fails
          /\ UNCHANGED cache
          /\ out = Done(hostErr)
    /\ UNCHANGED height

\* execute_host_func, CallKind::Nested.
call_host(h, out) ==
    /\ Instr.op \in CallOps /\ ~Instr.tail
    /\ h \in Instr.callees \cap Hosts
    /\ Fits(InOut[h])
    /\ frames' = CallersAt(At(1 + Instr.words))
    /\ ip' = At(1 + Instr.words)
    /\ RunHost(h, Last(instances), "HostErr", out)
    /\ UNCHANGED instances

\* CallKind::Tail: the frame is popped first, its cells stay, and ip is left on
\* the last word of the instruction.
return_call_host(h, out) ==
    /\ Instr.op \in CallOps /\ Instr.tail
    /\ h \in Instr.callees \cap Hosts
    /\ frames' = Front(frames)
    /\ instances' = InstancesAfterPop
    /\ \/ /\ Fits(InOut[h])
          /\ ip' = At(Instr.words)
          /\ RunHost(h, Last(instances),
                     IF Len(frames) = 1 THEN "Err" ELSE "HostErr", out)
       \/ /\ ~Fits(InOut[h])
          /\ ip' = Resolved
          /\ out = Done("Err")
          /\ UNCHANGED <<height, cap, sp, cache, pages>>

-----------------------------------------------------------------------------
(* Returns.                                                                *)

\* Mutant: the cache keeps the instance of the callee.
return_keeps_cache(out) ==
    /\ Instr.op \in ReturnOps
    /\ frames' = Front(frames)
    /\ instances' = InstancesAfterPop
    /\ height' = Last(frames).off
    /\ IF Len(frames) = 1
       THEN /\ ip' = (IF Instr.words = 0 THEN ip ELSE At(1))
            /\ UNCHANGED sp
            /\ out = Returned("End")
       ELSE /\ ip' = Last(Front(frames)).ip
            /\ sp' = [off |-> Last(Front(frames)).off, cap |-> cap]
            /\ out = Returned("Next")
    /\ UNCHANGED <<cap, cache, pages>>

\* return_impl.  ReturnMany has stepped onto its parameter word by then, which
\* shows when it is the root frame that returns.
execute_return(out) ==
    LET insts == InstancesAfterPop IN
    /\ Instr.op \in ReturnOps
    /\ frames' = Front(frames)
    /\ instances' = insts
    /\ height' = Last(frames).off
    /\ cache' = IF Last(frames).changed /\ insts # <<>>
                THEN Cached(Last(insts), pages) ELSE cache
    /\ IF Len(frames) = 1
       THEN /\ ip' = (IF Instr.words = 0 THEN ip ELSE At(1))
            /\ UNCHANGED sp
            /\ out = Returned("End")
       ELSE /\ ip' = Last(Front(frames)).ip
            /\ sp' = [off |-> Last(Front(frames)).off, cap |-> cap]
            /\ out = Returned("Next")
    /\ UNCHANGED <<cap, pages>>

\* ReturnNez* whose condition is zero.
return_not_taken(out) ==
    /\ Instr.op = "return_nez"
    /\ ip' = At(1 + Instr.words)
    /\ out = Returned("Next")
    /\ UNCHANGED <<frames, instances, height, cap, sp, cache, pages>>

-----------------------------------------------------------------------------

\* execute_instr.  The expect()s on an empty call stack, and the words that are
\* no instruction (unreachable_unchecked), have no step.
execute_instr(out) ==
    /\ frames # <<>>
    /\ \/ execute_plain(out)
       \/ execute_trap(out)
       \/ execute_memory_grow(out)
       \/ call_refused(out)
       \/ \E f \in Funcs : call_compiled(f, out)
       \/ \E f \in Funcs : call_overflow(f, out)
       \/ \E f \in Funcs : return_call_compiled(f, out)
       \/ \E h \in Hosts : call_host(h, out)
       \/ \E h \in Hosts : return_call_host(h, out)
       \/ execute_return(out)
       \/ return_not_taken(out)

-----------------------------------------------------------------------------
(* Stacks and pointers that agree, as the invariants of the modules that   *)
(* run an executor say it (Executor_proofs).                               *)

Inst == {InstanceOf[f] : f \in Funcs}
Place == [func : Funcs, pc : Nat]
Frame == [func : Funcs, ip : Place, off : Nat, changed : BOOLEAN]

\* Types of the two stacks and of the executor's pointers.
ExecutorTyped ==
    /\ frames \in Seq(Frame)
    /\ instances \in Seq(Inst)
    /\ height \in 0 .. MaxHeight - 1
    /\ cap \in Nat
    /\ ip \in [func : Funcs \cup {Null}, pc : Nat]
    /\ sp \in [off : Nat, cap : Nat]
    /\ cache \in [inst : Inst \cup {NoInstance}, pages : Nat]
    /\ pages \in 0 .. MaxPages

\* The frames up to number n brought idx[n] of the instances: `changed` tells
\* where the number goes up.
InstanceIndex(fs, insts, idx) ==
    /\ idx \in [0 .. Len(fs) -> 0 .. Len(insts)]
    /\ idx[0] = 0 /\ idx[Len(fs)] = Len(insts)
    /\ \A i \in 1 .. Len(fs) :
          idx[i] = IF fs[i].changed THEN idx[i - 1] + 1 ELSE idx[i - 1]
    /\ \A i, j \in 0 .. Len(fs) : i <= j => idx[i] <= idx[j]
    /\ fs # <<>> => fs[1].changed

\* The stacks fit each other, and a value stack of h cells, whatever runs.
StackShape(fs, insts, h) ==
    /\ Len(fs) <= RecursionLimit
    /\ \A i \in 1 .. Len(fs) - 1 : fs[i].off <= fs[i + 1].off
    /\ fs # <<>> => Last(fs).off <= h
    /\ \E idx \in [0 .. Len(fs) -> 0 .. Len(insts)] : InstanceIndex(fs, insts, idx)

\* A place from which the function of the frame can go on.
Addressed(fr) ==
    /\ fr.ip.func = fr.func
    /\ fr.ip.pc \in Executable(fr.func)

\* Every frame runs in the instance its function belongs to.
Coherent(fs, insts) ==
    \E idx \in [0 .. Len(fs) -> 0 .. Len(insts)] :
        /\ InstanceIndex(fs, insts, idx)
        /\ \A i \in 1 .. Len(fs) : insts[idx[i]] = InstanceOf[fs[i].func]

\* Frames with registers of their own, the first at `base`, that can go on.
StackOK(fs, insts, h, base) ==
    /\ fs # <<>> => fs[1].off = base
    /\ \A i \in 1 .. Len(fs) - 1 :
          fs[i].off + Regs[fs[i].func] <= fs[i + 1].off
    /\ fs # <<>> => Last(fs).off + Regs[Last(fs).func] <= h
    /\ \A i \in 1 .. Len(fs) : Addressed(fs[i])
    /\ Coherent(fs, insts)

\* The executor runs the newest frame, in its registers and its instance and
\* with its memory.
InOrder(base) ==
    /\ frames # <<>>
    /\ StackOK(frames, instances, height, base)
    /\ ip.func = Last(frames).func
    /\ ip.pc \in Executable(ip.func)
    /\ sp = [off |-> Last(frames).off, cap |-> cap]
    /\ cache = Cached(InstanceOf[ip.func], pages)

\* No host function that is the target of a tail call returns.  A return would
\* leave the executor in a frame that is gone.
TailHostsFail ==
    \A f \in Funcs : \A pc \in Executable(f) :
        Code[f][pc].tail => Code[f][pc].callees \cap Succeeds = {}
=============================================================================

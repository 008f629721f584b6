--------------------------- MODULE EngineExecutor ---------------------------
(***************************************************************************)
(* EngineInner::execute_func, execute_func_resumable and resume_func       *)
(* (crates/wasmi/src/engine/executor/mod.rs): one stack that is taken from *)
(* the engine's pool, runs a root function to its end, to a trap or to a   *)
(* failing host function, and is used again for the next root function.    *)
(***************************************************************************)
EXTENDS Executor

CONSTANTS
    Exports,        \* functions the embedder calls
    LenResults      \* cells reserved for the results of the root function

ASSUME EngineExecutorAssumption ==
    /\ Exports \subseteq Funcs \cup Hosts
    /\ LenResults \in Nat

VARIABLE phase      \* where the embedder's call is

vars == <<phase, frames, instances, height, cap, ip, sp, cache, pages>>

Init ==
    /\ phase = "idle"
    /\ frames = <<>>
    /\ instances = <<>>
    /\ height = 0
    /\ cap = MinHeight
    /\ ip = [func |-> Null, pc |-> 1]
    /\ sp = [off |-> 0, cap |-> MinHeight]
    /\ cache = Cached(NoInstance, 0)
    /\ pages = 0

-----------------------------------------------------------------------------

\* A stack in the pool: whatever the previous call left on it is still there.
Pooled == phase \in {"idle", "done", "error"}

\* Vec::reserve on a stack that was reset first.
ReservedFrom0(n) == ReservedAt(0, cap, n)

\* Mutant: a stack from the pool is used as it is.
root_without_reset(f) ==
    /\ Pooled
    /\ f \in Exports \cap Funcs
    /\ LenResults < MaxHeight - height
    /\ Regs[f] < MaxHeight - (height + LenResults)
    /\ Len(frames) # RecursionLimit
    /\ height' = height + LenResults + Regs[f]
    /\ cap' = RootReserved(height, cap, LenResults, Regs[f])
    /\ push(frames, instances, f, height + LenResults, InstanceOf[f])
    /\ init_call_frame(f, height + LenResults)
    /\ cache' = Cached(InstanceOf[f], pages)
    /\ phase' = "running"
    /\ UNCHANGED pages

\* execute_root_func for a Wasm function, up to the first instruction:
\* reset, room for the results, the frame, the push and Executor::new.
execute_root_func(f) ==
    /\ Pooled
    /\ f \in Exports \cap Funcs
    /\ LenResults + Regs[f] < MaxHeight
    /\ height' = LenResults + Regs[f]
    /\ cap' = RootReserved(0, cap, LenResults, Regs[f])
    /\ push(<<>>, <<>>, f, LenResults, InstanceOf[f])
    /\ init_call_frame(f, LenResults)
    /\ cache' = Cached(InstanceOf[f], pages)
    /\ \/ phase' = "running"
       \/ HookFails /\ phase' = "error"
    /\ UNCHANGED pages

\* The root function is refused: its body does not compile, or it needs more
\* cells than there are.
root_refused(f) ==
    /\ Pooled
    /\ f \in Exports
    /\ \/ /\ f \in Funcs
          /\ f \in Uncompilable \/ LenResults + Regs[f] >= MaxHeight
          /\ height' = IF LenResults < MaxHeight THEN LenResults ELSE 0
       \/ /\ f \in Hosts
          /\ InOut[f] >= MaxHeight
          /\ height' = 0
    /\ cap' = ReservedFrom0(height')
    /\ frames' = <<>>
    /\ instances' = <<>>
    /\ phase' = "error"
    /\ UNCHANGED <<ip, sp, cache, pages>>

\* execute_root_func for a host function: no frame, only the buffer.
root_host(h) ==
    /\ Pooled
    /\ h \in Exports \cap Hosts
    /\ InOut[h] < MaxHeight
    /\ frames' = <<>>
    /\ instances' = <<>>
    /\ cap' = ReservedFrom0(InOut[h])
    /\ \/ h \in Succeeds /\ height' = InOut[h] /\ phase' = "done"
       \/ h \in Fails /\ height' = 0 /\ phase' = "error"
    /\ \/ UNCHANGED pages
       \/ h \in Grows /\ pages < MaxPages /\ pages' = pages + 1
    /\ UNCHANGED <<ip, sp, cache>>

\* What the end of an instruction means for the call.  A failing host function
\* is resumable for execute_func_resumable and an error for execute_func.
after_instr(out) ==
    \/ out.sig = "Next" /\ phase' = "running"
    \/ out.sig = "End" /\ phase' = "done"
    \/ out.sig = "End" /\ HookFails /\ phase' = "error"
    \/ out.sig \in {"Err", "HostErr"} /\ phase' = "error"
    \/ out.sig = "HostErr" /\ phase' = "suspended"

\* The loop of Executor::execute.
execute ==
    /\ phase = "running"
    /\ \E out \in Outcome : execute_instr(out) /\ after_instr(out)

\* Mutant: the executor that reported the host error goes on.
resume_old_executor ==
    /\ phase = "suspended"
    /\ phase' = "running"
    /\ UNCHANGED execVars

\* resume_func: a new Executor on the frames of the invocation.  The embedder
\* may have grown the memory in between.
resume_func ==
    /\ phase = "suspended"
    /\ ip' = Last(frames).ip
    /\ sp' = [off |-> Last(frames).off, cap |-> cap]
    /\ \/ UNCHANGED pages
       \/ pages < MaxPages /\ pages' = pages + 1
    /\ cache' = Cached(Last(instances), pages')
    /\ phase' = "running"
    /\ UNCHANGED <<frames, instances, height, cap>>

\* Drop of a ResumableInvocation gives its stack back as it is.
drop_invocation ==
    /\ phase = "suspended"
    /\ phase' = "idle"
    /\ UNCHANGED execVars

Next ==
    \/ \E f \in Funcs : execute_root_func(f)
    \/ \E h \in Hosts : root_host(h)
    \/ \E f \in Funcs \cup Hosts : root_refused(f)
    \/ execute
    \/ resume_func
    \/ drop_invocation

Spec == Init /\ [][Next]_vars

-----------------------------------------------------------------------------
(* Properties.                                                             *)

\* Types of the two stacks and of the executor's pointers; the value stack
\* never reaches its maximum height and the call stack stays in its limit.
TypeOK ==
    /\ phase \in {"idle", "running", "suspended", "done", "error"}
    /\ ExecutorTyped
    /\ Len(frames) <= RecursionLimit

\* return_impl: "the executing call frame is always on the stack" -- whatever
\* runs, runs an instruction of the function of the newest frame.
ExecutingFrameOnStack ==
    phase = "running" =>
        /\ frames # <<>>
        /\ ip.func = Last(frames).func
        /\ ip.pc \in Executable(ip.func)

\* get_register: sp points at the registers of the newest frame, in the buffer
\* the value stack has now, not in one a reallocation has freed.
StackPointerValid ==
    phase = "running" => sp = [off |-> Last(frames).off, cap |-> cap]

\* No two live frames share a register, none lies beyond the value stack, and
\* the cells for the results of the root function stay clear of them all.
FramesDisjoint ==
    phase \in {"running", "suspended"} =>
        /\ frames[1].off = LenResults
        /\ \A i \in 1 .. Len(frames) - 1 :
              frames[i].off + Regs[frames[i].func] <= frames[i + 1].off
        /\ Last(frames).off + Regs[Last(frames).func] <= height

\* Every frame below the newest goes on at an instruction of its own function,
\* never at a parameter word; so does the newest one of a suspended call, and
\* resume_func finds it ("must have caller call frame on stack").
ReturnAddresses ==
    phase \in {"running", "suspended"} =>
        /\ frames # <<>>
        /\ \A i \in 1 .. Len(frames) :
            i < Len(frames) \/ phase = "suspended" =>
                /\ frames[i].ip.func = frames[i].func
                /\ frames[i].ip.pc \in Executable(frames[i].func)

\* The cached instance is the one of the function that runs and the cached view
\* is of the memory as it is now, however calls, tail calls and host functions
\* moved between instances.
CacheCurrent ==
    phase = "running" =>
        cache = Cached(InstanceOf[Last(frames).func], pages)

\* A finished call leaves nothing behind but the cells of its results.
CleanFinish ==
    phase = "done" => frames = <<>> /\ instances = <<>>

Live == phase \in {"running", "suspended"}

\* The places the frames of a live call are at: that of the newest is in the
\* executor while the call runs.
Activations ==
    IF ~Live THEN <<>>
    ELSE [i \in 1 .. Len(frames) |->
            IF i = Len(frames) /\ phase = "running" THEN ip ELSE frames[i].ip]

RunsIn == IF phase = "running" THEN cache.inst ELSE NoInstance

Calls == INSTANCE WasmCalls WITH
    Limit <- RecursionLimit, status <- phase, acts <- Activations,
    instance <- RunsIn

\* The engine implements the stack of activations of WasmCalls.
CallsImplemented == Calls!Spec
-----------------------------------------------------------------------------
(* The inductive invariant behind the properties (EngineExecutor_proofs).  *)

IInv ==
    /\ TypeOK
    /\ StackShape(frames, instances, height)
    /\ phase = "running" => InOrder(LenResults)
    /\ phase = "suspended" =>
          frames # <<>> /\ StackOK(frames, instances, height, LenResults)
    /\ phase = "done" => frames = <<>>
=============================================================================

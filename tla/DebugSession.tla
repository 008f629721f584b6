---------------------------- MODULE DebugSession ----------------------------
(***************************************************************************)
(* MainDebugger (crates/debugger/src/debugger.rs) and the commands that    *)
(* drive it (commands/process.rs, thread.rs, breakpoint.rs): a user at the *)
(* prompt launches functions, steps and continues them, and may interrupt  *)
(* a running command with Ctrl-C at any time.  The program runs on the     *)
(* Executor, one execute_step at a time.                                   *)
(***************************************************************************)
EXTENDS Executor

CONSTANTS
    LenResults,     \* number of results of every function
    File0,          \* places whose offset is in inst_in_file_0
    LineOf,         \* the source line of every place
    NoLine,         \* find_line_info found nothing
    Names,          \* names breakpoints are set on
    Matching,       \* functions whose name contains such a name
    MaxTrace        \* bound: functions on the shadow stack at a launch

ASSUME DebugSessionAssumption ==
    /\ LenResults \in [Funcs \cup Hosts -> Nat]
    /\ Matching \in [Names -> SUBSET (Funcs \cup Hosts)]
    /\ MaxTrace \in Nat

VARIABLES
    ui,             \* at the prompt, in a command, or gone
    cmd,            \* the command that runs
    result,         \* how the last command ended
    loaded,         \* WASM_STORE, WASM_STACK, WASM_ENGINE and instance are set
    exec,           \* MainDebugger.executor: none, live, or of an older store
    run_func,       \* MainDebugger.run_func
    shadow,         \* MainDebugger.invoked_func_index
    bps,            \* Breakpoints.function_map
    is_interrupted, \* the flag the SIGINT handler sets
    clean           \* history: no command has failed since the last restart

session == <<ui, cmd, result, loaded, exec, run_func, shadow, bps,
             is_interrupted, clean>>
vars == <<session, execVars>>

NoCmd == [by |-> "none", style |-> "none", first |-> FALSE,
          base |-> <<>>, line |-> NoLine]

Init ==
    /\ ui = "prompt" /\ cmd = NoCmd /\ result = "None"
    /\ loaded = FALSE /\ exec = "none" /\ run_func = Null
    /\ shadow = <<>> /\ bps = {}
    /\ is_interrupted = TRUE
    /\ clean = TRUE
    /\ frames = <<>> /\ instances = <<>>
    /\ height = 0 /\ cap = MinHeight
    /\ ip = [func |-> Null, pc |-> 1]
    /\ sp = [off |-> 0, cap |-> MinHeight]
    /\ cache = Cached(NoInstance, 0)
    /\ pages = 0

\* The executor points into memory that is no longer there.
Dangling == exec = "stale" \/ sp.cap # cap

-----------------------------------------------------------------------------
(* Commands at the prompt.                                                 *)

set_breakpoint(n) ==
    /\ ui = "prompt"
    /\ n \in Names \ bps
    /\ bps' = bps \cup {n}
    /\ UNCHANGED <<ui, cmd, result, loaded, exec, run_func, shadow,
                   is_interrupted, clean, execVars>>

\* The id counts in the order of the HashMap, which can be any.
delete_breakpoint ==
    /\ ui = "prompt"
    /\ \E n \in bps : bps' = bps \ {n}
    /\ UNCHANGED <<ui, cmd, result, loaded, exec, run_func, shadow,
                   is_interrupted, clean, execVars>>

\* signal_hook::flag.
sigint ==
    /\ ui \in {"prompt", "running"}
    /\ ~is_interrupted
    /\ is_interrupted' = TRUE
    /\ UNCHANGED <<ui, cmd, result, loaded, exec, run_func, shadow, bps, clean,
                   execVars>>

exit ==
    /\ ui = "prompt"
    /\ ui' = "exited"
    /\ UNCHANGED <<cmd, result, loaded, exec, run_func, shadow, bps,
                   is_interrupted, clean, execVars>>

-----------------------------------------------------------------------------
(* process launch.                                                         *)

\* start_debugger asks before it kills a process, and instantiates without
\* asking when there is none.
Answers == IF exec = "none" THEN {"Y"} ELSE {"Y", "n"}

\* The stacks after instantiate, or as they are.
Stacks(answer) ==
    IF answer = "Y"
    THEN [frames |-> <<>>, instances |-> <<>>, height |-> 0, cap |-> MinHeight,
          pages |-> 0]
    ELSE [frames |-> frames, instances |-> instances, height |-> height,
          cap |-> cap, pages |-> pages]

\* instantiate leaves the shadow stack and the executor alone.
ExecutorAfter(answer) ==
    IF answer = "Y" /\ exec # "none" THEN "stale" ELSE exec

failed == ui' = "prompt" /\ cmd' = NoCmd /\ result' = "Err"

\* instantiate fails: the module, an import or its start function.
instantiate_failed ==
    /\ ui = "prompt"
    /\ failed
    /\ UNCHANGED <<loaded, exec, run_func, shadow, bps, is_interrupted, clean,
                   execVars>>

\* The arguments are no numbers, the function is not found or not a Wasm
\* function, or the arguments are not its parameters.
launch_refused(answer) ==
    LET s == Stacks(answer) IN
    /\ ui = "prompt"
    /\ answer \in Answers
    /\ loaded' = TRUE
    /\ exec' = ExecutorAfter(answer)
    /\ \/ UNCHANGED <<run_func, is_interrupted>>
       \/ UNCHANGED run_func /\ is_interrupted' = TRUE
       \/ run_func' \in Funcs \cup Hosts /\ is_interrupted' = TRUE
    /\ frames' = s.frames /\ instances' = s.instances
    /\ height' = s.height /\ cap' = s.cap /\ pages' = s.pages
    /\ failed
    /\ UNCHANGED <<shadow, bps, clean, ip, sp, cache>>

\* execute_func runs out of cells or frames.  What it has reserved stays, and
\* nobody tells the old executor when the buffer moved.
launch_overflow(f, answer) ==
    LET s == Stacks(answer)
        used == s.height + LenResults[f]
    IN  /\ ui = "prompt"
        /\ answer \in Answers
        /\ \/ ~FitsAt(s.height, LenResults[f])
           \/ ~FitsAt(used, Regs[f])
           \/ Len(s.frames) = RecursionLimit
        /\ height' = IF ~FitsAt(s.height, LenResults[f]) THEN s.height
                     ELSE IF ~FitsAt(used, Regs[f]) THEN used ELSE used + Regs[f]
        /\ cap' = IF ~FitsAt(s.height, LenResults[f]) THEN s.cap
                  ELSE IF ~FitsAt(used, Regs[f])
                  THEN ReservedAt(s.height, s.cap, LenResults[f])
                  ELSE RootReserved(s.height, s.cap, LenResults[f], Regs[f])
        /\ frames' = s.frames /\ instances' = s.instances /\ pages' = s.pages
        /\ loaded' = TRUE
        /\ exec' = ExecutorAfter(answer)
        /\ run_func' = f
        /\ is_interrupted' = TRUE
        /\ failed
        /\ clean' = FALSE
        /\ UNCHANGED <<shadow, bps, ip, sp, cache>>

\* Mutant: the executor is made before the frame is pushed.
executor_before_push(f, off, size) ==
    UNCHANGED <<ip, sp>> /\ cache' = Cached(InstanceOf[f], size)

\* Executor::new on the frame that was pushed, with a memory of that size.
new_executor(f, off, size) ==
    init_call_frame(f, off) /\ cache' = Cached(InstanceOf[f], size)

\* Mutant: the root function is left out of the shadow stack.
root_not_traced(f) == shadow

\* execute_func ends with a push on the shadow stack.
RootTraced(f) == Append(shadow, f)

\* run and execute_func, up to the loop of process().
launch(f, answer) ==
    LET s == Stacks(answer)
        off == s.height + LenResults[f]
    IN  /\ ui = "prompt"
        /\ answer \in Answers
        /\ Len(shadow) < MaxTrace
        /\ Len(s.frames) # RecursionLimit
        /\ FitsAt(s.height, LenResults[f]) /\ FitsAt(off, Regs[f])
        /\ height' = off + Regs[f]
        /\ cap' = RootReserved(s.height, s.cap, LenResults[f], Regs[f])
        /\ push(s.frames, s.instances, f, off, InstanceOf[f])
        /\ new_executor(f, off, s.pages)
        /\ pages' = s.pages
        /\ loaded' = TRUE
        /\ exec' = "live"
        /\ run_func' = f
        /\ shadow' = RootTraced(f)
        /\ is_interrupted' = TRUE
        /\ clean' = IF answer = "Y" THEN TRUE ELSE clean
        /\ ui' = "running"
        /\ cmd' = [NoCmd EXCEPT !.by = "inst", !.style = "process"]
        /\ result' = "None"
        /\ UNCHANGED bps

-----------------------------------------------------------------------------
(* process continue and the thread step commands.                          *)

Styles == {"process", "in", "over", "out"}

\* The command starts its loop.
start(by, style) ==
    /\ ui = "prompt"
    /\ exec # "none"
    /\ by = "line" => style \in {"in", "over"} /\ ~Dangling
    /\ ui' = "running"
    /\ cmd' = [by |-> by, style |-> style, first |-> style # "process",
               base |-> IF style \in {"over", "out"} THEN frames ELSE <<>>,
               line |-> IF by = "line" THEN LineOf[ip.func][ip.pc] ELSE NoLine]
    /\ result' = "None"
    /\ UNCHANGED <<loaded, exec, run_func, shadow, bps, is_interrupted,
                   clean, execVars>>

\* step() and process() ask for the store before they ask for the executor;
\* next_line_info, which a line step calls first, asks for the executor.
no_context(by) ==
    /\ ui = "prompt"
    /\ exec = "none"
    /\ IF by = "inst" /\ ~loaded
       THEN ui' = "panicked" /\ UNCHANGED <<cmd, result>>
       ELSE failed
    /\ UNCHANGED <<loaded, exec, run_func, shadow, bps, is_interrupted, clean,
                   execVars>>

\* next_line_info reads the instruction the executor points at.
dangling_line ==
    /\ ui = "prompt"
    /\ exec # "none"
    /\ Dangling
    /\ ui' = "dangling"
    /\ UNCHANGED <<cmd, result, loaded, exec, run_func, shadow, bps,
                   is_interrupted, clean, execVars>>

-----------------------------------------------------------------------------
(* Executor::execute_step with MainDebugger as its Interceptor.            *)

\* should_break_func, for every name that has a breakpoint.
Broken == UNION {Matching[n] : n \in bps}

\* Mutant: the flag is never looked at.
never_interrupts == FALSE

\* execute_inst.
execute_inst == is_interrupted /\ ip \in File0

\* Mutant: a breakpoint on the callee is not reported.
ignore_signal_call(hit, out) ==
    IF out.sig = "End" THEN "End" ELSE IF hit THEN "Breakpoint" ELSE "Next"

\* Mutant: every return ends the program.
end_on_return(hit, out) ==
    IF out.pop THEN "End"
    ELSE IF hit \/ out.call \in Broken THEN "Breakpoint" ELSE "Next"

\* The match at the end of execute_step.
signal(hit, out) ==
    IF out.sig = "End" THEN "End"
    ELSE IF hit \/ out.call \in Broken THEN "Breakpoint" ELSE "Next"

\* invoke_func, then pop_frame, which does nothing on an empty stack.
ShadowAfter(out) ==
    LET called == IF out.call = Null THEN shadow ELSE Append(shadow, out.call)
    IN  IF out.pop /\ called # <<>> THEN Front(called) ELSE called

\* forward_return_dbg looks at the call stack before the return does.
execute_instr_dbg(out) ==
    IF frames = <<>>
    THEN /\ Instr.op \in ReturnOps
         /\ out = Returned("End")
         /\ UNCHANGED execVars
    ELSE execute_instr(out)

\* get_finish_result slices the value stack by the results of run_func.
get_finish_result ==
    IF LenResults[run_func] <= height'
    THEN ui' = "prompt" /\ cmd' = NoCmd /\ result' = "Finish"
    ELSE ui' = "panicked" /\ UNCHANGED <<cmd, result>>

\* Mutant: step over does not wait for the callee.
over_like_in ==
    \/ cmd.style = "process"
    \/ cmd.style = "out" /\ Len(cmd.base) <= Len(frames')

\* Mutant: step out stops in the frame it started in.
out_like_over ==
    \/ cmd.style = "process"
    \/ cmd.style \in {"over", "out"} /\ Len(cmd.base) < Len(frames')

\* The loop conditions of process() and step().
loops ==
    \/ cmd.style = "process"
    \/ cmd.style = "over" /\ Len(cmd.base) < Len(frames')
    \/ cmd.style = "out" /\ Len(cmd.base) <= Len(frames')

\* step() returned res.  A line step goes on until there is a line and it is
\* another one, whatever res is.
step_done(res) ==
    IF cmd.by = "line" /\ LineOf[ip'.func][ip'.pc] \in {NoLine, cmd.line}
    THEN /\ UNCHANGED <<ui, result>>
         /\ cmd' = [cmd EXCEPT !.first = TRUE,
                        !.base = IF cmd.style = "over" THEN frames' ELSE @]
    ELSE ui' = "prompt" /\ cmd' = NoCmd /\ result' = res

\* Step out drops the signal of its first step.
heeded(sig) == IF cmd.style = "out" /\ cmd.first THEN "Next" ELSE sig

after_step(sig) ==
    \/ sig = "End" /\ get_finish_result
    \/ sig = "Breakpoint" /\ step_done("Breakpoint")
    \/ sig = "Next" /\ ~loops /\ step_done("Next")
    \/ /\ sig = "Next" /\ loops
       /\ cmd' = [cmd EXCEPT !.first = FALSE]
       /\ UNCHANGED <<ui, result>>

\* An error leaves before invoke_func and pop_frame; the flag is consumed.
execute_step ==
    LET hit == execute_inst IN
    /\ ui = "running"
    /\ ~Dangling
    /\ ip.pc \in Executable(ip.func)
    /\ \E out \in Outcome :
        /\ execute_instr_dbg(out)
        /\ IF out.sig \in {"Err", "HostErr"}
           THEN failed /\ clean' = FALSE /\ UNCHANGED shadow
           ELSE /\ after_step(heeded(signal(hit, out)))
                /\ shadow' = ShadowAfter(out)
                /\ UNCHANGED clean
    /\ is_interrupted' = (is_interrupted /\ ~hit)
    /\ UNCHANGED <<loaded, exec, run_func, bps>>

\* A step on an executor of an older store, or on a parameter word
\* (unreachable_unchecked), has no defined outcome.
undefined_step ==
    /\ ui = "running"
    /\ \/ Dangling /\ ui' = "dangling"
       \/ ~Dangling /\ ip.pc \notin Executable(ip.func) /\ ui' = "word"
    /\ UNCHANGED <<cmd, result, loaded, exec, run_func, shadow, bps,
                   is_interrupted, clean, execVars>>

Next ==
    \/ \E n \in Names : set_breakpoint(n)
    \/ delete_breakpoint
    \/ sigint
    \/ exit
    \/ instantiate_failed
    \/ \E answer \in {"Y", "n"} :
          \/ launch_refused(answer)
          \/ \E f \in Funcs : launch(f, answer) \/ launch_overflow(f, answer)
    \/ \E style \in Styles : start("inst", style) \/ start("line", style)
    \/ \E by \in {"inst", "line"} : no_context(by)
    \/ dangling_line
    \/ execute_step
    \/ undefined_step

\* A command that runs keeps running: its loop is the only thread.
Fairness == WF_vars(execute_step) /\ WF_vars(undefined_step)

Spec == Init /\ [][Next]_vars /\ Fairness

-----------------------------------------------------------------------------
(* Properties.                                                             *)

Gone == {"exited", "panicked", "dangling", "word"}

\* Types of the debugger's state.
TypeOK ==
    /\ ui \in {"prompt", "running"} \cup Gone
    /\ cmd.style \in Styles \cup {"none"}
    /\ ui = "prompt" => cmd = NoCmd
    /\ result \in {"None", "Next", "Breakpoint", "Finish", "Err"}
    /\ loaded \in BOOLEAN
    /\ exec \in {"none", "live", "stale"}
    /\ run_func \in Callees
    /\ shadow \in Seq(Funcs \cup Hosts)
    /\ bps \subseteq Names
    /\ is_interrupted \in BOOLEAN /\ clean \in BOOLEAN
    /\ Len(frames) <= RecursionLimit
    /\ height < MaxHeight

\* thread backtrace: the shadow stack ends with the functions of the frames,
\* oldest first, above what a restart has left of the process it killed.
Backtrace ==
    IsSuffix([i \in 1 .. Len(frames) |-> frames[i].func], shadow)

\* "Finish" is shown only when the root function has returned.
FinishReturned ==
    ui = "prompt" /\ result = "Finish" => frames = <<>> /\ instances = <<>>

\* Until something fails, the executor the debugger steps is the newest frame,
\* in its registers and with its memory, whatever mix of steps, launches and
\* restarts led there; nothing undefined is executed.
Healthy ==
    clean =>
        /\ ui # "word"
        /\ exec = "live" /\ frames # <<>> =>
            /\ ip.func = Last(frames).func
            /\ ip.pc \in Executable(ip.func)
            /\ sp = [off |-> Last(frames).off, cap |-> cap]
            /\ cache = Cached(InstanceOf[ip.func], pages)

Stopped(res) == ui = "running" /\ ui' = "prompt" /\ result' = res

\* step-over ends in the activation it started in, or in its caller when that
\* activation returned; the frames below are those that were there.
StepOverStays ==
    [][Stopped("Next") /\ cmd.style = "over" =>
        \/ Len(frames') = Len(cmd.base) /\ Front(frames') = Front(cmd.base)
        \/ frames' = Front(cmd.base)]_vars

\* step-out ends in the caller of the activation it started in.
StepOutReturns ==
    [][Stopped("Next") /\ cmd.style = "out" => frames' = Front(cmd.base)]_vars

\* A call of a function with a breakpoint stops continue and the instruction
\* steps, unless it is the first instruction of a step-out.
BreakpointStops ==
    [][(/\ ui = "running" /\ cmd.by = "inst"
        /\ ~(cmd.style = "out" /\ cmd.first)
        /\ Len(frames') > Len(frames)
        /\ Last(frames').func \in Broken)
        => Stopped("Breakpoint")]_vars

\* Ctrl-C brings the prompt back from any command but a line step, unless
\* step-out takes the flag with its first instruction.
InterruptStops ==
    (/\ ui = "running" /\ is_interrupted
     /\ cmd.by = "inst" /\ ~(cmd.style = "out" /\ cmd.first)) ~> (ui # "running")

-----------------------------------------------------------------------------
(* What the repository says and the code does not do.                      *)

\* get_register: "It is the responsibility of the `Executor` implementation to
\* keep the `sp` pointer valid whenever this method is accessed."
ExecutorValid == ui # "dangling"

\* invalid_instruction_word: "Wasmi translation guarantees that branches are
\* never taken to instruction parameters directly."
NoParameterWord == ui # "word"

\* executor(): without an executor a command reports "No execution context".
ContextReported == ui # "panicked"

\* start_debugger: "There is a running process, kill it and restart?" -- a
\* process that is not killed goes on where it was stopped.
StoppedCallGoesOn ==
    [][ui = "prompt" /\ ui' = "running" /\ Len(frames') = Len(frames) + 1
        /\ frames # <<>> /\ exec = "live" /\ clean
        => frames'[Len(frames)].ip = ip]_vars

-----------------------------------------------------------------------------
(* The inductive invariants behind the properties (DebugSession_proofs).   *)

\* A command of the prompt.
CommandOK(c) ==
    /\ c \in [by : {"none", "inst", "line"}, style : Styles \cup {"none"},
              first : BOOLEAN, base : Seq(Frame), line : {c.line}]
    /\ c.by = "line" => c.style \in {"in", "over"}

\* Whatever the program: stacks that fit each other, an executor in some
\* function once there is one, no frame without it.
SessionInv ==
    /\ TypeOK
    /\ ExecutorTyped
    /\ StackShape(frames, instances, height)
    /\ CommandOK(cmd)
    /\ exec = "live" => ip.func \in Funcs
    /\ exec # "live" => frames = <<>>
    /\ ui = "running" => exec # "none"
    /\ ui = "prompt" /\ result = "Finish" => frames = <<>>

\* The frames below the one a step started in are still there.
BelowBase == \A i \in 1 .. Len(cmd.base) - 1 : frames[i] = cmd.base[i]

\* Step-over is at its first instruction, or above the frame it started in;
\* step-out has not left the frame it started in.
Stepping ==
    ui = "running" =>
        /\ cmd.style = "over" =>
            \/ cmd.first /\ frames = cmd.base
            \/ /\ ~cmd.first /\ cmd.base # <<>>
               /\ Len(cmd.base) < Len(frames) /\ BelowBase
        /\ cmd.style = "out" => Len(cmd.base) <= Len(frames) /\ BelowBase

\* A return is one word: the results are in that word or in one register span.
ReturnsInOneWord ==
    \A f \in Funcs : \A pc \in Executable(f) :
        Code[f][pc].op \in ReturnOps => Code[f][pc].words = 0

\* Until a command fails the stacks are in order from some first cell on.
OrderInv ==
    clean =>
        /\ ui # "word"
        /\ exec = "live" => ip.pc \in Executable(ip.func)
        /\ exec = "live" /\ frames # <<>> => InOrder(frames[1].off)

\* CallImported never calls a Wasm function: the imports are host functions.
ImportsAreHosts ==
    \A f \in Funcs : \A pc \in Executable(f) :
        Code[f][pc].op = "call_imported" => Code[f][pc].callees \subseteq Hosts

\* The calls and returns the shadow stack can follow: no tail call, no host
\* function behind a table, no conditional return.
Followed ==
    \A f \in Funcs : \A pc \in Executable(f) :
        LET i == Code[f][pc] IN
        /\ i.op \in CallOps => ~i.tail
        /\ i.op = "call_indirect" => i.callees \cap Hosts = {}
        /\ i.op # "return_nez"

\* Backtrace, place by place.
TraceInv ==
    /\ Len(frames) <= Len(shadow)
    /\ \A i \in 1 .. Len(frames) :
          frames[i].func = shadow[Len(shadow) - Len(frames) + i]
=============================================================================

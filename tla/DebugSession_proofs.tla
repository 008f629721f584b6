------------------------ MODULE DebugSession_proofs ------------------------
(***************************************************************************)
(* Proofs about DebugSession, for every program, every table of lines,     *)
(* every set of breakpoints and every limit.                               *)
(*                                                                         *)
(* SessionInv holds of every program; the step commands (Stepping) follow  *)
(* from it and from what an instruction does to the frames (InstrEffect).  *)
(* The stacks stay in order until something fails (OrderInv) and the       *)
(* shadow stack follows the frames (Backtrace) for the programs that       *)
(* TailHostsFail, ReturnsInOneWord, ImportsAreHosts and Followed describe. *)
(***************************************************************************)
EXTENDS DebugSession, Breakpoints, Executor_proofs, FiniteSetTheorems

-----------------------------------------------------------------------------
(* The session, whatever the program.                                      *)

\* NoCmd is a command.
LEMMA NoCmdOK == CommandOK(NoCmd) /\ NoCmd.style = "none"
  BY DEF CommandOK, NoCmd

\* A step of the session that leaves an executor of the right shape.
LEMMA SessionStep ==
    ASSUME SessionInv, ExecutorTyped', StackShape(frames', instances', height'),
           ui' \in {"prompt", "running"} \cup Gone, CommandOK(cmd'),
           ui' = "prompt" => cmd' = NoCmd,
           result' \in {"None", "Next", "Breakpoint", "Finish", "Err"},
           loaded' \in BOOLEAN, exec' \in {"none", "live", "stale"},
           run_func' \in Callees, shadow' \in Seq(Funcs \cup Hosts),
           bps' \subseteq Names, is_interrupted' \in BOOLEAN, clean' \in BOOLEAN,
           exec' = "live" => ip'.func \in Funcs,
           exec' # "live" => frames' = <<>>,
           ui' = "running" => exec' # "none",
           ui' = "prompt" /\ result' = "Finish" => frames' = <<>>
    PROVE  SessionInv'
<1>1. Len(frames') <= RecursionLimit
  BY DEF StackShape
<1>2. height' < MaxHeight
  <2>1. MaxHeight \in Nat
    BY ExecutorAssumption
  <2> QED BY <2>1 DEF ExecutorTyped
<1>3. cmd'.style \in Styles \cup {"none"}
  BY DEF CommandOK
<1>4. TypeOK'
  BY <1>1, <1>2, <1>3 DEF TypeOK
<1> QED BY <1>4 DEF SessionInv

\* What the invariant says of the parts of a session.
LEMMA SessionFacts ==
    ASSUME SessionInv
    PROVE  /\ ExecutorTyped /\ StackShape(frames, instances, height)
           /\ frames \in Seq(Frame) /\ instances \in Seq(Inst)
           /\ height \in Nat /\ height < MaxHeight /\ cap \in Nat
           /\ pages \in 0 .. MaxPages
           /\ ui \in {"prompt", "running"} \cup Gone /\ CommandOK(cmd)
           /\ ui = "prompt" => cmd = NoCmd
           /\ result \in {"None", "Next", "Breakpoint", "Finish", "Err"}
           /\ loaded \in BOOLEAN /\ exec \in {"none", "live", "stale"}
           /\ run_func \in Callees /\ shadow \in Seq(Funcs \cup Hosts)
           /\ bps \subseteq Names /\ is_interrupted \in BOOLEAN /\ clean \in BOOLEAN
           /\ exec = "live" => ip.func \in Funcs
           /\ exec # "live" => frames = <<>>
           /\ ui = "running" => exec # "none"
           /\ ui = "prompt" /\ result = "Finish" => frames = <<>>
           /\ instances = <<>> <=> frames = <<>>
<1>1. frames \in Seq(Frame) /\ instances \in Seq(Inst)
  BY DEF SessionInv, ExecutorTyped
<1>2. PICK idx \in [0 .. Len(frames) -> 0 .. Len(instances)] :
          InstanceIndex(frames, instances, idx)
  BY DEF SessionInv, StackShape
<1>3. instances = <<>> <=> frames = <<>>
  BY <1>1, <1>2, IndexTop
<1>4. MaxHeight \in Nat
  BY ExecutorAssumption
<1>5. height \in Nat /\ height < MaxHeight /\ cap \in Nat /\ pages \in 0 .. MaxPages
  BY <1>4 DEF SessionInv, ExecutorTyped
<1> QED BY <1>1, <1>3, <1>5 DEF SessionInv, TypeOK

\* Commands that leave the stacks and the executor alone.
LEMMA QuietOK ==
    ASSUME SessionInv, UNCHANGED execVars,
           exec' = exec, run_func' = run_func, shadow' = shadow, clean' = clean,
           loaded' = loaded, bps' \subseteq Names, is_interrupted' \in BOOLEAN,
           ui' \in {"prompt", "running"} \cup Gone, CommandOK(cmd'),
           ui' = "prompt" => cmd' = NoCmd,
           result' \in {"None", "Next", "Breakpoint", "Finish", "Err"},
           ui' = "running" => exec # "none",
           ui' = "prompt" /\ result' = "Finish" => frames = <<>>
    PROVE  SessionInv'
<1>1. /\ frames' = frames /\ instances' = instances /\ height' = height
      /\ cap' = cap /\ ip' = ip /\ sp' = sp /\ cache' = cache /\ pages' = pages
  BY DEF execVars
<1>2. ExecutorTyped' /\ StackShape(frames', instances', height')
  BY <1>1, SessionFacts DEF ExecutorTyped
<1> QED BY <1>1, <1>2, SessionFacts, SessionStep

\* The prompt, the commands without an executor, Ctrl-C and a step that has no
\* defined outcome.
QuietStep ==
    \/ \E n \in Names : set_breakpoint(n)
    \/ delete_breakpoint
    \/ sigint
    \/ exit
    \/ instantiate_failed
    \/ \E style \in Styles : start("inst", style) \/ start("line", style)
    \/ \E by \in {"inst", "line"} : no_context(by)
    \/ dangling_line
    \/ undefined_step

\* None of them touches the stacks.
LEMMA QuietUnchanged ==
    ASSUME QuietStep
    PROVE  UNCHANGED <<loaded, exec, run_func, shadow, clean, execVars>>
  BY DEF QuietStep, set_breakpoint, delete_breakpoint, sigint, exit,
         instantiate_failed, start, no_context, dangling_line, undefined_step

\* A command that starts: step and continue remember where they started.
LEMMA StartCommand ==
    ASSUME SessionInv, NEW by \in {"inst", "line"}, NEW style \in Styles,
           start(by, style)
    PROVE  /\ CommandOK(cmd') /\ ui' = "running" /\ result' = "None"
           /\ exec # "none" /\ UNCHANGED <<bps, is_interrupted>>
<1>1. /\ cmd' = [by |-> by, style |-> style, first |-> style # "process",
                 base |-> IF style \in {"over", "out"} THEN frames ELSE <<>>,
                 line |-> IF by = "line" THEN LineOf[ip.func][ip.pc] ELSE NoLine]
      /\ by = "line" => style \in {"in", "over"}
      /\ ui' = "running" /\ result' = "None" /\ exec # "none"
      /\ UNCHANGED <<bps, is_interrupted>>
  BY DEF start
<1>2. frames \in Seq(Frame) /\ <<>> \in Seq(Frame)
  BY SessionFacts
<1>3. CommandOK(cmd')
  BY <1>1, <1>2 DEF CommandOK
<1> QED BY <1>1, <1>3

\* The quiet steps keep the invariant.
LEMMA QuietStepOK ==
    ASSUME SessionInv, QuietStep
    PROVE  SessionInv'
<1>1. /\ loaded' = loaded /\ exec' = exec /\ run_func' = run_func
      /\ shadow' = shadow /\ clean' = clean /\ UNCHANGED execVars
  BY QuietUnchanged
<1>2. CASE (\E n \in Names : set_breakpoint(n)) \/ delete_breakpoint
  <2>1. bps' \subseteq Names /\ is_interrupted' = is_interrupted
        /\ ui' = ui /\ cmd' = cmd /\ result' = result
    BY <1>2, SessionFacts DEF set_breakpoint, delete_breakpoint
  <2> QED BY <1>1, <2>1, SessionFacts, QuietOK
<1>3. CASE sigint \/ exit
  <2>1. bps' = bps /\ is_interrupted' \in BOOLEAN /\ ui' \in {ui, "exited"}
        /\ cmd' = cmd /\ result' = result
    BY <1>3, SessionFacts DEF sigint, exit
  <2> QED BY <1>1, <2>1, SessionFacts, QuietOK DEF Gone
<1>4. CASE instantiate_failed \/ \E by \in {"inst", "line"} : no_context(by)
  <2>1. /\ bps' = bps /\ is_interrupted' = is_interrupted
        /\ \/ ui' = "panicked" /\ cmd' = cmd /\ result' = result
           \/ ui' = "prompt" /\ cmd' = NoCmd /\ result' = "Err"
    BY <1>4 DEF instantiate_failed, no_context, failed
  <2>2. CommandOK(cmd')
    BY <2>1, NoCmdOK, SessionFacts
  <2> QED BY <1>1, <2>1, <2>2, SessionFacts, QuietOK DEF Gone
<1>5. CASE \E style \in Styles : start("inst", style) \/ start("line", style)
  <2>1. PICK by \in {"inst", "line"}, style \in Styles : start(by, style)
    BY <1>5
  <2>2. /\ CommandOK(cmd') /\ ui' = "running" /\ result' = "None"
        /\ exec # "none" /\ bps' = bps /\ is_interrupted' = is_interrupted
    BY <2>1, StartCommand
  <2> QED BY <1>1, <2>2, SessionFacts, QuietOK
<1>6. CASE dangling_line \/ undefined_step
  <2>1. /\ bps' = bps /\ is_interrupted' = is_interrupted
        /\ ui' \in {"dangling", "word"} /\ cmd' = cmd /\ result' = result
    BY <1>6 DEF dangling_line, undefined_step
  <2> QED BY <1>1, <2>1, SessionFacts, QuietOK DEF Gone
<1> QED BY <1>2, <1>3, <1>4, <1>5, <1>6 DEF QuietStep

\* The stacks a launch starts from fit each other.
LEMMA StacksFacts ==
    ASSUME SessionInv, NEW answer, answer \in Answers
    PROVE  LET s == Stacks(answer) IN
           /\ s.frames \in Seq(Frame) /\ s.instances \in Seq(Inst)
           /\ s.height \in Nat /\ s.height < MaxHeight /\ s.cap \in Nat
           /\ s.pages \in 0 .. MaxPages
           /\ StackShape(s.frames, s.instances, s.height)
           /\ ExecutorAfter(answer) \in {"none", "live", "stale"}
           /\ ExecutorAfter(answer) # "live" => s.frames = <<>>
           /\ ExecutorAfter(answer) = "live" => exec = "live"
<1>1. CASE answer = "Y"
  <2>1. Stacks(answer) = [frames |-> <<>>, instances |-> <<>>, height |-> 0,
                          cap |-> MinHeight, pages |-> 0]
    BY <1>1 DEF Stacks
  <2>2. StackShape(<<>>, <<>>, 0)
    BY EmptyOK
  <2>3. MinHeight \in Nat \ {0} /\ MaxHeight \in Nat /\ MinHeight <= MaxHeight
        /\ MaxPages \in Nat
    BY ExecutorAssumption
  <2>4. ExecutorAfter(answer) \in {"none", "stale"}
    BY <1>1 DEF ExecutorAfter
  <2> QED BY <2>1, <2>2, <2>3, <2>4
<1>2. CASE answer # "Y"
  <2>1. Stacks(answer) = [frames |-> frames, instances |-> instances,
                          height |-> height, cap |-> cap, pages |-> pages]
    BY <1>2 DEF Stacks
  <2>2. ExecutorAfter(answer) = exec
    BY <1>2 DEF ExecutorAfter
  <2> QED BY <2>1, <2>2, SessionFacts
<1> QED BY <1>1, <1>2

\* A launch that is refused.
LEMMA LaunchRefusedOK ==
    ASSUME SessionInv, NEW answer, launch_refused(answer)
    PROVE  SessionInv'
<1> DEFINE s == Stacks(answer)
<1>1. /\ answer \in Answers /\ loaded' = TRUE /\ exec' = ExecutorAfter(answer)
      /\ run_func' \in {run_func} \cup Funcs \cup Hosts
      /\ is_interrupted' \in {is_interrupted, TRUE}
      /\ frames' = s.frames /\ instances' = s.instances
      /\ height' = s.height /\ cap' = s.cap /\ pages' = s.pages
      /\ ui' = "prompt" /\ cmd' = NoCmd /\ result' = "Err"
      /\ shadow' = shadow /\ bps' = bps /\ clean' = clean
      /\ ip' = ip /\ sp' = sp /\ cache' = cache
  BY DEF launch_refused, failed
<1>2. /\ s.frames \in Seq(Frame) /\ s.instances \in Seq(Inst)
      /\ s.height \in Nat /\ s.height < MaxHeight /\ s.cap \in Nat
      /\ s.pages \in 0 .. MaxPages
      /\ StackShape(s.frames, s.instances, s.height)
      /\ exec' \in {"none", "live", "stale"}
      /\ exec' # "live" => s.frames = <<>>
      /\ exec' = "live" => exec = "live"
  BY <1>1, StacksFacts
<1> HIDE DEF s
<1>3. height' \in 0 .. MaxHeight - 1
  BY <1>1, <1>2, ExecutorAssumption
<1>4. ExecutorTyped' /\ StackShape(frames', instances', height')
  BY <1>1, <1>2, <1>3, SessionFacts DEF ExecutorTyped
<1>5. run_func' \in Callees /\ is_interrupted' \in BOOLEAN
  BY <1>1, SessionFacts DEF Callees
<1> QED BY <1>1, <1>2, <1>4, <1>5, SessionFacts, NoCmdOK, SessionStep

\* A launch that runs out of cells or frames keeps what it has reserved.
LEMMA LaunchOverflowOK ==
    ASSUME SessionInv, NEW answer, NEW f \in Funcs, launch_overflow(f, answer)
    PROVE  SessionInv'
<1> DEFINE s == Stacks(answer)
           l == LenResults[f]
           r == Regs[f]
<1>1. /\ answer \in Answers /\ loaded' = TRUE /\ exec' = ExecutorAfter(answer)
      /\ run_func' = f /\ is_interrupted' = TRUE
      /\ frames' = s.frames /\ instances' = s.instances /\ pages' = s.pages
      /\ ui' = "prompt" /\ cmd' = NoCmd /\ result' = "Err"
      /\ shadow' = shadow /\ bps' = bps /\ clean' = FALSE
      /\ ip' = ip /\ sp' = sp /\ cache' = cache
  BY DEF launch_overflow, failed
<1>2. /\ height' = IF ~FitsAt(s.height, l) THEN s.height
                   ELSE IF ~FitsAt(s.height + l, r) THEN s.height + l
                   ELSE s.height + l + r
      /\ cap' = IF ~FitsAt(s.height, l) THEN s.cap
                ELSE IF ~FitsAt(s.height + l, r) THEN ReservedAt(s.height, s.cap, l)
                ELSE RootReserved(s.height, s.cap, l, r)
  BY DEF launch_overflow
<1>3. /\ s.frames \in Seq(Frame) /\ s.instances \in Seq(Inst)
      /\ s.height \in Nat /\ s.height < MaxHeight /\ s.cap \in Nat
      /\ s.pages \in 0 .. MaxPages
      /\ StackShape(s.frames, s.instances, s.height)
      /\ exec' \in {"none", "live", "stale"}
      /\ exec' # "live" => s.frames = <<>>
      /\ exec' = "live" => exec = "live"
  BY <1>1, StacksFacts
<1>4. l \in Nat /\ r \in Nat /\ MaxHeight \in Nat
  BY ExecutorAssumption, DebugSessionAssumption
<1> HIDE DEF s, l, r
<1>5. height' \in Nat /\ height' < MaxHeight /\ s.height <= height'
  BY SMTT(30), <1>2, <1>3, <1>4 DEF FitsAt
<1>6. cap' \in Nat
  BY <1>2, <1>3, <1>4, ReservedNat
<1>7. height' \in 0 .. MaxHeight - 1
  BY <1>4, <1>5
<1>8. StackShape(frames', instances', height')
  <2>1. s.frames # <<>> => Last(s.frames) \in Frame
    BY <1>3, FrontFacts
  <2>2. s.frames # <<>> => Last(s.frames).off \in Nat
    BY <2>1 DEF Frame
  <2>3. s.frames # <<>> => Last(s.frames).off <= s.height
    BY <1>3 DEF StackShape
  <2>4. s.frames # <<>> => Last(s.frames).off <= height'
    BY <2>2, <2>3, <1>3, <1>5
  <2> QED BY <2>4, <1>1, <1>3 DEF StackShape
<1>9. ExecutorTyped'
  BY <1>1, <1>3, <1>6, <1>7, SessionFacts DEF ExecutorTyped
<1>10. run_func' \in Callees
  BY <1>1 DEF Callees
<1> QED BY <1>1, <1>3, <1>8, <1>9, <1>10, SessionFacts, NoCmdOK, SessionStep

\* The stacks and the executor after a launch.
LEMMA LaunchShape ==
    ASSUME SessionInv, NEW answer, NEW f \in Funcs, launch(f, answer)
    PROVE  LET s == Stacks(answer) IN
           /\ answer \in Answers
           /\ ExecutorTyped' /\ StackShape(frames', instances', height')
           /\ ip'.func = f /\ ip'.pc \in Executable(f)
           /\ frames' # <<>> /\ Last(frames').func = f
           /\ sp' = [off |-> Last(frames').off, cap |-> cap']
           /\ cache' = Cached(InstanceOf[f], pages')
           /\ \A base : /\ StackOK(s.frames, s.instances, s.height, base)
                        /\ s.frames = <<>> => base = s.height + LenResults[f]
                        => StackOK(frames', instances', height', base)
<1> DEFINE s == Stacks(answer)
           l == LenResults[f]
           r == Regs[f]
           inst == InstanceOf[f]
           off == s.height + l
           fr == NewFrame(f, off, Changes(s.instances, inst))
<1>1. /\ answer \in Answers /\ Len(s.frames) # RecursionLimit
      /\ FitsAt(s.height, l) /\ FitsAt(off, r)
      /\ height' = off + r
      /\ cap' = RootReserved(s.height, s.cap, l, r)
      /\ push(s.frames, s.instances, f, off, inst)
      /\ ip' = Entry(f) /\ sp' = [off |-> off, cap |-> cap']
      /\ cache' = Cached(inst, s.pages)
      /\ pages' = s.pages
  BY DEF launch, new_executor, init_call_frame
<1>2. /\ s.frames \in Seq(Frame) /\ s.instances \in Seq(Inst)
      /\ s.height \in Nat /\ s.height < MaxHeight /\ s.cap \in Nat
      /\ s.pages \in 0 .. MaxPages
      /\ StackShape(s.frames, s.instances, s.height)
  BY <1>1, StacksFacts
<1>3. /\ l \in Nat /\ r \in Nat /\ MaxHeight \in Nat /\ RecursionLimit \in Nat
      /\ inst \in Inst /\ inst # NoInstance /\ MaxPages \in Nat
  BY ExecutorAssumption, DebugSessionAssumption DEF Inst
<1>4. frames' = Append(s.frames, fr) /\ instances' = Pushed(s.instances, inst)
  BY <1>1, PushStep
<1> HIDE DEF s, l, r, inst
<1>5. /\ off \in Nat /\ off >= s.height /\ height' \in Nat /\ off <= height'
      /\ off + r <= height' /\ height' < MaxHeight
  <2>1. off \in Nat /\ off >= s.height
    BY <1>2, <1>3
  <2>2. r < MaxHeight - off /\ height' = off + r
    BY <1>1 DEF FitsAt
  <2> HIDE DEF off
  <2>3. height' \in Nat /\ off <= height' /\ off + r <= height' /\ height' < MaxHeight
    BY <2>1, <2>2, <1>3
  <2> QED BY <2>1, <2>3
<1>6. Len(s.frames) < RecursionLimit
  <2>1. Len(s.frames) <= RecursionLimit /\ Len(s.frames) \in Nat
    BY <1>2, EmptyFacts DEF StackShape
  <2> QED BY <2>1, <1>1, <1>3
<1>7. cap' \in Nat
  BY <1>1, <1>2, <1>3, ReservedNat
<1>8. Changes(s.instances, inst) \in BOOLEAN /\ instances' \in Seq(Inst)
  BY <1>2, <1>3, <1>4, PushInstance
<1>9. fr \in Frame /\ fr.func = f /\ fr.off = off
  BY <1>5, <1>8, PushFrame
<1>10. ip'.func = f /\ ip'.pc \in Executable(f)
       /\ ip' \in [func : Funcs \cup {Null}, pc : Nat]
  <2>1. 1 \in Executable(f)
    BY ExecutorAssumption DEF WellFormed
  <2> QED BY <2>1, <1>1 DEF Entry
<1> HIDE DEF off
<1>11. StackShape(Append(s.frames, NewFrame(f, off, Changes(s.instances, inst))),
                  Pushed(s.instances, inst), height')
  BY <1>2, <1>3, <1>5, <1>6, ShapePush
<1>12. StackShape(frames', instances', height')
  BY <1>4, <1>11
<1>13. frames' \in Seq(Frame) /\ frames' # <<>> /\ Last(frames') = fr
  BY <1>2, <1>4, <1>9, AppendFacts
<1>14. ExecutorTyped'
  <2>1. height' \in 0 .. MaxHeight - 1 /\ pages' \in 0 .. MaxPages /\ pages' \in Nat
    BY <1>1, <1>2, <1>3, <1>5
  <2>2. sp' \in [off : Nat, cap : Nat]
    BY <1>1, <1>5, <1>7
  <2>3. cache' \in [inst : Inst \cup {NoInstance}, pages : Nat]
    BY <2>1, <1>1, <1>3 DEF Cached
  <2> QED BY <2>1, <2>2, <2>3, <1>7, <1>8, <1>10, <1>13 DEF ExecutorTyped
<1>15. ASSUME NEW base, StackOK(s.frames, s.instances, s.height, base),
              s.frames = <<>> => base = off
       PROVE  StackOK(frames', instances', height', base)
  <2>1. r = Regs[f] /\ inst = InstanceOf[f] /\ (s.frames = <<>> => off = base)
    BY <1>15 DEF r, inst
  <2>2. StackOK(Append(s.frames, NewFrame(f, off, Changes(s.instances, inst))),
                Pushed(s.instances, inst), height', base)
    BY <2>1, <1>2, <1>3, <1>5, <1>15, OrderPush
  <2> QED BY <2>2, <1>4
<1>16. sp' = [off |-> Last(frames').off, cap |-> cap'] /\ Last(frames').func = f
  BY <1>1, <1>9, <1>13
<1>17. cache' = Cached(InstanceOf[f], pages')
  BY <1>1 DEF inst
<1>18. \A base : /\ StackOK(s.frames, s.instances, s.height, base)
                 /\ s.frames = <<>> => base = off
                 => StackOK(frames', instances', height', base)
  BY <1>15
<1> QED
  BY <1>1, <1>10, <1>12, <1>13, <1>14, <1>16, <1>17, <1>18 DEF s, off, l

\* A launch.
LEMMA LaunchOK ==
    ASSUME SessionInv, NEW answer, NEW f \in Funcs, launch(f, answer)
    PROVE  SessionInv'
<1>1. /\ loaded' = TRUE /\ exec' = "live" /\ run_func' = f
      /\ shadow' = Append(shadow, f) /\ is_interrupted' = TRUE
      /\ clean' \in {TRUE, clean} /\ ui' = "running"
      /\ cmd' = [NoCmd EXCEPT !.by = "inst", !.style = "process"]
      /\ result' = "None" /\ bps' = bps
  BY DEF launch, RootTraced
<1>2. CommandOK(cmd')
  <2>1. cmd' = [by |-> "inst", style |-> "process", first |-> FALSE,
                base |-> <<>>, line |-> NoLine]
    BY <1>1 DEF NoCmd
  <2>2. <<>> \in Seq(Frame)
    OBVIOUS
  <2> QED BY <2>1, <2>2 DEF CommandOK, Styles
<1>3. ExecutorTyped' /\ StackShape(frames', instances', height') /\ ip'.func = f
  BY LaunchShape
<1>4. run_func' \in Callees /\ shadow' \in Seq(Funcs \cup Hosts) /\ clean' \in BOOLEAN
  <2>1. shadow \in Seq(Funcs \cup Hosts) /\ f \in Funcs \cup Hosts
    BY SessionFacts
  <2>2. shadow' \in Seq(Funcs \cup Hosts)
    BY <2>1, <1>1, AppendFacts
  <2>3. run_func' \in Callees
    BY <1>1 DEF Callees
  <2>4. clean' \in BOOLEAN
    BY <1>1, SessionFacts
  <2> QED BY <2>2, <2>3, <2>4
<1> QED BY <1>1, <1>2, <1>3, <1>4, SessionFacts, SessionStep

-----------------------------------------------------------------------------
(* execute_step.                                                           *)

\* The step is one instruction of a live executor, or, when the root function
\* has returned already, the return again.
LEMMA StepFacts ==
    ASSUME SessionInv, ui = "running", ~Dangling, ip.pc \in Executable(ip.func),
           NEW out, out \in Outcome, execute_instr_dbg(out)
    PROVE  /\ exec = "live" /\ ip.func \in Funcs
           /\ frames # <<>> => Ready /\ execute_instr(out)
           /\ frames = <<>> => UNCHANGED execVars /\ out = Returned("End")
           /\ Shaped'
           /\ out.sig = "End" => frames' = <<>>
           /\ out.call \in Funcs \cup Hosts \cup {Null} /\ out.pop \in BOOLEAN
<1>1. exec = "live" /\ ip.func \in Funcs
  BY SessionFacts DEF Dangling
<1>2. frames # <<>> => Ready /\ execute_instr(out)
  BY <1>1, SessionFacts DEF Ready, execute_instr_dbg
<1>3. frames = <<>> => UNCHANGED execVars /\ out = Returned("End")
  BY DEF execute_instr_dbg
<1>4. Shaped'
  <2>1. CASE frames # <<>>
    BY <2>1, <1>2, InstrOK
  <2>2. CASE frames = <<>>
    BY <2>2, <1>1, <1>3, SessionFacts DEF execVars, Shaped, ExecutorTyped
  <2> QED BY <2>1, <2>2
<1>5. out.sig = "End" => frames' = <<>>
  <2>1. CASE frames = <<>>
    BY <2>1, <1>3 DEF execVars
  <2>2. CASE frames # <<>> /\ out.sig = "End"
    <3>1. Returns(out)
      BY <2>2, <1>2, InstrEffect
         DEF Stays, Overflows, Vacates, Enters, Replaces, Called
    <3>2. frames' = Front(frames) /\ Len(frames) = 1
      BY <3>1, <2>2 DEF Returns, Returned
    <3>3. Front(frames) \in Seq(Frame) /\ Len(Front(frames)) = Len(frames) - 1
      BY <2>2, SessionFacts, FrontFacts
    <3> QED BY <3>2, <3>3, EmptyFacts
  <2> QED BY <2>1, <2>2
<1>6. out.call \in Funcs \cup Hosts \cup {Null} /\ out.pop \in BOOLEAN
  <2>1. Instr.callees \subseteq Funcs \cup Hosts \cup {Null}
    <3>1. Code[ip.func] \in Seq(Instruction)
      BY <1>1, ExecutorAssumption
    <3>2. Instr \in Instruction
      BY <3>1 DEF Instr, Executable
    <3> QED BY <3>2 DEF Instruction, Callees
  <2>2. CASE \E sig \in {"Next", "Err", "HostErr"} : out = Done(sig)
    BY <2>2 DEF Done
  <2>3. CASE \E sig \in {"Next", "End"} : out = Returned(sig)
    BY <2>3 DEF Returned
  <2>4. CASE \E f \in Instr.callees : out = Called(f)
    BY <2>1, <2>4 DEF Called
  <2> QED BY <2>2, <2>3, <2>4 DEF Outcome
<1> QED BY <1>1, <1>2, <1>3, <1>4, <1>5, <1>6

\* The shadow stack after a step.
LEMMA ShadowTyped ==
    ASSUME shadow \in Seq(Funcs \cup Hosts), NEW out,
           out.call \in Funcs \cup Hosts \cup {Null}
    PROVE  ShadowAfter(out) \in Seq(Funcs \cup Hosts)
<1> DEFINE called == IF out.call = Null THEN shadow ELSE Append(shadow, out.call)
<1>1. called \in Seq(Funcs \cup Hosts)
  <2>1. CASE out.call = Null
    BY <2>1
  <2>2. CASE out.call # Null
    <3>1. out.call \in Funcs \cup Hosts
      BY <2>2
    <3>2. Append(shadow, out.call) \in Seq(Funcs \cup Hosts)
      BY <3>1, AppendFacts
    <3> QED BY <2>2, <3>2
  <2> QED BY <2>1, <2>2
<1>2. ShadowAfter(out) = IF out.pop /\ called # <<>> THEN Front(called) ELSE called
  BY DEF ShadowAfter
<1> HIDE DEF called
<1> QED BY <1>1, <1>2, FrontFacts

\* How the command goes on after a step.
LEMMA AfterStep ==
    ASSUME SessionInv, ui = "running", frames' \in Seq(Frame), NEW sig,
           after_step(sig), sig = "End" => frames' = <<>>
    PROVE  /\ ui' \in {"prompt", "running"} \cup Gone /\ ui' # "word"
           /\ CommandOK(cmd')
           /\ ui' = "prompt" => cmd' = NoCmd
           /\ result' \in {"None", "Next", "Breakpoint", "Finish", "Err"}
           /\ ui' = "prompt" /\ result' = "Finish" => frames' = <<>>
<1>1. /\ CommandOK(cmd)
      /\ result \in {"None", "Next", "Breakpoint", "Finish", "Err"}
  BY SessionFacts
<1>2. CASE sig = "End" /\ get_finish_result
  <2>1. \/ ui' = "prompt" /\ cmd' = NoCmd /\ result' = "Finish"
        \/ ui' = "panicked" /\ cmd' = cmd /\ result' = result
    BY <1>2 DEF get_finish_result
  <2> QED BY <1>1, <1>2, <2>1, NoCmdOK DEF Gone
<1>3. ASSUME NEW res \in {"Breakpoint", "Next"}, step_done(res)
      PROVE  /\ ui' \in {"prompt", "running"} /\ CommandOK(cmd')
             /\ ui' = "prompt" => cmd' = NoCmd /\ result' = res
             /\ result' \in {result, res}
  <2>1. CASE ui' = "prompt" /\ cmd' = NoCmd /\ result' = res
    BY <2>1, NoCmdOK
  <2>2. CASE /\ UNCHANGED <<ui, result>>
             /\ cmd' = [cmd EXCEPT !.first = TRUE,
                         !.base = IF cmd.style = "over" THEN frames' ELSE @]
    <3>1. CommandOK(cmd')
      BY <2>2, <1>1 DEF CommandOK
    <3> QED BY <2>2, <3>1
  <2> QED BY <1>3, <2>1, <2>2 DEF step_done
<1>4. CASE sig = "Breakpoint" /\ step_done("Breakpoint")
  BY <1>1, <1>3, <1>4
<1>5. CASE sig = "Next" /\ step_done("Next")
  BY <1>1, <1>3, <1>5
<1>6. CASE cmd' = [cmd EXCEPT !.first = FALSE] /\ UNCHANGED <<ui, result>>
  <2>1. CommandOK(cmd')
    BY <1>1, <1>6 DEF CommandOK
  <2> QED BY <1>1, <1>6, <2>1
<1> QED BY <1>2, <1>4, <1>5, <1>6 DEF after_step

\* What the signal handed to the command says.
LEMMA SignalFacts ==
    ASSUME NEW hit, NEW out
    PROVE  LET sig == heeded(signal(hit, out)) IN
           /\ sig \in {"Next", "End", "Breakpoint"}
           /\ sig = "End" => out.sig = "End"
           /\ sig = "Next" => \/ out.sig # "End"
                              \/ cmd.style = "out" /\ cmd.first
  BY DEF heeded, signal

\* A step keeps the invariant.
LEMMA StepOK ==
    ASSUME SessionInv, execute_step
    PROVE  SessionInv'
<1>1. /\ ui = "running" /\ ~Dangling /\ ip.pc \in Executable(ip.func)
      /\ loaded' = loaded /\ exec' = exec /\ run_func' = run_func /\ bps' = bps
      /\ is_interrupted' \in BOOLEAN
  BY SessionFacts DEF execute_step
<1>2. PICK out \in Outcome :
          /\ execute_instr_dbg(out)
          /\ IF out.sig \in {"Err", "HostErr"}
             THEN failed /\ clean' = FALSE /\ UNCHANGED shadow
             ELSE /\ after_step(heeded(signal(execute_inst, out)))
                  /\ shadow' = ShadowAfter(out)
                  /\ UNCHANGED clean
  BY DEF execute_step
<1>3. /\ exec = "live" /\ Shaped' /\ (out.sig = "End" => frames' = <<>>)
      /\ out.call \in Funcs \cup Hosts \cup {Null}
  BY <1>1, <1>2, StepFacts
<1>4. /\ ExecutorTyped' /\ StackShape(frames', instances', height')
      /\ ip'.func \in Funcs /\ frames' \in Seq(Frame)
  BY <1>3 DEF Shaped, ExecutorTyped
<1>5. CASE out.sig \in {"Err", "HostErr"}
  <2>1. /\ ui' = "prompt" /\ cmd' = NoCmd /\ result' = "Err"
        /\ clean' = FALSE /\ shadow' = shadow
    BY <1>2, <1>5 DEF failed
  <2> QED BY <1>1, <1>3, <1>4, <2>1, SessionFacts, NoCmdOK, SessionStep
<1>6. CASE out.sig \notin {"Err", "HostErr"}
  <2>1. /\ after_step(heeded(signal(execute_inst, out)))
        /\ shadow' = ShadowAfter(out) /\ clean' = clean
    BY <1>2, <1>6
  <2>2. heeded(signal(execute_inst, out)) = "End" => frames' = <<>>
    BY <1>3, SignalFacts
  <2>3. /\ ui' \in {"prompt", "running"} \cup Gone /\ CommandOK(cmd')
        /\ ui' = "prompt" => cmd' = NoCmd
        /\ result' \in {"None", "Next", "Breakpoint", "Finish", "Err"}
        /\ ui' = "prompt" /\ result' = "Finish" => frames' = <<>>
    BY <1>1, <1>4, <2>1, <2>2, AfterStep
  <2>4. shadow' \in Seq(Funcs \cup Hosts)
    BY <1>3, <2>1, SessionFacts, ShadowTyped
  <2> QED BY <1>1, <1>3, <1>4, <2>1, <2>3, <2>4, SessionFacts, SessionStep
<1> QED BY <1>5, <1>6

\* The debugger starts without a process.
LEMMA SessionInit == Init => SessionInv
<1> SUFFICES ASSUME Init PROVE SessionInv
  OBVIOUS
<1>1. /\ MinHeight \in Nat /\ MaxHeight \in Nat \ {0} /\ MaxPages \in Nat
      /\ RecursionLimit \in Nat
  BY ExecutorAssumption
<1>2. ExecutorTyped
  BY <1>1 DEF Init, ExecutorTyped, Cached
<1>3. StackShape(frames, instances, height)
  BY EmptyOK DEF Init
<1>4. TypeOK
  <2>1. Len(frames) <= RecursionLimit
    BY <1>3 DEF StackShape
  <2>2. height < MaxHeight
    BY <1>1 DEF Init
  <2>3. shadow \in Seq(Funcs \cup Hosts)
    BY DEF Init
  <2> QED BY <2>1, <2>2, <2>3, NoCmdOK DEF Init, TypeOK, Callees
<1> QED BY <1>2, <1>3, <1>4, NoCmdOK DEF Init, SessionInv

\* The steps of a session, one kind at a time.
LEMMA Kinds ==
    ASSUME [Next]_vars
    PROVE  \/ QuietStep \/ execute_step \/ UNCHANGED vars
           \/ \E answer \in {"Y", "n"} :
                 \/ launch_refused(answer)
                 \/ \E f \in Funcs : launch(f, answer) \/ launch_overflow(f, answer)
  BY DEF Next, QuietStep

\* Every step keeps the invariant.
LEMMA SessionNext == SessionInv /\ [Next]_vars => SessionInv'
<1> SUFFICES ASSUME SessionInv, [Next]_vars PROVE SessionInv'
  OBVIOUS
<1>1. CASE QuietStep
  BY <1>1, QuietStepOK
<1>2. CASE execute_step
  BY <1>2, StepOK
<1>3. CASE UNCHANGED vars
  <2>1. /\ UNCHANGED execVars /\ ui' = ui /\ cmd' = cmd /\ result' = result
        /\ loaded' = loaded /\ exec' = exec /\ run_func' = run_func
        /\ shadow' = shadow /\ bps' = bps /\ is_interrupted' = is_interrupted
        /\ clean' = clean
    BY <1>3 DEF vars, session
  <2> QED BY <2>1, SessionFacts, QuietOK
<1>4. CASE \E answer \in {"Y", "n"} :
              \/ launch_refused(answer)
              \/ \E f \in Funcs : launch(f, answer) \/ launch_overflow(f, answer)
  BY <1>4, LaunchRefusedOK, LaunchOK, LaunchOverflowOK
<1> QED BY <1>1, <1>2, <1>3, <1>4, Kinds

-----------------------------------------------------------------------------
(* Theorems that hold of every program.                                    *)

\* The inductive invariant of the session.
THEOREM Invariance == Spec => []SessionInv
  BY SessionInit, SessionNext, PTL DEF Spec

\* The debugger's state keeps its types: the value stack never fills and the
\* call stack keeps its limit, although launches pile up on stopped calls.
THEOREM TypeCorrect == Spec => []TypeOK
<1>1. SessionInv => TypeOK
  BY DEF SessionInv
<1> QED BY <1>1, Invariance, PTL

\* "Finish" is shown only when every frame has returned.
THEOREM FinishIsReturn == Spec => []FinishReturned
<1>1. SessionInv => FinishReturned
  BY SessionFacts DEF FinishReturned
<1> QED BY <1>1, Invariance, PTL

-----------------------------------------------------------------------------
(* The step commands.                                                      *)

\* The frames below the base are those an instruction cannot reach.
LEMMA BelowStays ==
    ASSUME NEW b \in Seq(Frame), frames \in Seq(Frame), SameCallers,
           Len(b) <= Len(frames), \A i \in 1 .. Len(b) - 1 : frames[i] = b[i]
    PROVE  \A i \in 1 .. Len(b) - 1 : frames'[i] = b[i]
<1>1. Len(b) \in Nat /\ Len(frames) \in Nat
  BY EmptyFacts
<1>2. \A i \in 1 .. Len(b) - 1 : i \in 1 .. Len(frames) - 1
  BY <1>1
<1> QED BY <1>2 DEF SameCallers

\* A step command is at or above the frame it started in.
LEMMA SteppingFacts ==
    ASSUME SessionInv, Stepping, ui = "running", cmd.style \in {"over", "out"}
    PROVE  /\ cmd.base \in Seq(Frame) /\ frames \in Seq(Frame)
           /\ Len(cmd.base) \in Nat /\ Len(frames) \in Nat
           /\ Len(cmd.base) <= Len(frames) /\ BelowBase
           /\ cmd.style = "over" =>
                 \/ cmd.first /\ frames = cmd.base
                 \/ ~cmd.first /\ cmd.base # <<>> /\ Len(cmd.base) < Len(frames)
<1>1. cmd.base \in Seq(Frame) /\ frames \in Seq(Frame)
  BY SessionFacts DEF CommandOK
<1>2. Len(cmd.base) \in Nat /\ Len(frames) \in Nat
  BY <1>1, EmptyFacts
<1>3. CASE cmd.style = "out"
  BY <1>1, <1>2, <1>3 DEF Stepping
<1>4. CASE cmd.style = "over"
  <2>1. \/ cmd.first /\ frames = cmd.base
        \/ ~cmd.first /\ cmd.base # <<>> /\ Len(cmd.base) < Len(frames) /\ BelowBase
    BY <1>4 DEF Stepping
  <2>2. frames = cmd.base => BelowBase
    BY DEF BelowBase
  <2> QED BY <1>1, <1>2, <1>4, <2>1, <2>2
<1> QED BY <1>3, <1>4

\* A command that goes on after a step.
LEMMA SteppingStep ==
    ASSUME SessionInv, SessionInv', Stepping, execute_step
    PROVE  Stepping'
<1> SUFFICES ASSUME ui' = "running" PROVE Stepping'
  BY DEF Stepping
<1>1. ui = "running" /\ ~Dangling /\ ip.pc \in Executable(ip.func)
  BY DEF execute_step
<1>2. PICK out \in Outcome :
          /\ execute_instr_dbg(out)
          /\ IF out.sig \in {"Err", "HostErr"}
             THEN failed /\ clean' = FALSE /\ UNCHANGED shadow
             ELSE /\ after_step(heeded(signal(execute_inst, out)))
                  /\ shadow' = ShadowAfter(out)
                  /\ UNCHANGED clean
  BY DEF execute_step
<1> DEFINE sig == heeded(signal(execute_inst, out))
<1>3. after_step(sig)
  BY <1>2 DEF failed
<1>4. CommandOK(cmd)
  BY SessionFacts
<1>5. CASE \/ sig = "Breakpoint" /\ step_done("Breakpoint")
           \/ sig = "Next" /\ step_done("Next")
  <2>1. /\ cmd.by = "line"
        /\ cmd' = [cmd EXCEPT !.first = TRUE,
                       !.base = IF cmd.style = "over" THEN frames' ELSE @]
    BY <1>5 DEF step_done
  <2>2. cmd.style \in {"in", "over"}
    BY <1>4, <2>1 DEF CommandOK
  <2>3. cmd'.style = cmd.style /\ cmd'.first
        /\ (cmd.style = "over" => cmd'.base = frames')
    BY <1>4, <2>1 DEF CommandOK
  <2> QED BY <2>2, <2>3 DEF Stepping
<1>6. CASE sig = "Next" /\ loops /\ cmd' = [cmd EXCEPT !.first = FALSE]
  <2>1. cmd'.style = cmd.style /\ ~cmd'.first /\ cmd'.base = cmd.base
    BY <1>4, <1>6 DEF CommandOK
  <2>2. CASE cmd.style \notin {"over", "out"}
    BY <2>1, <2>2 DEF Stepping
  <2>3. CASE cmd.style \in {"over", "out"}
    <3>1. /\ cmd.base \in Seq(Frame) /\ frames \in Seq(Frame)
          /\ Len(cmd.base) \in Nat /\ Len(frames) \in Nat
          /\ Len(cmd.base) <= Len(frames) /\ BelowBase
          /\ cmd.style = "over" => (frames = cmd.base \/ cmd.base # <<>>)
      BY <1>1, <2>3, SteppingFacts
    <3>2. CASE frames = <<>>
      <4>1. frames' = <<>> /\ out = Returned("End")
        BY <1>1, <1>2, <3>2, StepFacts DEF execVars
      <4>2. cmd.style = "out"
        BY <1>6, <2>3, <4>1 DEF heeded, signal, Returned
      <4>3. Len(cmd.base) = 0
        BY <3>1, <3>2, EmptyFacts
      <4>4. \A i \in 1 .. Len(cmd.base) - 1 : frames'[i] = cmd.base[i]
        BY <4>3
      <4>5. Len(cmd.base) <= Len(frames')
        BY <4>1, <4>3
      <4> QED BY <2>1, <4>2, <4>4, <4>5 DEF Stepping, BelowBase
    <3>3. CASE frames # <<>>
      <4>1. SameCallers
        BY <1>1, <1>2, <3>3, StepFacts, InstrFrames
      <4>2. \A i \in 1 .. Len(cmd.base) - 1 : frames'[i] = cmd.base[i]
        BY <3>1, <4>1, BelowStays DEF BelowBase
      <4>3. /\ cmd.style = "over" => Len(cmd.base) < Len(frames')
            /\ cmd.style = "out" => Len(cmd.base) <= Len(frames')
        BY <1>6 DEF loops
      <4>4. cmd.style = "over" => cmd.base # <<>>
        BY <3>1, <3>3
      <4> QED BY <2>1, <4>2, <4>3, <4>4 DEF Stepping, BelowBase
    <3> QED BY <3>2, <3>3
  <2> QED BY <2>2, <2>3
<1>7. CASE sig = "End" /\ get_finish_result
  BY <1>7 DEF get_finish_result
<1> HIDE DEF sig
<1> QED BY <1>3, <1>5, <1>6, <1>7 DEF after_step

\* The invariant of the step commands.
LEMMA SteppingNext == SessionInv /\ SessionInv' /\ Stepping /\ [Next]_vars => Stepping'
<1> SUFFICES ASSUME SessionInv, SessionInv', Stepping, [Next]_vars PROVE Stepping'
  OBVIOUS
<1>1. CASE execute_step
  BY <1>1, SteppingStep
<1>2. CASE UNCHANGED vars
  BY <1>2 DEF vars, session, execVars, Stepping, BelowBase
<1>3. CASE \E answer \in {"Y", "n"} :
              \/ launch_refused(answer)
              \/ \E f \in Funcs : launch(f, answer) \/ launch_overflow(f, answer)
  <2>1. \/ ui' = "prompt"
        \/ cmd' = [NoCmd EXCEPT !.by = "inst", !.style = "process"]
    BY ZenonT(40), <1>3 DEF launch_refused, launch, launch_overflow, failed
  <2>2. [NoCmd EXCEPT !.by = "inst", !.style = "process"].style = "process"
    BY DEF NoCmd
  <2> QED BY <2>1, <2>2 DEF Stepping
<1>4. CASE QuietStep
  <2>1. CASE \E style \in Styles : start("inst", style) \/ start("line", style)
    <3>1. PICK by \in {"inst", "line"}, style \in Styles : start(by, style)
      BY <2>1
    <3>2. /\ cmd'.style = style
          /\ style \in {"over", "out"} => cmd'.first /\ cmd'.base = frames
          /\ frames' = frames
      BY <3>1 DEF start, execVars
    <3>3. style \in {"over", "out"} => Len(cmd'.base) <= Len(frames')
      <4>1. Len(frames) \in Nat
        BY SessionFacts, EmptyFacts
      <4> QED BY <3>2, <4>1
    <3> QED BY <3>2, <3>3 DEF Stepping, BelowBase
  <2>2. CASE sigint
    BY <2>2 DEF sigint, execVars, Stepping, BelowBase
  <2>3. CASE ~(\E style \in Styles : start("inst", style) \/ start("line", style)) /\ ~sigint
    <3>1. ui' # "running"
      BY <1>4, <2>3 DEF QuietStep, set_breakpoint, delete_breakpoint, exit,
           instantiate_failed, no_context, dangling_line, undefined_step, failed
    <3> QED BY <3>1 DEF Stepping
  <2> QED BY <2>1, <2>2, <2>3
<1> QED BY <1>1, <1>2, <1>3, <1>4, Kinds

\* Only a step stops a command with "Next", and its loop condition is false.
LEMMA StoppedNext ==
    ASSUME SessionInv, [Next]_vars, Stopped("Next")
    PROVE  /\ execute_step
           /\ \E out \in Outcome :
                /\ execute_instr_dbg(out) /\ ~loops
                /\ out.sig # "End" \/ (cmd.style = "out" /\ cmd.first)
<1>1. ui = "running" /\ ui' = "prompt" /\ result' = "Next"
  BY DEF Stopped
<1>2. execute_step
  <2>1. ~QuietStep
    BY <1>1 DEF QuietStep, set_breakpoint, delete_breakpoint, sigint, exit,
       instantiate_failed, start, no_context, dangling_line, undefined_step
  <2>2. ~UNCHANGED vars
    BY <1>1 DEF vars, session
  <2>3. ~\E answer \in {"Y", "n"} :
            \/ launch_refused(answer)
            \/ \E f \in Funcs : launch(f, answer) \/ launch_overflow(f, answer)
    BY <1>1 DEF launch_refused, launch, launch_overflow
  <2> QED BY <2>1, <2>2, <2>3, Kinds
<1>3. PICK out \in Outcome :
          /\ execute_instr_dbg(out)
          /\ IF out.sig \in {"Err", "HostErr"}
             THEN failed /\ clean' = FALSE /\ UNCHANGED shadow
             ELSE /\ after_step(heeded(signal(execute_inst, out)))
                  /\ shadow' = ShadowAfter(out)
                  /\ UNCHANGED clean
  BY <1>2 DEF execute_step
<1> DEFINE sig == heeded(signal(execute_inst, out))
<1>4. after_step(sig)
  BY <1>1, <1>3 DEF failed
<1>5. sig = "Next" => out.sig # "End" \/ (cmd.style = "out" /\ cmd.first)
  BY SignalFacts
<1> HIDE DEF sig
<1>6. sig = "Next" /\ ~loops
  BY <1>1, <1>4 DEF after_step, get_finish_result, step_done
<1> QED BY <1>2, <1>3, <1>5, <1>6

\* Where step-over and step-out stop.
LEMMA StopsAt ==
    ASSUME SessionInv, SessionInv', Stepping, [Next]_vars, Stopped("Next"),
           cmd.style \in {"over", "out"}
    PROVE  /\ cmd.style = "over" =>
                 \/ Len(frames') = Len(cmd.base) /\ Front(frames') = Front(cmd.base)
                 \/ frames' = Front(cmd.base)
           /\ cmd.style = "out" => frames' = Front(cmd.base)
<1> DEFINE b == cmd.base
<1>1. PICK out \in Outcome :
          /\ execute_instr_dbg(out) /\ ~loops
          /\ out.sig # "End" \/ (cmd.style = "out" /\ cmd.first)
  BY StoppedNext
<1>2. ui = "running" /\ ~Dangling /\ ip.pc \in Executable(ip.func)
  BY StoppedNext DEF execute_step
<1>3. /\ b \in Seq(Frame) /\ frames \in Seq(Frame)
      /\ Len(b) \in Nat /\ Len(frames) \in Nat
      /\ Len(b) <= Len(frames) /\ BelowBase
      /\ cmd.style = "over" =>
            \/ frames = b
            \/ b # <<>> /\ Len(b) < Len(frames)
  BY <1>2, SteppingFacts
<1>4. /\ cmd.style = "over" => ~(Len(b) < Len(frames'))
      /\ cmd.style = "out" => ~(Len(b) <= Len(frames'))
  BY <1>1 DEF loops
<1>5. frames' \in Seq(Frame) /\ Len(frames') \in Nat
  <2>1. frames' \in Seq(Frame)
    BY DEF SessionInv, ExecutorTyped
  <2> QED BY <2>1, EmptyFacts
<1>6. frames # <<>>
  <2> SUFFICES ASSUME frames = <<>> PROVE FALSE
    OBVIOUS
  <2>1. frames' = <<>> /\ out = Returned("End")
    BY <1>1, <1>2, StepFacts DEF execVars
  <2>2. cmd.style = "out"
    BY <1>1, <2>1 DEF Returned
  <2>3. Len(b) = 0 /\ Len(frames') = 0
    BY <1>3, <2>1
  <2> QED BY <1>4, <2>2, <2>3
<1>7. /\ SameCallers
      /\ \/ Len(frames') = Len(frames)
         \/ Len(frames') = Len(frames) - 1 /\ frames' = Front(frames)
         \/ Len(frames') = Len(frames) + 1
  BY <1>1, <1>2, <1>6, StepFacts, InstrFrames
<1>8. \A i \in 1 .. Len(b) - 1 : frames'[i] = b[i] /\ frames[i] = b[i]
  BY <1>3, <1>7, BelowStays DEF BelowBase
<1> HIDE DEF b
<1>9. ASSUME Len(frames') = Len(b) - 1 PROVE frames' = Front(b)
  <2>1. b # <<>>
    BY <1>3, <1>5, <1>9, EmptyFacts
  <2>2. \A i \in 1 .. Len(frames') : frames'[i] = b[i]
    BY <1>8, <1>9
  <2> QED BY <1>3, <1>5, <1>9, <2>1, <2>2, IsFront
<1>10. CASE cmd.style = "out"
  <2>1. Len(frames') = Len(b) - 1
    BY <1>3, <1>4, <1>5, <1>7, <1>10
  <2> QED BY <1>9, <1>10, <2>1 DEF b
<1>11. CASE cmd.style = "over"
  <2>1. Len(frames') = Len(b) - 1 \/ Len(frames') = Len(b)
    <3>1. CASE frames = b
      BY <3>1, <1>3, <1>4, <1>5, <1>7, <1>11
    <3>2. CASE Len(b) < Len(frames)
      BY <3>2, <1>3, <1>4, <1>5, <1>7, <1>11
    <3> QED BY <1>3, <1>11, <3>1, <3>2
  <2>2. CASE Len(frames') = Len(b)
    <3>1. b # <<>> /\ frames' # <<>>
      BY <1>3, <1>5, <1>6, <1>11, <2>2, EmptyFacts
    <3>2. \A i \in 1 .. Len(frames') - 1 : frames'[i] = b[i]
      BY <1>8, <2>2
    <3>3. Front(frames') = Front(b)
      BY <1>3, <1>5, <2>2, <3>1, <3>2, SameFront
    <3> QED BY <1>11, <2>2, <3>3 DEF b
  <2>3. CASE Len(frames') = Len(b) - 1
    BY <1>9, <1>11, <2>3 DEF b
  <2> QED BY <2>1, <2>2, <2>3
<1> QED BY <1>10, <1>11

\* The frames a step command compares with are still those it started with.
THEOREM SteppingInvariance == Spec => []Stepping
<1>1. Init => Stepping
  BY DEF Init, Stepping
<1> QED BY <1>1, SteppingNext, Invariance, PTL DEF Spec

\* step-over stops in the activation it started in or in its caller, although
\* it compares lengths only; the frames below are those that were there.
THEOREM StepOver == Spec => StepOverStays
<1>1. SessionInv /\ SessionInv' /\ Stepping /\ [Next]_vars =>
        [Stopped("Next") /\ cmd.style = "over" =>
            \/ Len(frames') = Len(cmd.base) /\ Front(frames') = Front(cmd.base)
            \/ frames' = Front(cmd.base)]_vars
  BY StopsAt
<1> QED BY <1>1, Invariance, SteppingInvariance, PTL DEF Spec, StepOverStays

\* step-out stops in the caller of the activation it started in.
THEOREM StepOut == Spec => StepOutReturns
<1>1. SessionInv /\ SessionInv' /\ Stepping /\ [Next]_vars =>
        [Stopped("Next") /\ cmd.style = "out" => frames' = Front(cmd.base)]_vars
  BY StopsAt
<1> QED BY <1>1, Invariance, SteppingInvariance, PTL DEF Spec, StepOutReturns

-----------------------------------------------------------------------------
(* Breakpoints.                                                            *)

\* A frame that is pushed while a command runs was reported as a call, and the
\* call of a function with a breakpoint stops the command.
LEMMA CallStops ==
    ASSUME ImportsAreHosts, SessionInv, [Next]_vars,
           ui = "running", cmd.by = "inst", ~(cmd.style = "out" /\ cmd.first),
           Len(frames') > Len(frames), Last(frames').func \in Broken
    PROVE  Stopped("Breakpoint")
<1>1. execute_step
  <2>1. QuietStep => frames' = frames
    BY QuietUnchanged DEF execVars
  <2>2. UNCHANGED vars => frames' = frames
    BY DEF vars, execVars
  <2>3. Len(frames) \in Nat
    BY SessionFacts, EmptyFacts
  <2>4. ~\E answer \in {"Y", "n"} :
            \/ launch_refused(answer)
            \/ \E f \in Funcs : launch(f, answer) \/ launch_overflow(f, answer)
    BY DEF launch_refused, launch, launch_overflow
  <2> QED BY <2>1, <2>2, <2>3, <2>4, Kinds
<1>2. ~Dangling /\ ip.pc \in Executable(ip.func)
  BY <1>1 DEF execute_step
<1>3. PICK out \in Outcome :
          /\ execute_instr_dbg(out)
          /\ IF out.sig \in {"Err", "HostErr"}
             THEN failed /\ clean' = FALSE /\ UNCHANGED shadow
             ELSE /\ after_step(heeded(signal(execute_inst, out)))
                  /\ shadow' = ShadowAfter(out)
                  /\ UNCHANGED clean
  BY <1>1 DEF execute_step
<1>4. ip.func \in Funcs /\ frames # <<>> /\ Ready /\ execute_instr(out)
  <2>1. frames = <<>> => frames' = frames
    BY <1>2, <1>3, StepFacts DEF execVars
  <2>2. Len(frames) \in Nat
    BY SessionFacts, EmptyFacts
  <2> QED BY <1>2, <1>3, <2>1, <2>2, StepFacts
<1>5. PICK f \in Funcs : Enters(f, out)
  <2>1. Len(frames) \in Nat
    BY SessionFacts, EmptyFacts
  <2> QED BY <1>4, <2>1, InstrFrames
<1>6. Last(frames').func = f /\ out = Called(f) /\ ~Instr.tail
      /\ f \in Instr.callees
  BY <1>5 DEF Enters
<1>7. Instr.op # "call_imported"
  <2>1. f \notin Hosts
    BY ExecutorAssumption
  <2> QED BY <1>2, <1>4, <1>6, <2>1 DEF ImportsAreHosts, Instr
<1>8. out.call = f /\ out.sig = "Next"
  BY <1>6, <1>7 DEF Called
<1>9. signal(execute_inst, out) = "Breakpoint"
  BY <1>6, <1>8 DEF signal
<1>10. heeded(signal(execute_inst, out)) = "Breakpoint"
  BY <1>9 DEF heeded
<1>11. after_step("Breakpoint")
  BY <1>3, <1>8, <1>10
<1> QED BY <1>11 DEF after_step, step_done, Stopped

\* A call of a function that has a breakpoint stops continue and every
\* instruction step, whatever the set of breakpoints was when it started.
THEOREM Breaks == ImportsAreHosts => (Spec => BreakpointStops)
<1>1. ASSUME ImportsAreHosts
      PROVE  SessionInv /\ [Next]_vars =>
               [(/\ ui = "running" /\ cmd.by = "inst"
                 /\ ~(cmd.style = "out" /\ cmd.first)
                 /\ Len(frames') > Len(frames)
                 /\ Last(frames').func \in Broken)
                => Stopped("Breakpoint")]_vars
  BY <1>1, CallStops
<1>2. ASSUME ImportsAreHosts PROVE Spec => BreakpointStops
  BY <1>1, <1>2, Invariance, PTL DEF Spec, BreakpointStops
<1> QED BY <1>2

-----------------------------------------------------------------------------
(* The executor until something fails.                                     *)

\* A launch finds the stacks in order or empty, and leaves them in order.
LEMMA LaunchOrder ==
    ASSUME SessionInv, OrderInv, NEW answer, NEW f \in Funcs, launch(f, answer)
    PROVE  OrderInv'
<1> DEFINE s == Stacks(answer)
           off == s.height + LenResults[f]
<1>1. /\ answer \in Answers
      /\ ip'.func = f /\ ip'.pc \in Executable(f)
      /\ frames' # <<>> /\ Last(frames').func = f
      /\ sp' = [off |-> Last(frames').off, cap |-> cap']
      /\ cache' = Cached(InstanceOf[f], pages')
      /\ \A base : /\ StackOK(s.frames, s.instances, s.height, base)
                   /\ s.frames = <<>> => base = off
                   => StackOK(frames', instances', height', base)
  BY LaunchShape
<1>2. ui' = "running" /\ (clean' => answer = "Y" \/ clean)
  BY DEF launch
<1> SUFFICES ASSUME clean' PROVE InOrder(frames[1].off)'
  BY <1>1, <1>2 DEF OrderInv
<1>3. \E base : /\ StackOK(s.frames, s.instances, s.height, base)
                /\ s.frames = <<>> => base = off
  <2>1. CASE s.frames = <<>> /\ s.instances = <<>>
    <3>1. StackOK(s.frames, s.instances, s.height, off)
      BY <2>1, EmptyOK
    <3> QED BY <3>1
  <2>2. CASE answer = "Y"
    BY <2>1, <2>2 DEF Stacks
  <2>3. CASE answer # "Y" /\ frames = <<>>
    <3>1. instances = <<>>
      BY <2>3, SessionFacts
    <3> QED BY <2>1, <2>3, <3>1 DEF Stacks
  <2>4. CASE answer # "Y" /\ frames # <<>>
    <3>1. clean /\ exec = "live"
      BY <1>2, <2>4, SessionFacts
    <3>2. StackOK(frames, instances, height, frames[1].off)
      BY <2>4, <3>1 DEF OrderInv, InOrder
    <3>3. s.frames = frames /\ s.instances = instances /\ s.height = height
      BY <2>4 DEF Stacks
    <3> HIDE DEF s, off
    <3> QED BY <2>4, <3>2, <3>3
  <2> QED BY <2>2, <2>3, <2>4
<1> HIDE DEF s, off
<1>4. PICK base : StackOK(frames', instances', height', base)
  BY <1>1, <1>3
<1>5. frames'[1].off = base
  BY <1>1, <1>4 DEF StackOK
<1> QED BY <1>1, <1>4, <1>5 DEF InOrder

\* A step that does not fail.
LEMMA StepOrder ==
    ASSUME TailHostsFail, ReturnsInOneWord, SessionInv, OrderInv, execute_step
    PROVE  OrderInv'
<1>1. /\ ui = "running" /\ ~Dangling /\ ip.pc \in Executable(ip.func)
      /\ exec' = exec
  BY DEF execute_step
<1>2. PICK out \in Outcome :
          /\ execute_instr_dbg(out)
          /\ IF out.sig \in {"Err", "HostErr"}
             THEN failed /\ clean' = FALSE /\ UNCHANGED shadow
             ELSE /\ after_step(heeded(signal(execute_inst, out)))
                  /\ shadow' = ShadowAfter(out)
                  /\ UNCHANGED clean
  BY DEF execute_step
<1> SUFFICES ASSUME clean' PROVE OrderInv'
  BY DEF OrderInv
<1>3. /\ after_step(heeded(signal(execute_inst, out))) /\ clean' = clean
      /\ out.sig \notin {"Err", "HostErr"}
  BY <1>2
<1>4. /\ exec = "live" /\ ip.func \in Funcs /\ Shaped'
      /\ frames # <<>> => Ready /\ execute_instr(out)
      /\ frames = <<>> => UNCHANGED execVars
      /\ out.sig = "End" => frames' = <<>>
  BY <1>1, <1>2, StepFacts
<1>5. ui' # "word"
  <2>1. heeded(signal(execute_inst, out)) = "End" => frames' = <<>>
    BY <1>4, SignalFacts
  <2>2. frames' \in Seq(Frame)
    BY <1>4 DEF Shaped, ExecutorTyped
  <2> QED BY <1>1, <1>3, <2>1, <2>2, AfterStep
<1>6. CASE frames = <<>>
  <2>1. frames' = <<>> /\ ip' = ip
    BY <1>4, <1>6 DEF execVars
  <2> QED BY <1>1, <1>5, <2>1 DEF OrderInv
<1>7. CASE frames # <<>>
  <2>0. PICK base : base = frames[1].off
    OBVIOUS
  <2>1. InOrder(base)
    BY <1>3, <1>4, <1>7, <2>0 DEF OrderInv
  <2>2. Kept(out, base)
    BY <1>4, <1>7, <2>1, InstrOK
  <2>3. CASE out.sig = "Next"
    <3>2. /\ frames' # <<>> /\ StackOK(frames', instances', height', base)
          /\ ip'.func = Last(frames').func /\ ip'.pc \in Executable(ip'.func)
          /\ sp' = [off |-> Last(frames').off, cap |-> cap']
          /\ cache' = Cached(InstanceOf[ip'.func], pages')
      BY <2>2, <2>3 DEF Kept, InOrder
    <3>3. frames'[1].off = base
      BY <3>2 DEF StackOK
    <3> QED BY <1>5, <3>2, <3>3 DEF OrderInv, InOrder
  <2>4. CASE out.sig = "End"
    <3>1. Returns(out)
      BY <1>4, <1>7, <2>4, InstrEffect
         DEF Stays, Overflows, Vacates, Enters, Replaces, Called
    <3>2. Instr.words = 0
      BY <1>1, <1>4, <3>1 DEF Returns, ReturnsInOneWord, Instr
    <3>3. ip' = ip
      BY <2>4, <3>1, <3>2 DEF Returns, Returned
    <3> QED BY <1>1, <1>4, <1>5, <2>4, <3>3 DEF OrderInv
  <2>5. out.sig \in {"Next", "End"}
    BY <1>3 DEF Outcome, Done, Returned, Called
  <2> QED BY <2>3, <2>4, <2>5
<1> QED BY <1>6, <1>7

\* Every step keeps the executor in order, or fails.
LEMMA OrderNext ==
    ASSUME TailHostsFail, ReturnsInOneWord, SessionInv, OrderInv, [Next]_vars
    PROVE  OrderInv'
<1>1. CASE execute_step
  BY <1>1, StepOrder
<1>2. CASE UNCHANGED vars
  BY <1>2 DEF vars, session, execVars, OrderInv, InOrder
<1>3. CASE QuietStep
  <2>1. UNCHANGED <<exec, clean, execVars>>
    BY <1>3, QuietUnchanged
  <2>2. clean => ui' # "word"
    <3>1. CASE undefined_step
      <4>1. clean /\ ui' = "word" => ip.pc \notin Executable(ip.func) /\ exec = "live"
        BY <3>1, SessionFacts DEF undefined_step, Dangling
      <4> QED BY <4>1 DEF OrderInv
    <3>2. CASE ~undefined_step
      BY <1>3, <3>2 DEF OrderInv, QuietStep, set_breakpoint, delete_breakpoint, sigint,
         exit, instantiate_failed, start, no_context, dangling_line, failed
    <3> QED BY <3>1, <3>2
  <2> QED BY <2>1, <2>2 DEF OrderInv, InOrder, execVars
<1>4. CASE \E answer \in {"Y", "n"}, f \in Funcs : launch(f, answer)
  BY <1>4, LaunchOrder
<1>5. CASE \E answer \in {"Y", "n"}, f \in Funcs : launch_overflow(f, answer)
  BY <1>5 DEF launch_overflow, OrderInv
<1>6. CASE \E answer \in {"Y", "n"} : launch_refused(answer)
  <2>1. PICK answer \in {"Y", "n"} : launch_refused(answer)
    BY <1>6
  <2>2. /\ exec' = ExecutorAfter(answer) /\ clean' = clean /\ ui' = "prompt"
        /\ ip' = ip /\ sp' = sp /\ cache' = cache
    BY <2>1 DEF launch_refused, failed
  <2>3. CASE answer = "Y"
    <3>1. exec' # "live"
      BY <2>2, <2>3 DEF ExecutorAfter
    <3> QED BY <2>2, <3>1 DEF OrderInv
  <2>4. CASE answer # "Y"
    <3>1. /\ exec' = exec /\ frames' = frames /\ instances' = instances
          /\ height' = height /\ cap' = cap /\ pages' = pages
      BY <2>1, <2>2, <2>4 DEF launch_refused, Stacks, ExecutorAfter
    <3> QED BY <2>2, <3>1 DEF OrderInv, InOrder
  <2> QED BY <2>3, <2>4
<1> QED BY <1>1, <1>2, <1>3, <1>4, <1>5, <1>6, Kinds

\* The stacks stay in order until a command fails.
THEOREM OrderInvariance ==
    TailHostsFail /\ ReturnsInOneWord => (Spec => []OrderInv)
<1>1. Init => OrderInv
  BY DEF Init, OrderInv
<1>2. ASSUME TailHostsFail, ReturnsInOneWord
      PROVE  SessionInv /\ OrderInv /\ [Next]_vars => OrderInv'
  BY <1>2, OrderNext
<1>3. ASSUME TailHostsFail, ReturnsInOneWord PROVE Spec => []OrderInv
  BY <1>1, <1>2, <1>3, Invariance, PTL DEF Spec
<1> QED BY <1>3

\* What the debugger steps is the newest frame, in its registers and with its
\* memory, whatever mix of steps, launches and restarts led there.
THEOREM HealthyUntilFailure ==
    TailHostsFail /\ ReturnsInOneWord => (Spec => []Healthy)
<1>1. OrderInv => Healthy
  BY DEF OrderInv, InOrder, Healthy
<1> QED BY <1>1, OrderInvariance, PTL

-----------------------------------------------------------------------------
(* The shadow stack.                                                       *)

\* The functions of fs, place by place, at the end of sh.
Ends(fs, sh) ==
    /\ Len(fs) <= Len(sh)
    /\ \A i \in 1 .. Len(fs) : fs[i].func = sh[Len(sh) - Len(fs) + i]

\* Reversing a sequence.
LEMMA ReverseFacts ==
    ASSUME NEW S, NEW s \in Seq(S)
    PROVE  /\ Reverse(s) \in Seq(S) /\ Len(Reverse(s)) = Len(s)
           /\ \A i \in 1 .. Len(s) : Reverse(s)[i] = s[Len(s) - i + 1]
<1>1. Len(s) \in Nat
  BY EmptyFacts
<1>2. Reverse(s) = [i \in 1 .. Len(s) |-> s[(Len(s) - i) + 1]]
  BY DEF Reverse
<1>3. \A i \in 1 .. Len(s) : (Len(s) - i) + 1 \in 1 .. Len(s)
  BY <1>1
<1>4. \A i \in 1 .. Len(s) : s[(Len(s) - i) + 1] \in S
  BY <1>3
<1>5. Reverse(s) \in [1 .. Len(s) -> S]
  BY <1>2, <1>4
<1> QED BY <1>1, <1>2, <1>5

\* Ends is what IsSuffix of the community modules says.
LEMMA EndsSuffix ==
    ASSUME NEW fs \in Seq(Frame), NEW sh \in Seq(Funcs \cup Hosts), Ends(fs, sh)
    PROVE  IsSuffix([i \in 1 .. Len(fs) |-> fs[i].func], sh)
<1> DEFINE s == [i \in 1 .. Len(fs) |-> fs[i].func]
           n == Len(fs)
           m == Len(sh)
           a == Reverse(s)
           b == Reverse(sh)
           S == Funcs \cup Hosts
<1>1. n \in Nat /\ m \in Nat /\ n <= m
  BY EmptyFacts DEF Ends
<1>2. \A i \in 1 .. n : fs[i].func \in S
  <2>1. \A i \in 1 .. n : fs[i] \in Frame
    OBVIOUS
  <2>2. \A fr \in Frame : fr.func \in S
    BY DEF Frame
  <2> QED BY <2>1, <2>2
<1>3. s \in [1 .. n -> S]
  BY <1>2
<1>4. s \in Seq(S) /\ Len(s) = n
  BY <1>1, <1>3
<1>5. \A i \in 1 .. n : s[i] = sh[m - n + i]
  BY DEF Ends
<1> HIDE DEF s, S, n, m
<1>6. /\ a \in Seq(S) /\ Len(a) = n
      /\ \A i \in 1 .. n : a[i] = s[n - i + 1]
  BY <1>4, ReverseFacts
<1>7. /\ b \in Seq(S) /\ Len(b) = m
      /\ \A i \in 1 .. m : b[i] = sh[m - i + 1]
  <2>1. sh \in Seq(S) /\ Len(sh) = m
    BY DEF S, m
  <2> QED BY <2>1, ReverseFacts
<1> HIDE DEF a, b
<1>8. \A i \in 1 .. n : a[i] = b[i]
  <2> TAKE i \in 1 .. n
  <2>1. n - i + 1 \in 1 .. n /\ i \in 1 .. m /\ m - n + (n - i + 1) = m - i + 1
    BY <1>1
  <2>2. s[n - i + 1] = sh[m - n + (n - i + 1)]
    BY <1>5, <2>1
  <2> QED BY <1>6, <1>7, <2>1, <2>2
<1>9. SubSeq(a, 1, n) = SubSeq(b, 1, n)
  <2>1. /\ SubSeq(a, 1, n) \in Seq(S) /\ Len(SubSeq(a, 1, n)) = n
        /\ \A i \in 1 .. n : SubSeq(a, 1, n)[i] = a[i]
    BY <1>1, <1>6
  <2>2. /\ SubSeq(b, 1, n) \in Seq(S) /\ Len(SubSeq(b, 1, n)) = n
        /\ \A i \in 1 .. n : SubSeq(b, 1, n)[i] = b[i]
    BY <1>1, <1>7
  <2> QED BY <1>8, <2>1, <2>2, SeqEqual
<1>10. IsPrefix(a, b)
  BY <1>1, <1>6, <1>7, <1>9 DEF IsPrefix
<1> QED BY <1>10 DEF IsSuffix, a, b, s

\* A call is traced.
LEMMA EndsPush ==
    ASSUME NEW fs \in Seq(Frame), NEW sh \in Seq(Funcs \cup Hosts), Ends(fs, sh),
           NEW f \in Funcs, NEW gs \in Seq(Frame), Len(gs) = Len(fs) + 1,
           \A i \in 1 .. Len(fs) : gs[i].func = fs[i].func, Last(gs).func = f
    PROVE  Ends(gs, Append(sh, f))
<1> DEFINE th == Append(sh, f)
<1>1. Len(fs) \in Nat /\ Len(sh) \in Nat /\ Len(fs) <= Len(sh)
  BY EmptyFacts DEF Ends
<1>2. /\ Len(th) = Len(sh) + 1 /\ th[Len(sh) + 1] = f
      /\ \A i \in 1 .. Len(sh) : th[i] = sh[i]
  BY AppendFacts
<1>3. Last(gs) = gs[Len(gs)]
  <2>1. gs # <<>>
    BY <1>1, EmptyFacts
  <2> QED BY <2>1, FrontFacts
<1> HIDE DEF th
<1>4. Len(gs) <= Len(th)
  BY <1>1, <1>2
<1>5. ASSUME NEW i \in 1 .. Len(gs) PROVE gs[i].func = th[Len(th) - Len(gs) + i]
  <2>1. CASE i = Len(gs)
    <3>1. Len(th) - Len(gs) + i = Len(sh) + 1
      BY <1>1, <1>2, <2>1
    <3> QED BY <1>2, <1>3, <2>1, <3>1
  <2>2. CASE i # Len(gs)
    <3>1. /\ i \in 1 .. Len(fs)
          /\ Len(th) - Len(gs) + i = Len(sh) - Len(fs) + i
          /\ Len(sh) - Len(fs) + i \in 1 .. Len(sh)
      BY <1>1, <1>2, <2>2
    <3>2. fs[i].func = sh[Len(sh) - Len(fs) + i]
      BY <3>1 DEF Ends
    <3> QED BY <1>2, <3>1, <3>2
  <2> QED BY <2>1, <2>2
<1>6. Ends(gs, th)
  BY <1>4, <1>5 DEF Ends
<1> QED BY <1>6 DEF th

\* A return is traced.
LEMMA EndsPop ==
    ASSUME NEW fs \in Seq(Frame), NEW sh \in Seq(Funcs \cup Hosts), Ends(fs, sh),
           fs # <<>>
    PROVE  sh # <<>> /\ Ends(Front(fs), Front(sh))
<1>1. Len(fs) \in Nat \ {0} /\ Len(sh) \in Nat /\ Len(fs) <= Len(sh)
  BY EmptyFacts DEF Ends
<1>2. sh # <<>>
  BY <1>1, EmptyFacts
<1> DEFINE gs == Front(fs)
           th == Front(sh)
<1>3. Len(gs) = Len(fs) - 1 /\ \A i \in 1 .. Len(fs) - 1 : gs[i] = fs[i]
  BY FrontFacts
<1>4. Len(th) = Len(sh) - 1 /\ \A i \in 1 .. Len(sh) - 1 : th[i] = sh[i]
  BY <1>2, FrontFacts
<1> HIDE DEF gs, th
<1>5. ASSUME NEW i \in 1 .. Len(gs) PROVE gs[i].func = th[Len(th) - Len(gs) + i]
  <2>1. /\ i \in 1 .. Len(fs) - 1 /\ i \in 1 .. Len(fs)
        /\ Len(th) - Len(gs) + i = Len(sh) - Len(fs) + i
        /\ Len(sh) - Len(fs) + i \in 1 .. Len(sh) - 1
    BY <1>1, <1>3, <1>4
  <2>2. fs[i].func = sh[Len(sh) - Len(fs) + i]
    BY <2>1 DEF Ends
  <2> QED BY <1>3, <1>4, <2>1, <2>2
<1>6. Len(gs) <= Len(th)
  BY <1>1, <1>3, <1>4
<1>7. Ends(gs, th)
  BY <1>5, <1>6 DEF Ends
<1> QED BY <1>2, <1>7 DEF gs, th

\* Frames of the same functions have the same trace.
LEMMA EndsSame ==
    ASSUME NEW fs \in Seq(Frame), NEW gs \in Seq(Frame), NEW sh, Ends(fs, sh),
           fs # <<>>, Len(gs) = Len(fs),
           \A i \in 1 .. Len(fs) - 1 : gs[i] = fs[i], Last(gs).func = Last(fs).func
    PROVE  Ends(gs, sh)
<1>1. Len(fs) \in Nat \ {0} /\ Last(fs) = fs[Len(fs)]
  BY FrontFacts
<1>2. Last(gs) = gs[Len(fs)]
  <2>1. gs # <<>>
    BY <1>1, EmptyFacts
  <2> QED BY <2>1, FrontFacts
<1>3. \A i \in 1 .. Len(fs) : gs[i].func = fs[i].func
  <2> TAKE i \in 1 .. Len(fs)
  <2>1. CASE i = Len(fs)
    BY <1>1, <1>2, <2>1
  <2>2. CASE i # Len(fs)
    <3>1. i \in 1 .. Len(fs) - 1
      BY <1>1, <2>2
    <3> QED BY <3>1
  <2> QED BY <2>1, <2>2
<1> QED BY <1>3 DEF Ends

\* No frame, no claim.
LEMMA EndsEmpty ==
    ASSUME NEW sh \in Seq(Funcs \cup Hosts)
    PROVE  Ends(<<>>, sh)
<1>1. Len(sh) \in Nat /\ Len(<<>>) = 0
  BY EmptyFacts
<1> QED BY <1>1 DEF Ends

\* execute_step and the shadow stack: invoke_func and pop_frame are called for
\* the calls and returns that change the frames, and for no other.
LEMMA StepTrace ==
    ASSUME ImportsAreHosts, Followed, SessionInv, SessionInv', TraceInv, execute_step
    PROVE  TraceInv'
<1>1. ui = "running" /\ ~Dangling /\ ip.pc \in Executable(ip.func)
  BY DEF execute_step
<1>2. PICK out \in Outcome :
          /\ execute_instr_dbg(out)
          /\ IF out.sig \in {"Err", "HostErr"}
             THEN failed /\ clean' = FALSE /\ UNCHANGED shadow
             ELSE /\ after_step(heeded(signal(execute_inst, out)))
                  /\ shadow' = ShadowAfter(out)
                  /\ UNCHANGED clean
  BY DEF execute_step
<1>3. /\ ip.func \in Funcs
      /\ frames # <<>> => Ready /\ execute_instr(out)
      /\ frames = <<>> => UNCHANGED execVars
  BY <1>1, <1>2, StepFacts
<1>4. /\ frames \in Seq(Frame) /\ shadow \in Seq(Funcs \cup Hosts)
      /\ Ends(frames, shadow)
  BY SessionFacts DEF TraceInv, Ends
<1>5. frames' \in Seq(Frame) /\ shadow' \in Seq(Funcs \cup Hosts)
  BY DEF SessionInv, TypeOK, ExecutorTyped
<1>6. /\ Instr.op \in CallOps => ~Instr.tail
      /\ Instr.op = "call_indirect" => Instr.callees \cap Hosts = {}
      /\ Instr.op = "call_imported" => Instr.callees \subseteq Hosts
      /\ Instr.op # "return_nez"
  BY <1>1, <1>3 DEF Followed, ImportsAreHosts, Instr
<1>7. Funcs \cap Hosts = {} /\ Null \notin Funcs \cup Hosts
  BY ExecutorAssumption
<1> SUFFICES Ends(frames', shadow')
  BY DEF TraceInv, Ends
<1>8. CASE frames = <<>>
  BY <1>3, <1>5, <1>8, EndsEmpty DEF execVars
<1>9. CASE frames # <<>> /\ (Stays(out) \/ Overflows(out))
  <2>1. /\ Len(frames') = Len(frames) /\ Last(frames').func = Last(frames).func
        /\ \A i \in 1 .. Len(frames) - 1 : frames'[i] = frames[i]
    BY <1>9 DEF Stays, Overflows, SameCallers
  <2>2. shadow' = shadow
    <3>1. CASE out.sig \in {"Err", "HostErr"}
      BY <1>2, <3>1
    <3>2. CASE out.sig \notin {"Err", "HostErr"}
      <4>1. Stays(out)
        BY <1>9, <3>2 DEF Overflows
      <4>2. ~out.pop
        BY <1>6, <4>1 DEF Stays
      <4>3. out.call = Null
        <5>1. CASE Instr.op \in CallOps /\ \E h \in Instr.callees \cap Hosts : out = Called(h)
          <6>1. Instr.op # "call"
            BY <1>3, <1>7, <1>9, <5>1, ReadyFacts DEF WellFormed, Instr
          <6>2. Instr.op = "call_imported"
            BY <1>6, <5>1, <6>1 DEF CallOps
          <6> QED BY <5>1, <6>2 DEF Called
        <5> QED BY <4>1, <5>1 DEF Stays
      <4>4. ShadowAfter(out) = shadow
        BY <4>2, <4>3 DEF ShadowAfter
      <4> QED BY <1>2, <3>2, <4>4
    <3> QED BY <3>1, <3>2
  <2>3. Ends(frames', shadow)
    BY <1>4, <1>5, <1>9, <2>1, EndsSame
  <2> QED BY <2>2, <2>3
<1>10. CASE frames # <<>> /\ Returns(out)
  <2>1. frames' = Front(frames)
        /\ out.pop /\ out.call = Null /\ out.sig \in {"Next", "End"}
    BY <1>10 DEF Returns, Returned
  <2>2. shadow # <<>> /\ Ends(Front(frames), Front(shadow))
    BY <1>4, <1>10, EndsPop
  <2>3. shadow' = Front(shadow)
    <3>1. ShadowAfter(out) = Front(shadow)
      BY <2>1, <2>2 DEF ShadowAfter
    <3> QED BY <1>2, <2>1, <3>1
  <2> QED BY <2>1, <2>2, <2>3
<1>11. CASE frames # <<>> /\ \E f \in Funcs : Enters(f, out)
  <2>1. PICK f \in Funcs : Enters(f, out)
    BY <1>11
  <2>2. /\ Len(frames') = Len(frames) + 1 /\ SameCallers
        /\ frames'[Len(frames)].func = Last(frames).func
        /\ Last(frames').func = f /\ out = Called(f)
        /\ ~Instr.tail /\ f \in Instr.callees
    BY <2>1 DEF Enters
  <2>3. out.call = f /\ ~out.pop /\ out.sig = "Next" /\ f # Null
    BY <1>6, <1>7, <2>2 DEF Called
  <2>4. shadow' = Append(shadow, f)
    <3>1. ShadowAfter(out) = Append(shadow, f)
      BY <2>3 DEF ShadowAfter
    <3> QED BY <1>2, <2>3, <3>1
  <2>5. \A i \in 1 .. Len(frames) : frames'[i].func = frames[i].func
    <3>1. Len(frames) \in Nat \ {0} /\ Last(frames) = frames[Len(frames)]
      BY <1>4, <1>11, FrontFacts
    <3> TAKE i \in 1 .. Len(frames)
    <3>2. CASE i = Len(frames)
      BY <2>2, <3>1, <3>2
    <3>3. CASE i # Len(frames)
      <4>1. i \in 1 .. Len(frames) - 1
        BY <3>1, <3>3
      <4> QED BY <2>2, <4>1 DEF SameCallers
    <3> QED BY <3>2, <3>3
  <2>6. Ends(frames', Append(shadow, f))
    BY <1>4, <1>5, <2>2, <2>5, EndsPush
  <2> QED BY <2>4, <2>6
<1>12. CASE frames # <<>> /\ (Vacates(out) \/ \E f \in Funcs : Replaces(f, out))
  BY <1>6, <1>12 DEF Vacates, Replaces
<1> QED BY <1>3, <1>8, <1>9, <1>10, <1>11, <1>12, InstrEffect

\* A launch traces its root function.
LEMMA LaunchTrace ==
    ASSUME SessionInv, SessionInv', TraceInv, NEW answer, NEW f \in Funcs,
           launch(f, answer)
    PROVE  TraceInv'
<1> DEFINE s == Stacks(answer)
           off == s.height + LenResults[f]
<1>1. /\ answer \in Answers /\ shadow' = Append(shadow, f)
      /\ push(s.frames, s.instances, f, off, InstanceOf[f])
  BY DEF launch, RootTraced
<1>2. PICK ch \in BOOLEAN : frames' = Append(s.frames, NewFrame(f, off, ch))
  BY <1>1 DEF push, NewFrame
<1>3. s.frames \in Seq(Frame) /\ s.height \in Nat
  BY <1>1, StacksFacts
<1>4. off \in Nat
  BY <1>3, DebugSessionAssumption
<1> DEFINE fr == NewFrame(f, off, ch)
<1>5. fr \in Frame /\ fr.func = f
  BY <1>4, PushFrame
<1>6. Ends(s.frames, shadow) /\ shadow \in Seq(Funcs \cup Hosts)
  <2>1. shadow \in Seq(Funcs \cup Hosts) /\ Ends(frames, shadow)
    BY SessionFacts DEF TraceInv, Ends
  <2>2. s.frames \in {<<>>, frames}
    BY DEF Stacks
  <2> QED BY <2>1, <2>2, EndsEmpty
<1> HIDE DEF s, off, fr
<1>7. frames' = Append(s.frames, fr)
  BY <1>2 DEF fr
<1>8. /\ frames' \in Seq(Frame) /\ Len(frames') = Len(s.frames) + 1
      /\ \A i \in 1 .. Len(s.frames) : frames'[i] = s.frames[i]
      /\ Last(frames') = fr
  BY <1>3, <1>5, <1>7, AppendFacts
<1>9. Ends(frames', Append(shadow, f))
  BY <1>3, <1>5, <1>6, <1>8, EndsPush
<1> QED BY <1>1, <1>9 DEF TraceInv, Ends

\* Every step keeps the shadow stack with the frames.
LEMMA TraceNext ==
    ASSUME ImportsAreHosts, Followed, SessionInv, SessionInv', TraceInv, [Next]_vars
    PROVE  TraceInv'
<1>1. CASE execute_step
  BY <1>1, StepTrace
<1>2. CASE UNCHANGED vars \/ QuietStep
  <2>1. frames' = frames /\ shadow' = shadow
    BY <1>2, QuietUnchanged DEF vars, session, execVars
  <2> QED BY <2>1 DEF TraceInv
<1>3. CASE \E answer \in {"Y", "n"}, f \in Funcs : launch(f, answer)
  BY <1>3, LaunchTrace
<1>4. CASE \E answer \in {"Y", "n"} :
              launch_refused(answer) \/ \E f \in Funcs : launch_overflow(f, answer)
  <2>1. PICK answer : /\ frames' = Stacks(answer).frames /\ shadow' = shadow
    BY <1>4 DEF launch_refused, launch_overflow
  <2>2. Stacks(answer).frames \in {<<>>, frames}
    BY DEF Stacks
  <2>3. shadow \in Seq(Funcs \cup Hosts) /\ Ends(frames, shadow)
    BY SessionFacts DEF TraceInv, Ends
  <2>4. Ends(frames', shadow')
    BY <2>1, <2>2, <2>3, EndsEmpty
  <2> QED BY <2>4 DEF TraceInv, Ends
<1> QED BY <1>1, <1>2, <1>3, <1>4, Kinds

\* thread backtrace shows the functions of the frames, for the programs whose
\* calls and returns the shadow stack can follow.
THEOREM BacktraceFollows == ImportsAreHosts /\ Followed => (Spec => []Backtrace)
<1>1. Init => TraceInv
  <2> SUFFICES ASSUME Init PROVE TraceInv
    OBVIOUS
  <2>1. frames = <<>> /\ shadow = <<>> /\ <<>> \in Seq(Funcs \cup Hosts)
    BY DEF Init
  <2> QED BY <2>1, EndsEmpty DEF TraceInv, Ends
<1>2. ASSUME ImportsAreHosts, Followed
      PROVE  SessionInv /\ SessionInv' /\ TraceInv /\ [Next]_vars => TraceInv'
  BY <1>2, TraceNext
<1>3. SessionInv /\ TraceInv => Backtrace
  <2> SUFFICES ASSUME SessionInv, TraceInv PROVE Backtrace
    OBVIOUS
  <2>1. /\ frames \in Seq(Frame) /\ shadow \in Seq(Funcs \cup Hosts)
        /\ Ends(frames, shadow)
    BY SessionFacts DEF TraceInv, Ends
  <2> QED BY <2>1, EndsSuffix DEF Backtrace
<1>4. ASSUME ImportsAreHosts, Followed PROVE Spec => []Backtrace
  BY <1>1, <1>2, <1>3, <1>4, Invariance, PTL DEF Spec
<1> QED BY <1>4

-----------------------------------------------------------------------------
(* The table of breakpoints: deleting by the ids that list printed, for    *)
(* any number of breakpoints.                                              *)

\* The iteration order of a map is a sequence of its keys, and the one printed last
\* unless a function was inserted or removed since.
TableInv ==
    /\ function_map \in Seq(FunctionNames) /\ inst_map \in Seq(Addresses)
    /\ current \in BOOLEAN /\ current => printed = function_map

-----------------------------------------------------------------------------

\* The keys of a map are finitely many.
LEMMA FiniteRange == ASSUME NEW S, NEW s \in Seq(S) PROVE IsFiniteSet(Range(s))
  <1>1. IsFiniteSet(1 .. Len(s)) BY FS_Interval
  <1>2. s \in Surjection(1 .. Len(s), Range(s)) BY DEF Surjection, Range
  <1> QED BY <1>1, <1>2, FS_Surjection

\* Any order of finitely many keys is a sequence that names them all.
LEMMA OrderTyped ==
    ASSUME NEW S, NEW keys \in SUBSET S, IsFiniteSet(keys), NEW order \in Orders(keys)
    PROVE  order \in Seq(S) /\ Range(order) = keys
  <1>1. PICK n \in Nat : n = Cardinality(keys) BY FS_CardinalityType
  <1>2. order \in [1 .. n -> keys] /\ Range(order) = keys BY <1>1 DEF Orders
  <1>3. order \in [1 .. n -> S] BY <1>2
  <1> QED BY <1>2, <1>3

\* Inserting a key.
LEMMA InsertedOrder ==
    ASSUME NEW S, NEW map \in Seq(S), NEW key \in S, NEW order \in Inserted(map, key)
    PROVE  order \in Seq(S)
  <1>1. PICK keys : keys = Range(map) \cup {key} OBVIOUS
  <1>2. keys \in SUBSET S BY <1>1 DEF Range
  <1>3. IsFiniteSet(keys) BY <1>1, FiniteRange, FS_AddElement
  <1> QED BY <1>1, <1>2, <1>3, OrderTyped DEF Inserted

\* Removing a key removes it alone.
LEMMA RemovedOrder ==
    ASSUME NEW S, NEW map \in Seq(S), NEW key \in S, NEW order \in Removed(map, key)
    PROVE  order \in Seq(S) /\ Range(order) = Range(map) \ {key}
  <1>1. PICK keys : keys = Range(map) \ {key} OBVIOUS
  <1>2. keys \in SUBSET S BY <1>1 DEF Range
  <1>3. IsFiniteSet(keys) BY <1>1, FiniteRange, FS_Subset
  <1> QED BY <1>1, <1>2, <1>3, OrderTyped DEF Removed

-----------------------------------------------------------------------------

\* An id is a number.
LEMMA IdTyped == ASSUME NEW id \in Ids PROVE id \in Nat
  <1>1. Cardinality(FunctionNames) \in Nat /\ Cardinality(Addresses) \in Nat
    BY NamesAssumption, FS_CardinalityType
  <1> QED BY <1>1 DEF Ids

\* Every command keeps the table in order.
LEMMA TableStep == ASSUME TableInv, [TableNext]_tableVars PROVE TableInv'
  <1> USE DEF TableInv
  <1>1. CASE UNCHANGED tableVars BY <1>1 DEF tableVars
  <1>2. ASSUME NEW name \in FunctionNames, insert_function(name) PROVE TableInv'
    <2>1. PICK order : order = function_map' OBVIOUS
    <2>2. order \in Inserted(function_map, name) BY <1>2, <2>1 DEF insert_function
    <2>3. order \in Seq(FunctionNames) BY <2>2, InsertedOrder
    <2>4. current' = FALSE /\ inst_map' = inst_map BY <1>2 DEF insert_function
    <2> QED BY <2>1, <2>3, <2>4
  <1>3. ASSUME NEW address \in Addresses, insert_instruction(address) PROVE TableInv'
    <2>1. PICK order : order = inst_map' OBVIOUS
    <2>2. order \in Inserted(inst_map, address) /\ UNCHANGED <<function_map, printed, current>>
      BY <1>3, <2>1 DEF insert_instruction
    <2>3. order \in Seq(Addresses) BY <2>2, InsertedOrder
    <2> QED BY <2>1, <2>2, <2>3
  <1>4. CASE list_breakpoints BY <1>4 DEF list_breakpoints
  <1>5. ASSUME NEW id \in Ids, delete(id) PROVE TableInv'
    <2>0. id \in Nat BY IdTyped
    <2>1. CASE UNCHANGED <<function_map, inst_map, printed, current>> BY <2>1
    <2>2. CASE /\ id < Len(function_map)
               /\ function_map' \in Removed(function_map, function_map[id + 1])
               /\ current' = FALSE /\ UNCHANGED <<inst_map, printed>>
      <3>1. function_map[id + 1] \in FunctionNames BY <2>0, <2>2
      <3>2. PICK order : order = function_map' OBVIOUS
      <3>3. order \in Seq(FunctionNames) BY <2>2, <3>1, <3>2, RemovedOrder
      <3> QED BY <2>2, <3>2, <3>3
    <2>3. CASE /\ id >= Len(function_map) /\ id < Len(function_map) + Len(inst_map)
               /\ inst_map' \in Removed(inst_map, inst_map[id - Len(function_map) + 1])
               /\ UNCHANGED <<function_map, printed, current>>
      <3>1. inst_map[id - Len(function_map) + 1] \in Addresses BY <2>0, <2>3
      <3>2. PICK order : order = inst_map' OBVIOUS
      <3>3. order \in Seq(Addresses) BY <2>3, <3>1, <3>2, RemovedOrder
      <3> QED BY <2>3, <3>2, <3>3
    <2> QED BY <1>5, <2>1, <2>2, <2>3, Zenon DEF delete
  <1> QED BY <1>1, <1>2, <1>3, <1>4, <1>5 DEF TableNext

\* The order the user saw is the order the ids are counted in, until a breakpoint
\* on a function is set, set again or deleted.
THEOREM TableInvariance == TableSpec => []TableInv
  <1>1. TableInit => TableInv BY DEF TableInit, TableInv
  <1>2. TableInv /\ [TableNext]_tableVars => TableInv' BY TableStep
  <1> QED BY <1>1, <1>2, PTL DEF TableSpec

\* Deleting by an id that list printed deletes that breakpoint and no other, whatever
\* order the maps iterate in, until a breakpoint on a function is set, set again or
\* deleted.
THEOREM DeletesListed == TableSpec => DeletesWhatWasListed
  <1> DEFINE Listed ==
        \A id \in Ids : (current /\ id < Len(printed) /\ delete(id)) =>
            /\ Range(function_map') = Range(function_map) \ {printed[id + 1]}
            /\ outcome' = "Ok" /\ inst_map' = inst_map
  <1>1. TableInv /\ [TableNext]_tableVars => [Listed]_tableVars
    <2> SUFFICES ASSUME TableInv, NEW id \in Ids, current, id < Len(printed), delete(id)
                 PROVE  /\ Range(function_map') = Range(function_map) \ {printed[id + 1]}
                        /\ outcome' = "Ok" /\ inst_map' = inst_map
      OBVIOUS
    <2>1. id \in Nat /\ printed = function_map /\ id < Len(function_map)
      BY IdTyped DEF TableInv
    <2>2. Len(function_map) \in Nat /\ Len(inst_map) \in Nat BY DEF TableInv
    <2>3. ~(id >= Len(function_map) + Len(inst_map)) /\ ~(id >= Len(function_map)) BY <2>1, <2>2
    <2>4. /\ function_map' \in Removed(function_map, function_map[id + 1])
          /\ outcome' = "Ok" /\ inst_map' = inst_map
      BY <2>3, Zenon DEF delete
    <2>5. function_map[id + 1] \in FunctionNames BY <2>1, <2>2 DEF TableInv
    <2>6. Range(function_map') = Range(function_map) \ {function_map[id + 1]}
      BY <2>4, <2>5, RemovedOrder DEF TableInv
    <2> QED BY <2>1, <2>4, <2>6
  <1> QED BY <1>1, TableInvariance, PTL DEF TableSpec, DeletesWhatWasListed
=============================================================================

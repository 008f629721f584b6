----------------------- MODULE EngineExecutor_proofs -----------------------
(***************************************************************************)
(* Proofs about EngineExecutor, for every program, every stack limit and   *)
(* every number of functions, instances and pages.                         *)
(*                                                                         *)
(* What an instruction keeps is InstrOK of Executor_proofs; the lemmas     *)
(* here add the steps of the embedder (a root call, resume_func, a dropped *)
(* invocation).  Invariance puts them together, the theorems after it read *)
(* the properties off IInv, and Refinement shows step by step that the     *)
(* engine implements WasmCalls.                                            *)
(***************************************************************************)
EXTENDS EngineExecutor, Executor_proofs

-----------------------------------------------------------------------------
(* The steps of the embedder.                                              *)

\* Pushing the root frame on a stack that was reset.
LEMMA RootPush ==
    ASSUME NEW f \in Funcs, NEW h2 \in Nat, LenResults + Regs[f] <= h2,
           push(<<>>, <<>>, f, LenResults, InstanceOf[f])
    PROVE  /\ frames' = <<NewFrame(f, LenResults, TRUE)>>
           /\ frames' \in Seq(Frame) /\ frames' # <<>>
           /\ Last(frames').func = f /\ Last(frames').off = LenResults
           /\ instances' \in Seq(Inst)
           /\ StackShape(frames', instances', h2)
           /\ StackOK(frames', instances', h2, LenResults)
<1> DEFINE inst == InstanceOf[f]
           fr == NewFrame(f, LenResults, Changes(<<>>, inst))
<1>1. frames' = Append(<<>>, fr) /\ instances' = Pushed(<<>>, inst)
  BY PushStep
<1>2. /\ LenResults \in Nat /\ Regs[f] \in Nat /\ inst \in Inst /\ inst # NoInstance
      /\ RecursionLimit \in Nat \ {0}
  BY ExecutorAssumption, EngineExecutorAssumption DEF Inst
<1>3. LenResults <= h2 /\ LenResults >= LenResults
  BY <1>2
<1>4. Changes(<<>>, inst) = TRUE
  BY <1>2 DEF Changes
<1>5. fr \in Frame /\ fr.func = f /\ fr.off = LenResults
  BY <1>2, <1>4, PushFrame
<1>6. /\ <<>> \in Seq(Frame) /\ <<>> \in Seq(Inst) /\ Len(<<>>) < RecursionLimit
      /\ StackShape(<<>>, <<>>, LenResults)
      /\ StackOK(<<>>, <<>>, LenResults, LenResults)
  BY <1>2, EmptyOK
<1>7. instances' \in Seq(Inst)
  BY <1>1, <1>2, <1>6, PushInstance
<1>8. StackShape(Append(<<>>, fr), Pushed(<<>>, inst), h2)
  BY <1>2, <1>3, <1>6, ShapePush
<1>9. StackOK(Append(<<>>, fr), Pushed(<<>>, inst), h2, LenResults)
  BY <1>2, <1>3, <1>6, OrderPush
<1>10. frames' \in Seq(Frame) /\ frames' # <<>> /\ Last(frames') = fr
  BY ZenonT(40), <1>1, <1>5, <1>6, AppendFacts
<1>11. frames' = <<fr>>
  BY <1>1
<1> QED BY <1>1, <1>4, <1>5, <1>7, <1>8, <1>9, <1>10, <1>11

\* execute_root_func: one frame above the results, an executor in it.
LEMMA RootFuncOK ==
    ASSUME IInv, NEW f \in Funcs, execute_root_func(f)
    PROVE  /\ IInv' /\ frames' = <<NewFrame(f, LenResults, TRUE)>>
           /\ InOrder(LenResults)'
<1>1. /\ height' = LenResults + Regs[f] /\ LenResults + Regs[f] < MaxHeight
      /\ cap' = RootReserved(0, cap, LenResults, Regs[f])
      /\ push(<<>>, <<>>, f, LenResults, InstanceOf[f])
      /\ ip' = Entry(f) /\ sp' = [off |-> LenResults, cap |-> cap']
      /\ cache' = Cached(InstanceOf[f], pages) /\ pages' = pages
      /\ phase' \in {"running", "error"}
  BY DEF execute_root_func, init_call_frame
<1>2. /\ LenResults \in Nat /\ Regs[f] \in Nat /\ MaxHeight \in Nat
      /\ InstanceOf[f] \in Inst /\ RecursionLimit \in Nat \ {0} /\ MaxPages \in Nat
  BY ExecutorAssumption, EngineExecutorAssumption DEF Inst
<1>3. cap \in Nat /\ pages \in 0 .. MaxPages
  BY DEF IInv, TypeOK, ExecutorTyped
<1>4. height' \in Nat /\ height' \in 0 .. MaxHeight - 1 /\ LenResults + Regs[f] <= height'
  BY <1>1, <1>2
<1>5. cap' \in Nat
  BY <1>1, <1>2, <1>3, ReservedNat
<1>6. /\ frames' = <<NewFrame(f, LenResults, TRUE)>>
      /\ frames' \in Seq(Frame) /\ frames' # <<>>
      /\ Last(frames').func = f /\ Last(frames').off = LenResults
      /\ instances' \in Seq(Inst)
      /\ StackShape(frames', instances', height')
      /\ StackOK(frames', instances', height', LenResults)
  BY <1>1, <1>4, RootPush
<1>7. /\ ip' \in [func : Funcs \cup {Null}, pc : Nat] /\ ip'.func = f
      /\ ip'.pc \in Executable(f)
  <2>1. 1 \in Executable(f)
    BY ExecutorAssumption DEF WellFormed
  <2> QED BY <2>1, <1>1 DEF Entry
<1>8. ExecutorTyped'
  <2>1. sp' \in [off : Nat, cap : Nat] /\ pages' \in 0 .. MaxPages
    BY <1>1, <1>2, <1>3, <1>5
  <2>2. cache' \in [inst : Inst \cup {NoInstance}, pages : Nat]
    BY <1>1, <1>2, <1>3 DEF Cached
  <2> QED BY <2>1, <2>2, <1>4, <1>5, <1>6, <1>7 DEF ExecutorTyped
<1>9. TypeOK'
  <2>1. Len(frames') <= RecursionLimit
    BY <1>6 DEF StackShape
  <2> QED BY <2>1, <1>1, <1>8 DEF TypeOK
<1>10. InOrder(LenResults)'
  BY <1>1, <1>6, <1>7 DEF InOrder
<1>11. IInv'
  BY <1>1, <1>6, <1>9, <1>10 DEF IInv
<1> QED BY <1>6, <1>10, <1>11

\* root_refused and root_host leave an empty stack.
LEMMA EmptiedOK ==
    ASSUME IInv, frames' = <<>>, instances' = <<>>,
           height' \in 0 .. MaxHeight - 1, cap' \in Nat, pages' \in 0 .. MaxPages,
           ip' = ip, sp' = sp, cache' = cache, phase' \in {"done", "error"}
    PROVE  IInv'
<1>1. StackShape(frames', instances', height') /\ Len(frames') <= RecursionLimit
  BY EmptyOK DEF StackShape
<1>2. frames' \in Seq(Frame) /\ instances' \in Seq(Inst)
  OBVIOUS
<1> QED BY <1>1, <1>2 DEF IInv, TypeOK, ExecutorTyped

\* A root function that is refused.
LEMMA RootRefusedOK ==
    ASSUME IInv, NEW f \in Funcs \cup Hosts, root_refused(f)
    PROVE  IInv' /\ phase' = "error"
<1>1. /\ frames' = <<>> /\ instances' = <<>>
      /\ ip' = ip /\ sp' = sp /\ cache' = cache /\ pages' = pages
      /\ height' \in {0, IF LenResults < MaxHeight THEN LenResults ELSE 0}
      /\ cap' = ReservedAt(0, cap, height') /\ phase' = "error"
  BY DEF root_refused, ReservedFrom0
<1>2. LenResults \in Nat /\ MaxHeight \in Nat \ {0}
  BY ExecutorAssumption, EngineExecutorAssumption
<1>3. cap \in Nat /\ pages \in 0 .. MaxPages
  BY DEF IInv, TypeOK, ExecutorTyped
<1>4. height' \in 0 .. MaxHeight - 1 /\ height' \in Nat
  BY <1>1, <1>2
<1>5. cap' \in Nat
  BY <1>1, <1>3, <1>4, ReservedNat
<1> QED BY <1>1, <1>3, <1>4, <1>5, EmptiedOK

\* A host function called by the embedder.
LEMMA RootHostOK ==
    ASSUME IInv, NEW h \in Hosts, root_host(h)
    PROVE  IInv' /\ phase' \in {"done", "error"}
<1>1. /\ frames' = <<>> /\ instances' = <<>> /\ InOut[h] < MaxHeight
      /\ ip' = ip /\ sp' = sp /\ cache' = cache
      /\ height' \in {0, InOut[h]} /\ cap' = ReservedAt(0, cap, InOut[h])
      /\ phase' \in {"done", "error"}
  BY DEF root_host, ReservedFrom0
<1>2. InOut[h] \in Nat /\ MaxHeight \in Nat \ {0} /\ MaxPages \in Nat
  BY ExecutorAssumption
<1>3. cap \in Nat /\ pages \in 0 .. MaxPages
  BY DEF IInv, TypeOK, ExecutorTyped
<1>4. height' \in 0 .. MaxHeight - 1
  BY <1>1, <1>2
<1>5. cap' \in Nat
  BY <1>1, <1>2, <1>3, ReservedNat
<1>6. pages' \in 0 .. MaxPages
  BY <1>2, <1>3 DEF root_host
<1> QED BY <1>1, <1>4, <1>5, <1>6, EmptiedOK

\* resume_func: the new executor is seated on the newest frame.
LEMMA ResumeOK ==
    ASSUME IInv, resume_func
    PROVE  IInv' /\ InOrder(LenResults)'
<1>1. /\ phase = "suspended" /\ phase' = "running"
      /\ frames' = frames /\ instances' = instances /\ height' = height /\ cap' = cap
      /\ ip' = Last(frames).ip /\ sp' = [off |-> Last(frames).off, cap |-> cap]
      /\ cache' = Cached(Last(instances), pages')
  BY DEF resume_func
<1>2. /\ frames \in Seq(Frame) /\ instances \in Seq(Inst) /\ cap \in Nat
      /\ height \in 0 .. MaxHeight - 1 /\ pages \in 0 .. MaxPages
      /\ StackShape(frames, instances, height)
      /\ frames # <<>> /\ StackOK(frames, instances, height, LenResults)
  BY <1>1 DEF IInv, TypeOK, ExecutorTyped
<1>3. pages' \in 0 .. MaxPages /\ pages' \in Nat
  <2>1. MaxPages \in Nat
    BY ExecutorAssumption
  <2> QED BY <2>1, <1>2 DEF resume_func
<1>4. Last(frames) \in Frame /\ Last(frames) = frames[Len(frames)]
      /\ Len(frames) \in Nat \ {0}
  BY <1>2, FrontFacts
<1>5. Addressed(Last(frames))
  <2>1. Len(frames) \in 1 .. Len(frames)
    BY <1>4
  <2> QED BY <2>1, <1>2, <1>4 DEF StackOK
<1>6. instances # <<>> /\ Last(instances) = InstanceOf[Last(frames).func]
  BY <1>2, TopInstance DEF StackOK
<1>7. Last(instances) \in Inst
  BY <1>2, <1>6, FrontFacts
<1>8. Last(frames).ip \in Place /\ Last(frames).off \in Nat
  BY <1>4 DEF Frame
<1>9. ExecutorTyped'
  <2>1. ip' \in [func : Funcs \cup {Null}, pc : Nat]
    BY <1>1, <1>8 DEF Place
  <2>2. cache' \in [inst : Inst \cup {NoInstance}, pages : Nat]
    BY <1>1, <1>3, <1>7 DEF Cached
  <2> QED BY <2>1, <2>2, <1>1, <1>2, <1>3, <1>8 DEF ExecutorTyped
<1>10. TypeOK'
  BY <1>1, <1>2, <1>9 DEF TypeOK, StackShape
<1>11. InOrder(LenResults)'
  BY <1>1, <1>2, <1>5, <1>6 DEF InOrder, Addressed
<1> QED BY <1>1, <1>2, <1>10, <1>11 DEF IInv

-----------------------------------------------------------------------------
(* The loop.                                                               *)

\* A running call stands on an instruction of its newest frame.
LEMMA RunningReady ==
    ASSUME IInv, phase = "running"
    PROVE  Ready /\ InOrder(LenResults)
<1>1. InOrder(LenResults) /\ ExecutorTyped /\ StackShape(frames, instances, height)
  BY DEF IInv, TypeOK
<1>2. ip.func \in Funcs
  <2>1. Last(frames) \in Frame
    BY <1>1, FrontFacts DEF InOrder, ExecutorTyped
  <2> QED BY <2>1, <1>1 DEF InOrder, Frame
<1> QED BY <1>1, <1>2 DEF Ready, InOrder

\* One instruction and what its signal means for the call.
LEMMA ExecuteOK ==
    ASSUME TailHostsFail, IInv, phase = "running", NEW out, execute_instr(out),
           after_instr(out)
    PROVE  IInv'
<1>1. Shaped' /\ Kept(out, LenResults)
  BY RunningReady, InstrOK
<1>2. TypeOK' /\ StackShape(frames, instances, height)'
  <2>1. phase' \in {"idle", "running", "suspended", "done", "error"}
    BY DEF after_instr
  <2> QED BY <2>1, <1>1 DEF TypeOK, Shaped, StackShape
<1>3. phase' = "running" => InOrder(LenResults)'
  BY <1>1 DEF Kept, after_instr
<1>4. phase' = "suspended" =>
        frames' # <<>> /\ StackOK(frames', instances', height', LenResults)
  BY <1>1 DEF Kept, after_instr
<1>5. phase' = "done" => frames' = <<>>
  BY <1>1 DEF Kept, after_instr
<1> QED BY <1>2, <1>3, <1>4, <1>5 DEF IInv

\* A fresh engine.
LEMMA InitOK == Init => IInv
<1> SUFFICES ASSUME Init PROVE IInv
  OBVIOUS
<1>1. /\ MinHeight \in Nat /\ MaxHeight \in Nat \ {0} /\ MaxPages \in Nat
      /\ RecursionLimit \in Nat
  BY ExecutorAssumption
<1>2. ExecutorTyped
  BY <1>1 DEF Init, ExecutorTyped, Cached
<1>3. StackShape(frames, instances, height)
  BY EmptyOK DEF Init
<1>4. Len(frames) <= RecursionLimit
  BY <1>3 DEF StackShape
<1> QED BY <1>2, <1>3, <1>4 DEF Init, IInv, TypeOK

\* Every step keeps IInv.
LEMMA NextOK == TailHostsFail /\ IInv /\ [Next]_vars => IInv'
<1> SUFFICES ASSUME TailHostsFail, IInv, [Next]_vars PROVE IInv'
  OBVIOUS
<1>1. CASE \E f \in Funcs : execute_root_func(f)
  BY <1>1, RootFuncOK
<1>2. CASE \E h \in Hosts : root_host(h)
  BY <1>2, RootHostOK
<1>3. CASE \E f \in Funcs \cup Hosts : root_refused(f)
  BY <1>3, RootRefusedOK
<1>4. CASE execute
  BY <1>4, ExecuteOK DEF execute
<1>5. CASE resume_func
  BY <1>5, ResumeOK
<1>6. CASE drop_invocation
  BY <1>6 DEF drop_invocation, execVars, IInv, TypeOK, ExecutorTyped
<1>7. CASE UNCHANGED vars
  BY <1>7 DEF vars, IInv, TypeOK, ExecutorTyped, InOrder
<1> QED
  BY <1>1, <1>2, <1>3, <1>4, <1>5, <1>6, <1>7 DEF Next
-----------------------------------------------------------------------------
(* The theorems.                                                           *)

\* The inductive invariant: stacks that fit each other in every state, frames
\* that can go on in a call that is running or suspended, an executor seated
\* on the newest frame while a call runs, no frame after it has returned.
THEOREM Invariance == TailHostsFail => (Spec => []IInv)
<1>1. ASSUME TailHostsFail PROVE IInv /\ [Next]_vars => IInv'
  BY <1>1, NextOK
<1>2. ASSUME TailHostsFail PROVE Spec => []IInv
  BY <1>1, <1>2, InitOK, PTL DEF Spec
<1> QED
  BY <1>2

\* The stacks and the executor's pointers keep their types; in particular the
\* value stack never reaches its maximum height.
THEOREM TypeCorrect == TailHostsFail => (Spec => []TypeOK)
<1>1. IInv => TypeOK
  BY DEF IInv
<1> QED
  BY <1>1, Invariance, PTL

\* return_impl's "the executing call frame is always on the stack": whatever
\* runs is an instruction, not a parameter word, of the newest frame's function.
THEOREM FrameOnStack == TailHostsFail => (Spec => []ExecutingFrameOnStack)
<1>1. IInv => ExecutingFrameOnStack
  BY DEF IInv, ExecutingFrameOnStack, InOrder
<1> QED
  BY <1>1, Invariance, PTL

\* get_register's obligation on the executor: sp is valid after every call,
\* tail call, return, resumption and reallocation of the value stack.
THEOREM ValidStackPointer == TailHostsFail => (Spec => []StackPointerValid)
<1>1. IInv => StackPointerValid
  BY DEF IInv, StackPointerValid, InOrder
<1> QED
  BY <1>1, Invariance, PTL

\* alloc_call_frame, drain and drop_return: the registers of two live frames
\* never overlap, nor do they overlap the cells of the root results.
THEOREM DisjointFrames == TailHostsFail => (Spec => []FramesDisjoint)
<1>1. IInv => FramesDisjoint
  BY DEF IInv, FramesDisjoint, InOrder, StackOK
<1> QED
  BY <1>1, Invariance, PTL

\* update_instr_ptr_at: every suspended caller goes on at an instruction of its
\* own function.
THEOREM ValidReturnAddresses == TailHostsFail => (Spec => []ReturnAddresses)
<1>1. ASSUME IInv PROVE ReturnAddresses
  <2>1. phase \in {"running", "suspended"} =>
            frames # <<>> /\ \A i \in 1 .. Len(frames) : Addressed(frames[i])
    BY <1>1 DEF IInv, InOrder, StackOK
  <2> QED
    BY <2>1 DEF ReturnAddresses, Addressed
<1> QED
  BY <1>1, Invariance, PTL

\* InstanceCache: the cached instance and memory are those of the function that
\* runs, across instances and whoever grew the memory.
THEOREM CurrentCache == TailHostsFail => (Spec => []CacheCurrent)
<1>1. IInv => CacheCurrent
  BY DEF IInv, CacheCurrent, InOrder
<1> QED
  BY <1>1, Invariance, PTL

\* A call that ends leaves both parts of the call stack empty.
THEOREM FinishesClean == TailHostsFail => (Spec => []CleanFinish)
<1>1. ASSUME IInv PROVE CleanFinish
  <2>1. frames \in Seq(Frame) /\ instances \in Seq(Inst)
    BY <1>1 DEF IInv, TypeOK, ExecutorTyped
  <2>2. PICK idx \in [0 .. Len(frames) -> 0 .. Len(instances)] :
            InstanceIndex(frames, instances, idx)
    BY <1>1 DEF IInv, StackShape
  <2>3. frames = <<>> => instances = <<>>
    BY <2>1, <2>2, IndexTop
  <2> QED BY <1>1, <2>3 DEF IInv, CleanFinish
<1> QED
  BY <1>1, Invariance, PTL

-----------------------------------------------------------------------------
(* The engine implements WasmCalls.                                        *)

\* The activations of a live call, one for each frame.
LEMMA ActsFacts ==
    ASSUME NEW fs \in Seq(Frame), fs # <<>>, NEW run \in BOOLEAN,
           NEW p, run => p \in Place, NEW a,
           a = [i \in 1 .. Len(fs) |-> IF i = Len(fs) /\ run THEN p ELSE fs[i].ip]
    PROVE  /\ a \in Seq(Place) /\ a # <<>>
           /\ Len(a) = Len(fs) /\ Len(fs) \in Nat \ {0}
           /\ \A i \in 1 .. Len(fs) - 1 : a[i] = fs[i].ip
           /\ Last(a) = IF run THEN p ELSE Last(fs).ip
<1>1. Len(fs) \in Nat \ {0} /\ Last(fs) = fs[Len(fs)]
  BY FrontFacts
<1>2. \A i \in 1 .. Len(fs) : fs[i] \in Frame
  OBVIOUS
<1>3. \A fr \in Frame : fr.ip \in Place
  BY DEF Frame
<1>4. a \in [1 .. Len(fs) -> Place]
  BY <1>2, <1>3
<1>5. a \in Seq(Place) /\ Len(a) = Len(fs)
  BY <1>1, <1>4
<1>6. Last(a) = a[Len(fs)]
  BY <1>5 DEF Last
<1>7. a[Len(fs)] = IF run THEN p ELSE fs[Len(fs)].ip
  BY <1>1
<1>8. \A i \in 1 .. Len(fs) - 1 : a[i] = fs[i].ip
  BY <1>1
<1>9. a # <<>>
  BY <1>1, <1>5, EmptyFacts
<1> QED BY <1>1, <1>5, <1>6, <1>7, <1>8, <1>9

\* Before a step.
LEMMA ActsBefore ==
    ASSUME IInv, Live
    PROVE  /\ Activations \in Seq(Place) /\ Activations # <<>>
           /\ frames \in Seq(Frame) /\ frames # <<>>
           /\ Len(Activations) = Len(frames) /\ Len(frames) \in Nat \ {0}
           /\ \A i \in 1 .. Len(frames) - 1 : Activations[i] = frames[i].ip
           /\ Last(Activations) = IF phase = "running" THEN ip ELSE Last(frames).ip
<1> DEFINE run == phase = "running"
<1>1. frames \in Seq(Frame) /\ frames # <<>>
  BY DEF IInv, TypeOK, ExecutorTyped, Live, InOrder
<1>2. run => ip \in Place
  BY RunningReady, ReadyFacts
<1>3. Activations = [i \in 1 .. Len(frames) |->
                       IF i = Len(frames) /\ run THEN ip ELSE frames[i].ip]
  BY DEF Activations
<1>4. run \in BOOLEAN
  OBVIOUS
<1> HIDE DEF run
<1>5. /\ Activations \in Seq(Place) /\ Activations # <<>>
      /\ Len(Activations) = Len(frames) /\ Len(frames) \in Nat \ {0}
      /\ \A i \in 1 .. Len(frames) - 1 : Activations[i] = frames[i].ip
      /\ Last(Activations) = IF run THEN ip ELSE Last(frames).ip
  BY SMTT(30), <1>1, <1>2, <1>3, <1>4, ActsFacts
<1> QED BY <1>1, <1>5 DEF run

\* After a step.
LEMMA ActsAfter ==
    ASSUME IInv', Live'
    PROVE  /\ Activations' \in Seq(Place) /\ Activations' # <<>>
           /\ frames' \in Seq(Frame) /\ frames' # <<>>
           /\ Len(Activations') = Len(frames') /\ Len(frames') \in Nat \ {0}
           /\ \A i \in 1 .. Len(frames') - 1 : Activations'[i] = frames'[i].ip
           /\ Last(Activations') =
                 IF phase' = "running" THEN ip' ELSE Last(frames').ip
<1> DEFINE run == phase' = "running"
<1>1. frames' \in Seq(Frame) /\ frames' # <<>>
  BY DEF IInv, TypeOK, ExecutorTyped, Live, InOrder
<1>2. run => ip' \in Place
  <2> SUFFICES ASSUME run PROVE ip' \in Place
    OBVIOUS
  <2>1. Last(frames') \in Frame
    BY <1>1, FrontFacts
  <2>2. ip'.func = Last(frames').func /\ ip' \in [func : Funcs \cup {Null}, pc : Nat]
    BY DEF IInv, TypeOK, ExecutorTyped, InOrder
  <2> QED BY <2>1, <2>2 DEF Frame, Place
<1>3. Activations' = [i \in 1 .. Len(frames') |->
                       IF i = Len(frames') /\ run THEN ip' ELSE frames'[i].ip]
  BY DEF Activations
<1>4. run \in BOOLEAN
  OBVIOUS
<1> HIDE DEF run
<1>5. /\ Activations' \in Seq(Place) /\ Activations' # <<>>
      /\ Len(Activations') = Len(frames') /\ Len(frames') \in Nat \ {0}
      /\ \A i \in 1 .. Len(frames') - 1 : Activations'[i] = frames'[i].ip
      /\ Last(Activations') = IF run THEN ip' ELSE Last(frames').ip
  BY SMTT(30), <1>1, <1>2, <1>3, <1>4, ActsFacts
<1> QED BY <1>1, <1>5 DEF run

\* The instance of code that goes on.
LEMMA GoesOnOK ==
    ASSUME IInv', phase' = "running"
    PROVE  Calls!GoesOn
<1>1. Activations' # <<>> /\ Last(Activations') = ip'
  BY ActsAfter DEF Live
<1>2. cache'.inst = InstanceOf[ip'.func]
  BY DEF IInv, InOrder, Cached
<1>3. RunsIn' = InstanceOf[Last(Activations').func]
  BY <1>1, <1>2 DEF RunsIn
<1> QED BY <1>1, <1>3 DEF Calls!GoesOn, Calls!Last, Last

\* WasmCalls reads sequences as the engine does.
LEMMA SameOperators ==
    ASSUME NEW s
    PROVE  Calls!Front(s) = Front(s) /\ Calls!Last(s) = Last(s)
  BY DEF Calls!Front, Calls!Last, Front, Last

\* An instruction that stays in its frame moves the newest activation.
LEMMA StaysMoves ==
    ASSUME IInv, IInv', phase = "running", Live', NEW out, Stays(out),
           phase' = "suspended" => out.sig = "HostErr"
    PROVE  Calls!Moved(Activations, Activations')
<1> DEFINE a == Activations
           b == Activations'
<1>1. /\ a \in Seq(Place) /\ a # <<>> /\ Len(a) = Len(frames)
      /\ \A i \in 1 .. Len(frames) - 1 : a[i] = frames[i].ip
      /\ Last(a) = ip
  BY ActsBefore DEF Live
<1>2. /\ b \in Seq(Place) /\ b # <<>> /\ Len(b) = Len(frames')
      /\ \A i \in 1 .. Len(frames') - 1 : b[i] = frames'[i].ip
      /\ Last(b) = IF phase' = "running" THEN ip' ELSE Last(frames').ip
  BY ActsAfter
<1>3. /\ Len(frames') = Len(frames)
      /\ \A i \in 1 .. Len(frames) - 1 : frames'[i] = frames[i]
      /\ ip' \in Place /\ ip'.func = ip.func
      /\ out.sig = "HostErr" => Last(frames').ip = ip'
  BY DEF Stays, SameCallers
<1>4. Last(b) = ip' /\ ip'.pc \in Nat
  BY <1>2, <1>3 DEF Live, Place
<1>5. Len(b) = Len(a) /\ Front(b) = Front(a)
  <2>1. Len(b) = Len(a)
    BY <1>1, <1>2, <1>3
  <2>2. \A i \in 1 .. Len(b) - 1 : b[i] = a[i]
    BY <1>1, <1>2, <1>3
  <2> QED BY <2>1, <2>2, <1>1, <1>2, SameFront
<1> QED BY <1>1, <1>3, <1>4, <1>5, SameOperators DEF Calls!Moved

\* A frame that is gone is an activation that is gone.
LEMMA PopsFront ==
    ASSUME IInv, IInv', phase = "running", Live', frames' = Front(frames),
           phase' = "running" => ip' = Last(Front(frames)).ip
    PROVE  Activations' = Front(Activations) /\ Len(Activations) > 1
<1> DEFINE a == Activations
           b == Activations'
<1>1. /\ a \in Seq(Place) /\ a # <<>> /\ Len(a) = Len(frames)
      /\ Len(frames) \in Nat \ {0}
      /\ \A i \in 1 .. Len(frames) - 1 : a[i] = frames[i].ip
      /\ frames \in Seq(Frame) /\ frames # <<>>
  BY ActsBefore DEF Live
<1>2. /\ b \in Seq(Place) /\ Len(b) = Len(frames') /\ b # <<>>
      /\ \A i \in 1 .. Len(frames') - 1 : b[i] = frames'[i].ip
      /\ Last(b) = IF phase' = "running" THEN ip' ELSE Last(frames').ip
      /\ frames' \in Seq(Frame) /\ frames' # <<>> /\ Len(frames') \in Nat \ {0}
  BY ActsAfter
<1>3. /\ Len(frames') = Len(frames) - 1
      /\ \A i \in 1 .. Len(frames) - 1 : frames'[i] = frames[i]
  BY <1>1, FrontFacts
<1>4. Last(b) = Last(frames').ip
  BY <1>2
<1>5. Last(b) = b[Len(b)] /\ Last(frames') = frames'[Len(frames')]
  BY <1>2, FrontFacts
<1>6. \A i \in 1 .. Len(b) : b[i] = frames'[i].ip
  <2> TAKE i \in 1 .. Len(b)
  <2>1. CASE i = Len(b)
    BY <2>1, <1>2, <1>4, <1>5
  <2>2. CASE i # Len(b)
    BY <2>2, <1>2
  <2> QED BY <2>1, <2>2
<1>7. \A i \in 1 .. Len(b) : b[i] = a[i]
  BY <1>1, <1>2, <1>3, <1>6
<1>8. Len(b) = Len(a) - 1 /\ Len(a) > 1
  BY <1>1, <1>2, <1>3
<1> HIDE DEF a, b
<1>9. b = Front(a)
  BY <1>1, <1>2, <1>7, <1>8, IsFront
<1> QED BY <1>8, <1>9 DEF a, b

\* A nested call of a Wasm function is a Call.
LEMMA EntersCalls ==
    ASSUME IInv, IInv', phase = "running", phase' = "running",
           NEW out, NEW f \in Funcs, Enters(f, out)
    PROVE  Calls!Call
<1> DEFINE a == Activations
           b == Activations'
           n == Len(frames)
<1>1. /\ a \in Seq(Place) /\ a # <<>> /\ Len(a) = n /\ n \in Nat \ {0}
      /\ \A i \in 1 .. n - 1 : a[i] = frames[i].ip
      /\ Last(a) = ip
  BY ActsBefore DEF Live
<1>2. /\ b \in Seq(Place) /\ Len(b) = Len(frames') /\ b # <<>>
      /\ \A i \in 1 .. Len(frames') - 1 : b[i] = frames'[i].ip
      /\ Last(b) = ip'
  BY ActsAfter DEF Live
<1>3. /\ Len(frames') = n + 1
      /\ \A i \in 1 .. n - 1 : frames'[i] = frames[i]
      /\ frames'[n].ip \in Place /\ frames'[n].ip.func = ip.func
      /\ ip' = Entry(f)
  BY DEF Enters, SameCallers
<1>4. Len(frames') <= RecursionLimit /\ RecursionLimit \in Nat
  BY ExecutorAssumption DEF IInv, TypeOK
<1> HIDE DEF a, b, n
<1>5. Len(b) = Len(a) + 1 /\ Len(a) < RecursionLimit
  BY <1>1, <1>2, <1>3, <1>4
<1>6. /\ Front(b) \in Seq(Place) /\ Len(Front(b)) = n
      /\ \A i \in 1 .. n : Front(b)[i] = b[i]
  <2>1. /\ Front(b) \in Seq(Place) /\ Len(Front(b)) = Len(b) - 1
        /\ \A i \in 1 .. Len(b) - 1 : Front(b)[i] = b[i]
    BY <1>2, FrontFacts
  <2>2. Len(b) - 1 = n
    BY <1>1, <1>2, <1>3
  <2> QED BY <2>1, <2>2
<1>7. Front(b) # <<>> /\ Len(Front(b)) = Len(a)
  BY <1>1, <1>6, EmptyFacts
<1>8. Last(Front(b)) = frames'[n].ip
  <2>1. Last(Front(b)) = Front(b)[n]
    BY <1>6, <1>7, FrontFacts
  <2>2. n \in 1 .. n /\ n \in 1 .. Len(frames') - 1
    BY <1>1, <1>3
  <2> QED BY <2>1, <2>2, <1>2, <1>6
<1>9. Front(Front(b)) = Front(a)
  <2>1. \A i \in 1 .. Len(Front(b)) - 1 : Front(b)[i] = a[i]
    <3> TAKE i \in 1 .. Len(Front(b)) - 1
    <3>1. i \in 1 .. n - 1 /\ i \in 1 .. n /\ i \in 1 .. Len(frames') - 1
      BY <1>1, <1>3, <1>6
    <3> QED BY <3>1, <1>1, <1>2, <1>3, <1>6
  <2> QED BY <2>1, <1>1, <1>6, <1>7, SameFront
<1>10. Last(Front(b)).func = Last(a).func /\ Last(Front(b)).pc \in Nat
  BY <1>1, <1>3, <1>8 DEF Place
<1>11. Calls!Moved(a, Front(b))
  BY <1>7, <1>9, <1>10, SameOperators DEF Calls!Moved
<1>12. Last(b) = Calls!Start(f)
  BY <1>2, <1>3 DEF Calls!Start, Entry
<1>13. Calls!GoesOn
  BY GoesOnOK
<1> QED BY <1>5, <1>11, <1>12, <1>13, SameOperators DEF Calls!Call, a, b

\* A tail call of a Wasm function is a TailCall.
LEMMA ReplacesTailCalls ==
    ASSUME IInv, IInv', phase = "running", phase' = "running",
           NEW out, NEW f \in Funcs, Replaces(f, out)
    PROVE  Calls!TailCall
<1> DEFINE a == Activations
           b == Activations'
<1>1. /\ a \in Seq(Place) /\ a # <<>> /\ Len(a) = Len(frames)
      /\ Len(frames) \in Nat \ {0}
      /\ \A i \in 1 .. Len(frames) - 1 : a[i] = frames[i].ip
  BY ActsBefore DEF Live
<1>2. /\ b \in Seq(Place) /\ Len(b) = Len(frames') /\ b # <<>>
      /\ \A i \in 1 .. Len(frames') - 1 : b[i] = frames'[i].ip
      /\ Last(b) = ip'
  BY ActsAfter DEF Live
<1>3. /\ Len(frames') = Len(frames) /\ ip' = Entry(f)
      /\ \A i \in 1 .. Len(frames) - 1 : frames'[i] = frames[i]
  BY DEF Replaces, SameCallers
<1> HIDE DEF a, b
<1>4. Len(b) = Len(a) /\ \A i \in 1 .. Len(a) - 1 : b[i] = a[i]
  BY <1>1, <1>2, <1>3
<1>5. Entry(f) \in Place /\ Last(b) = Entry(f) /\ b[Len(b)] = Entry(f)
  <2>1. Last(b) = b[Len(b)] /\ Last(b) \in Place
    BY <1>2, FrontFacts
  <2> QED BY <2>1, <1>2, <1>3
<1>6. /\ Front(a) \in Seq(Place) /\ Len(Front(a)) = Len(a) - 1
      /\ \A i \in 1 .. Len(a) - 1 : Front(a)[i] = a[i]
  BY <1>1, FrontFacts
<1> DEFINE c == Append(Front(a), Entry(f))
<1>7. /\ c \in Seq(Place) /\ Len(c) = Len(Front(a)) + 1
      /\ \A i \in 1 .. Len(Front(a)) : c[i] = Front(a)[i]
      /\ c[Len(Front(a)) + 1] = Entry(f)
  BY <1>5, <1>6, AppendFacts
<1> HIDE DEF c
<1>8. Len(c) = Len(b) /\ Len(a) \in Nat \ {0}
  BY <1>1, <1>4, <1>6, <1>7
<1>9. \A i \in 1 .. Len(b) : b[i] = c[i]
  <2> TAKE i \in 1 .. Len(b)
  <2>1. CASE i = Len(b)
    BY <2>1, <1>4, <1>5, <1>6, <1>7, <1>8
  <2>2. CASE i # Len(b)
    <3>1. i \in 1 .. Len(a) - 1
      BY <2>2, <1>4, <1>8
    <3> QED BY <3>1, <1>4, <1>6, <1>7
  <2> QED BY <2>1, <2>2
<1>10. b = c
  BY <1>2, <1>7, <1>8, <1>9, SeqEqual
<1>11. b = Append(Front(a), Calls!Start(f))
  BY <1>10 DEF c, Calls!Start, Entry
<1>12. Calls!GoesOn
  BY GoesOnOK
<1> QED BY <1>11, <1>12, SameOperators DEF Calls!TailCall, a, b

\* What the caller of the engine sees of a call that is over.
LEMMA NoActs ==
    ASSUME phase' \in {"idle", "done", "error"}
    PROVE  Activations' = <<>> /\ RunsIn' = NoInstance
  BY DEF Activations, Live, RunsIn

\* An error ends the call.
LEMMA FailOK ==
    ASSUME phase' = "error"
    PROVE  Calls!Fail
  BY NoActs DEF Calls!Fail

\* An instruction, by what it does to the frames and what it reports.
LEMMA ExecuteRefines ==
    ASSUME TailHostsFail, IInv, IInv', phase = "running",
           NEW out, execute_instr(out), after_instr(out)
    PROVE  Calls!Next
<1>1. Ready
  BY RunningReady
<1>2. /\ phase' \in {"running", "done", "error", "suspended"}
      /\ phase' = "running" => out.sig = "Next"
      /\ phase' = "done" => out.sig = "End"
      /\ phase' = "suspended" => out.sig = "HostErr"
  BY DEF after_instr
<1>3. phase' \in {"running", "suspended"} => Live'
  BY DEF Live
<1>4. CASE phase' = "error"
  BY <1>4, FailOK DEF Calls!Next
<1>5. CASE phase' # "error" /\ Stays(out)
  <2>1. Live' /\ Calls!Moved(Activations, Activations')
    BY <1>2, <1>3, <1>5, StaysMoves DEF Stays
  <2>2. CASE phase' = "running"
    BY <2>1, <2>2, GoesOnOK DEF Calls!Next, Calls!Step
  <2>3. CASE phase' = "suspended"
    <3>1. RunsIn' = NoInstance
      BY <2>3 DEF RunsIn
    <3> QED BY <2>1, <2>3, <3>1 DEF Calls!Next, Calls!Suspend
  <2> QED BY <2>1, <2>2, <2>3 DEF Live
<1>6. CASE phase' # "error" /\ Overflows(out)
  BY <1>2, <1>6 DEF Overflows
<1>7. CASE phase' # "error" /\ Returns(out)
  <2>1. CASE Len(frames) = 1
    <3>1. phase' = "done"
      BY <1>2, <1>7, <2>1 DEF Returns, Returned
    <3>2. Len(Activations) = 1
      BY <2>1, ActsBefore DEF Live
    <3> QED BY <3>1, <3>2, NoActs DEF Calls!Next, Calls!Finish
  <2>2. CASE Len(frames) # 1
    <3>1. /\ phase' = "running" /\ frames' = Front(frames)
          /\ ip' = Last(Front(frames)).ip
      BY <1>2, <1>7, <2>2 DEF Returns, Returned
    <3>2. Activations' = Front(Activations)
      BY <1>3, <3>1, PopsFront
    <3> QED BY <3>1, <3>2, GoesOnOK, SameOperators DEF Calls!Next, Calls!Return
  <2> QED BY <2>1, <2>2
<1>8. CASE phase' # "error" /\ Vacates(out)
  <2>1. ip.func \in Funcs /\ ip.pc \in Executable(ip.func)
    BY <1>1, ReadyFacts DEF Place
  <2>2. out.sig # "Next"
    BY <2>1, <1>8 DEF Vacates, TailHostsFail, Instr
  <2>3. phase' = "suspended" /\ frames' = Front(frames)
    BY <2>2, <1>2, <1>8 DEF Vacates
  <2>4. Activations' = Front(Activations) /\ Len(Activations) > 1
    BY <1>3, <2>3, PopsFront
  <2>5. RunsIn' = NoInstance
    BY <2>3 DEF RunsIn
  <2> QED BY <2>3, <2>4, <2>5, SameOperators DEF Calls!Next, Calls!Suspend
<1>9. CASE phase' # "error" /\ \E f \in Funcs : Enters(f, out)
  <2>1. phase' = "running"
    BY <1>2, <1>9 DEF Enters, Called
  <2> QED BY <2>1, <1>9, EntersCalls DEF Calls!Next
<1>10. CASE phase' # "error" /\ \E f \in Funcs : Replaces(f, out)
  <2>1. phase' = "running"
    BY <1>2, <1>10 DEF Replaces, Called
  <2> QED BY <2>1, <1>10, ReplacesTailCalls DEF Calls!Next
<1> QED BY <1>1, <1>4, <1>5, <1>6, <1>7, <1>8, <1>9, <1>10, InstrEffect

\* A root call is an Invoke; one that is refused by the call hook fails.
LEMMA RootFuncRefines ==
    ASSUME IInv, IInv', NEW f \in Funcs, execute_root_func(f)
    PROVE  Calls!Next
<1>1. CASE phase' = "error"
  BY <1>1, FailOK DEF Calls!Next
<1>2. CASE phase' = "running"
  <2>1. phase \in {"idle", "done", "error"} /\ ip' = Entry(f)
    BY DEF execute_root_func, Pooled, init_call_frame
  <2>2. frames' = <<NewFrame(f, LenResults, TRUE)>>
    BY RootFuncOK
  <2>3. Len(frames') = 1
    BY <2>2
  <2>4. Activations' = [i \in 1 .. 1 |-> IF i = 1 THEN ip' ELSE frames'[i].ip]
    BY <1>2, <2>3 DEF Activations, Live
  <2>5. Activations' = <<Entry(f)>>
    BY <2>1, <2>4
  <2>6. Activations' = <<Calls!Start(f)>>
    BY <2>5 DEF Entry, Calls!Start
  <2> QED BY <1>2, <2>1, <2>6, GoesOnOK DEF Calls!Next, Calls!Invoke
<1> QED BY <1>1, <1>2 DEF execute_root_func

\* resume_func and a dropped invocation.
LEMMA ResumeRefines ==
    ASSUME IInv, IInv', resume_func \/ drop_invocation
    PROVE  Calls!Next
<1>1. CASE resume_func
  <2>1. /\ phase = "suspended" /\ phase' = "running" /\ frames' = frames
        /\ ip' = Last(frames).ip
    BY <1>1 DEF resume_func
  <2>2. Activations = [i \in 1 .. Len(frames) |-> frames[i].ip]
    BY <2>1 DEF Activations, Live
  <2>3. Activations' = [i \in 1 .. Len(frames) |->
                          IF i = Len(frames) THEN ip' ELSE frames[i].ip]
    BY <2>1 DEF Activations, Live
  <2>4. ip' = frames[Len(frames)].ip
    <3>1. frames \in Seq(Frame) /\ frames # <<>>
      BY <2>1, ActsBefore DEF Live
    <3> QED BY <2>1, <3>1, FrontFacts
  <2>5. Activations' = Activations
    BY <2>2, <2>3, <2>4
  <2> QED BY <2>1, <2>5, GoesOnOK DEF Calls!Next, Calls!Resume
<1>2. CASE drop_invocation
  BY <1>2, NoActs DEF drop_invocation, Calls!Next, Calls!Drop
<1> QED BY <1>1, <1>2

\* Every step of the engine is a step of WasmCalls or leaves what it sees.
LEMMA NextRefines ==
    ASSUME TailHostsFail, IInv, IInv', [Next]_vars
    PROVE  [Calls!Next]_(Calls!absVars)
<1>1. CASE \E f \in Funcs : execute_root_func(f)
  BY <1>1, RootFuncRefines
<1>2. CASE \E h \in Hosts : root_host(h)
  <2>1. phase' \in {"done", "error"} /\ phase \in {"idle", "done", "error"}
    BY <1>2, RootHostOK DEF root_host, Pooled
  <2>2. CASE phase' = "error"
    BY <2>2, FailOK DEF Calls!Next
  <2>3. CASE phase' = "done"
    BY <2>1, <2>3, NoActs DEF Calls!Next, Calls!Finish
  <2> QED BY <2>1, <2>2, <2>3
<1>3. CASE \E f \in Funcs \cup Hosts : root_refused(f)
  <2>1. phase' = "error"
    BY <1>3 DEF root_refused
  <2> QED BY <2>1, FailOK DEF Calls!Next
<1>4. CASE execute
  BY <1>4, ExecuteRefines DEF execute
<1>5. CASE resume_func \/ drop_invocation
  BY <1>5, ResumeRefines
<1>6. CASE UNCHANGED vars
  <2>1. phase' = phase /\ frames' = frames /\ ip' = ip /\ cache' = cache
    BY <1>6 DEF vars
  <2>2. Activations' = Activations
    BY <2>1 DEF Activations, Live
  <2>3. RunsIn' = RunsIn
    BY <2>1 DEF RunsIn
  <2> QED BY <2>1, <2>2, <2>3 DEF Calls!absVars
<1> QED
  BY <1>1, <1>2, <1>3, <1>4, <1>5, <1>6 DEF Next

\* EngineInner implements WasmCalls: whatever the program and the limits, what
\* the embedder can observe of the stacks is a stack of activations in which a
\* return goes on where its call left off, in the instance of its function.
THEOREM Refinement == TailHostsFail => (Spec => CallsImplemented)
<1>1. Init => Calls!Init
  BY DEF Init, Calls!Init, Activations, Live, RunsIn
<1>2. ASSUME TailHostsFail
      PROVE  IInv /\ IInv' /\ [Next]_vars => [Calls!Next]_(Calls!absVars)
  BY <1>2, NextRefines
<1>3. ASSUME TailHostsFail PROVE Spec => []IInv
  BY <1>3, Invariance
<1>4. ASSUME TailHostsFail PROVE Spec => CallsImplemented
  BY <1>1, <1>2, <1>3, <1>4, PTL DEF Spec, CallsImplemented, Calls!Spec
<1> QED
  BY <1>4
=============================================================================

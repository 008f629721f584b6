-------------------------- MODULE CodeMap_proofs ---------------------------
(***************************************************************************)
(* CodeMap for any set of functions, modules and threads: the entries are  *)
(* compiled by one thread at a time, no assertion of code_map.rs fails,    *)
(* and only validated code becomes executable.                             *)
(***************************************************************************)
EXTENDS CodeMap, TLAPS

\* Whoever asks, or asked, for a function found it in a module that had
\* finished loading; a call under way asks for one.
CallsReady ==
    \A t \in Threads :
        /\ arg[t] # NoFunc => \E m \in ready : arg[t] \in m
        /\ pc[t] # "idle" => arg[t] # NoFunc

\* A module is handed out only with all its entries initialised and, when the
\* mode validates at load time, validated.
ModulesComplete ==
    \A m \in ready :
        /\ \A f \in m : funcs[f] # "Uninit"
        /\ mode = "LazyTranslation" => m \subseteq Valid

\* Whoever waits found the entry taken: it never becomes takeable again.
WaitersLate == \A t \in Threads : pc[t] = "wait" => funcs[arg[t]] # "Uncompiled"

\* A thread about to publish success holds a body that passed every check.
OutcomeSound ==
    \A t \in Threads :
        pc[t] = "publish" =>
            /\ outcome[t] # "none"
            /\ outcome[t] = "ok" => arg[t] \in Valid \cap Translatable

\* The inductive invariant: the three results and what they rest on.
IInv ==
    /\ TypeOK
    /\ CallsReady
    /\ ModulesComplete
    /\ WaitersLate
    /\ OutcomeSound
    /\ OneCompiler
    /\ NoPanic
    /\ OnlyValidCode

\* Nothing is loaded at first.
LEMMA InitIInv == Init => IInv
  BY CodeMapAssumption
  DEF Init, IInv, TypeOK, CallsReady, ModulesComplete, WaitersLate, OutcomeSound,
      OneCompiler, NoPanic, OnlyValidCode, Compiler, FuncEntity, CompilationMode,
      Outcome, Result, PC

\* Every step of every thread keeps the types.
LEMMA TypeStep == TypeOK /\ CallsReady /\ [Next]_vars => TypeOK'
<1> SUFFICES ASSUME TypeOK, CallsReady, [Next]_vars PROVE TypeOK'
  OBVIOUS
<1> USE CodeMapAssumption DEF TypeOK, FuncEntity, CompilationMode, Outcome, Result, PC
<1>1. CASE Load
  BY <1>1 DEF Load, LoadUnchanged, init_func_as_compiled, init_func_as_uncompiled,
              finish_module
<1>2. ASSUME NEW t \in Threads, NEW f \in Funcs, get(t, f) PROVE TypeOK'
  BY <1>2 DEF get
<1>3. ASSUME NEW t \in Threads, get_compiled(t) PROVE TypeOK'
  BY <1>3 DEF get_compiled, Return
<1>4. ASSUME NEW t \in Threads, get_uncompiled(t) PROVE TypeOK'
  BY <1>4 DEF get_uncompiled
<1>5. ASSUME NEW t \in Threads, compile(t) PROVE TypeOK'
  <2>1. fuel' \in [Threads -> 0 .. MaxFuel]
    BY <1>5 DEF compile
  <2>2. outcome' \in [Threads -> Outcome]
    BY <1>5 DEF compile
  <2> QED BY <1>5, <2>1, <2>2 DEF compile
<1>6. ASSUME NEW t \in Threads, publish(t) PROVE TypeOK'
  BY <1>6 DEF publish, Return
<1>7. ASSUME NEW t \in Threads, wait_for_compilation(t) PROVE TypeOK'
  <2>1. WaitResult(funcs[arg[t]]) \in Result
    BY DEF WaitResult
  <2> QED BY <1>7, <2>1 DEF wait_for_compilation, Return
<1>8. ASSUME NEW t \in Threads, set_fuel(t) PROVE TypeOK'
  BY <1>8 DEF set_fuel
<1>9. CASE UNCHANGED vars
  BY <1>9 DEF vars
<1> QED BY <1>1, <1>2, <1>3, <1>4, <1>5, <1>6, <1>7, <1>8, <1>9 DEF Next, Run

\* No step of a thread disturbs the invariant: one step per action, and under
\* it one per conjunct the action can disturb.
LEMMA NextIInv == IInv /\ [Next]_vars => IInv'
<1> SUFFICES ASSUME IInv, [Next]_vars PROVE IInv'
  OBVIOUS
<1>0. TypeOK'
  BY TypeStep DEF IInv
<1> USE CodeMapAssumption DEF IInv
<1>1. ASSUME NEW f \in Funcs, init_func_as_compiled(f) PROVE IInv'
  BY <1>0, <1>1
  DEF init_func_as_compiled, LoadUnchanged, TypeOK, CallsReady, ModulesComplete,
      WaitersLate, OutcomeSound, OneCompiler, Compiler, NoPanic, OnlyValidCode
<1>2. ASSUME NEW f \in Funcs, init_func_as_uncompiled(f) PROVE IInv'
  <2>1. WaitersLate'
    BY <1>2 DEF init_func_as_uncompiled, LoadUnchanged, TypeOK, CallsReady,
                ModulesComplete, WaitersLate
  <2> QED
    BY <1>0, <1>2, <2>1
    DEF init_func_as_uncompiled, LoadUnchanged, TypeOK, CallsReady, ModulesComplete,
        OutcomeSound, OneCompiler, Compiler, NoPanic, OnlyValidCode
<1>3. ASSUME NEW m \in Modules, finish_module(m) PROVE IInv'
  BY <1>0, <1>3
  DEF finish_module, LoadUnchanged, TypeOK, CallsReady, ModulesComplete, WaitersLate,
      OutcomeSound, OneCompiler, Compiler, NoPanic, OnlyValidCode
<1>4. ASSUME NEW t \in Threads, NEW f \in Funcs, get(t, f) PROVE IInv'
  BY <1>0, <1>4
  DEF get, TypeOK, CallsReady, ModulesComplete, WaitersLate, OutcomeSound,
      OneCompiler, Compiler, NoPanic, OnlyValidCode
<1>5. ASSUME NEW t \in Threads, get_compiled(t) PROVE IInv'
  BY <1>0, <1>5
  DEF get_compiled, Return, TypeOK, CallsReady, ModulesComplete, WaitersLate,
      OutcomeSound, OneCompiler, Compiler, NoPanic, OnlyValidCode
<1>6. ASSUME NEW t \in Threads, get_uncompiled(t) PROVE IInv'
  <2>1. CallsReady' /\ ModulesComplete' /\ OutcomeSound' /\ NoPanic' /\ OnlyValidCode'
    BY <1>6 DEF get_uncompiled, TypeOK, CallsReady, ModulesComplete, OutcomeSound,
                NoPanic, OnlyValidCode
  <2>2. WaitersLate'
    BY <1>6 DEF get_uncompiled, TypeOK, CallsReady, WaitersLate
  <2>3. OneCompiler'
    BY <1>6 DEF get_uncompiled, TypeOK, OneCompiler, Compiler
  <2> QED BY <1>0, <2>1, <2>2, <2>3
<1>7. ASSUME NEW t \in Threads, compile(t) PROVE IInv'
  <2>1. OutcomeSound'
    BY <1>7 DEF compile, Compiles, TypeOK, CallsReady, ModulesComplete, OutcomeSound
  <2> QED
    BY <1>0, <1>7, <2>1
    DEF compile, TypeOK, CallsReady, ModulesComplete, WaitersLate, OneCompiler,
        Compiler, NoPanic, OnlyValidCode
<1>8. ASSUME NEW t \in Threads, publish(t) PROVE IInv'
  <2>1. funcs[arg[t]] = "Compiling" /\ arg[t] \in Funcs
    BY <1>8 DEF publish, TypeOK, OneCompiler, Compiler, CallsReady
  <2>2. CallsReady' /\ ModulesComplete' /\ WaitersLate' /\ OutcomeSound'
    BY <1>8, <2>1 DEF publish, Return, TypeOK, CallsReady, ModulesComplete,
                      WaitersLate, OutcomeSound
  <2>3. OneCompiler'
    BY <1>8, <2>1 DEF publish, Return, TypeOK, OneCompiler, Compiler
  <2>4. NoPanic' /\ OnlyValidCode'
    BY <1>8, <2>1 DEF publish, Return, TypeOK, Outcome, OutcomeSound, NoPanic,
                      OnlyValidCode
  <2> QED BY <1>0, <2>2, <2>3, <2>4
<1>9. ASSUME NEW t \in Threads, wait_for_compilation(t) PROVE IInv'
  <2>1. funcs[arg[t]] \in {"Compiled", "FailedToCompile"}
    BY <1>9 DEF wait_for_compilation, TypeOK, FuncEntity, CallsReady,
                ModulesComplete, WaitersLate
  <2>2. WaitResult(funcs[arg[t]]) # "panic"
    BY <2>1 DEF WaitResult
  <2> QED
    BY <1>0, <1>9, <2>2
    DEF wait_for_compilation, Return, TypeOK, CallsReady, ModulesComplete,
        WaitersLate, OutcomeSound, OneCompiler, Compiler, NoPanic, OnlyValidCode
<1>10. ASSUME NEW t \in Threads, set_fuel(t) PROVE IInv'
  BY <1>0, <1>10
  DEF set_fuel, CallsReady, ModulesComplete, WaitersLate, OutcomeSound,
      OneCompiler, Compiler, NoPanic, OnlyValidCode
<1>11. CASE UNCHANGED vars
  BY <1>0, <1>11
  DEF vars, CallsReady, ModulesComplete, WaitersLate, OutcomeSound,
      OneCompiler, Compiler, NoPanic, OnlyValidCode
<1> QED
  BY <1>1, <1>2, <1>3, <1>4, <1>5, <1>6, <1>7, <1>8, <1>9, <1>10, <1>11
  DEF Next, Load, Run

\* No step of any thread breaks what the results rest on.
THEOREM Invariance == Spec => []IInv
  BY InitIInv, NextIInv, PTL DEF Spec

\* The variables keep their types in every behaviour of the code map.
THEOREM TypeCorrect == Spec => []TypeOK
  BY Invariance, PTL DEF IInv

\* CodeMap::get: at any time at most one thread translates a given body, and
\* an entry is Compiling only as long as some thread is going to settle it.
THEOREM MutualExclusion == Spec => []OneCompiler
  BY Invariance, PTL DEF IInv

\* set_compiled, set_failed_to_compile and wait_for_compilation: none of their
\* assertions or unexpected-state panics is reachable.
THEOREM PanicFree == Spec => []NoPanic
  BY Invariance, PTL DEF IInv

\* In every compilation mode an entry becomes executable only with a body that
\* was validated and translated.
THEOREM ValidatedCode == Spec => []OnlyValidCode
  BY Invariance, PTL DEF IInv

-----------------------------------------------------------------------------
(* The refinement: CodeMap implements OnceCompiled.                        *)

\* The two state functions of the refinement mapping.
Verdicts == [f \in Funcs |-> VerdictOf(funcs[f])]
Answers == [t \in Threads |-> AnswerOf(t)]

\* What the mapping makes of the entries and of the threads.
LEMMA VerdictValues ==
    /\ VerdictOf("Compiled") = "ok"
    /\ VerdictOf("FailedToCompile") = "err"
    /\ \A e \in {"Uninit", "Uncompiled", "Compiling"} : VerdictOf(e) = "open"
  BY DEF VerdictOf

\* A thread inside `get` is pending, and only such a thread is.
LEMMA AnswerValues ==
    ASSUME TypeOK, NEW t \in Threads
    PROVE  /\ pc[t] # "idle" => AnswerOf(t) = "pending"
           /\ pc[t] = "idle" => AnswerOf(t) # "pending"
           /\ pc[t] = "idle" /\ result[t] = "ok" => AnswerOf(t) = "ok"
           /\ pc[t] = "idle" /\ result[t] \in Result \ {"none", "ok"} => AnswerOf(t) = "err"
  BY DEF AnswerOf, TypeOK, Result, Outcome

\* An entry of a module that loaded, and with it every entry a thread inside
\* `get` looks at, is initialised.
LEMMA AskedInit ==
    ASSUME IInv, NEW t \in Threads, arg[t] # NoFunc
    PROVE  arg[t] \in Funcs /\ funcs[arg[t]] # "Uninit"
  BY DEF IInv, TypeOK, CallsReady, ModulesComplete

\* Every step of the code map is a step of OnceCompiled or changes nothing a
\* caller can see: only the section that publishes decides.
LEMMA StepRefines == IInv /\ IInv' /\ [Next]_vars => [Once!Next]_(Once!vars)
<1> SUFFICES ASSUME IInv, IInv', [Next]_vars PROVE [Once!Next]_(Once!vars)
  OBVIOUS
<1> USE CodeMapAssumption
<1> DEFINE Stutter == Verdicts' = Verdicts /\ arg' = arg /\ Answers' = Answers
<1>0. Stutter => UNCHANGED Once!vars
  BY DEF Once!vars, Verdicts, Answers
<1>1. ASSUME NEW f \in Funcs, init_func_as_compiled(f) PROVE Once!Preload(f)
  <2>1. \A t \in Threads : arg[t] # f
    BY <1>1, AskedInit DEF init_func_as_compiled
  <2>2. Answers' = Answers
    BY <1>1 DEF init_func_as_compiled, LoadUnchanged, Answers, AnswerOf
  <2>3. Verdicts' = [Verdicts EXCEPT ![f] = "ok"] /\ Verdicts[f] = "open"
    BY <1>1, VerdictValues DEF init_func_as_compiled, Verdicts, IInv, TypeOK
  <2> QED
    BY <1>1, <2>1, <2>2, <2>3
    DEF Once!Preload, Verdicts, Answers, init_func_as_compiled, LoadUnchanged
<1>2. ASSUME NEW f \in Funcs, init_func_as_uncompiled(f) PROVE Stutter
  <2>1. Answers' = Answers
    BY <1>2 DEF init_func_as_uncompiled, LoadUnchanged, Answers, AnswerOf
  <2>2. Verdicts' = Verdicts
    BY <1>2, VerdictValues DEF init_func_as_uncompiled, Verdicts, IInv, TypeOK
  <2> QED BY <1>2, <2>1, <2>2 DEF init_func_as_uncompiled, LoadUnchanged
<1>3. ASSUME NEW m \in Modules, finish_module(m) PROVE Stutter
  BY <1>3 DEF finish_module, LoadUnchanged, Answers, AnswerOf, Verdicts
<1>4. ASSUME NEW t \in Threads, NEW f \in Funcs, get(t, f) PROVE Once!Ask(t, f)
  <2>1. Answers' = [Answers EXCEPT ![t] = "pending"]
    BY <1>4 DEF get, Answers, AnswerOf, IInv, TypeOK
  <2>2. Answers[t] # "pending"
    BY <1>4, AnswerValues DEF get, Answers, IInv
  <2> QED BY <1>4, <2>1, <2>2 DEF get, Once!Ask, Answers, Verdicts
<1>5. ASSUME NEW t \in Threads, get_compiled(t) PROVE Once!Answer(t) \/ Stutter
  <2>0. arg[t] \in Funcs
    BY <1>5, AskedInit DEF get_compiled, IInv, CallsReady
  <2>1. CASE funcs[arg[t]] = "Compiled"
    <3>1. Answers[t] = "pending" /\ Verdicts[arg[t]] = "ok"
      BY <1>5, <2>0, <2>1, VerdictValues, AnswerValues
      DEF get_compiled, Answers, Verdicts, IInv
    <3>2. Answers' = [Answers EXCEPT ![t] = "ok"]
      BY <1>5, <2>1 DEF get_compiled, Return, Answers, AnswerOf, IInv, TypeOK
    <3>3. UNCHANGED <<Verdicts, arg>>
      BY <1>5 DEF get_compiled, Verdicts
    <3> QED BY <3>1, <3>2, <3>3 DEF Once!Answer, Answers, Verdicts
  <2>2. CASE funcs[arg[t]] # "Compiled"
    <3>1. Answers' = Answers
      BY <1>5, <2>2 DEF get_compiled, Answers, AnswerOf, IInv, TypeOK
    <3> QED BY <1>5, <3>1 DEF get_compiled, Verdicts
  <2> QED BY <2>1, <2>2
<1>6. ASSUME NEW t \in Threads, get_uncompiled(t) PROVE Stutter
  <2>1. Answers' = Answers
    BY <1>6 DEF get_uncompiled, Answers, AnswerOf, IInv, TypeOK
  <2>2. Verdicts' = Verdicts
    BY <1>6, VerdictValues DEF get_uncompiled, Verdicts, IInv, TypeOK
  <2> QED BY <1>6, <2>1, <2>2 DEF get_uncompiled
<1>7. ASSUME NEW t \in Threads, compile(t) PROVE Stutter
  <2>1. Answers' = Answers
    BY <1>7 DEF compile, Answers, AnswerOf, IInv, TypeOK
  <2> QED BY <1>7, <2>1 DEF compile, Verdicts
<1>8. ASSUME NEW t \in Threads, publish(t)
      PROVE  \E v \in {"ok", "err"} : Once!Decide(t, v)
  <2> DEFINE v == IF outcome[t] = "ok" THEN "ok" ELSE "err"
  <2>1. arg[t] \in Funcs /\ funcs[arg[t]] = "Compiling"
    BY <1>8, AskedInit DEF publish, IInv, TypeOK, OneCompiler, Compiler, CallsReady
  <2>2. Answers[t] = "pending" /\ Verdicts[arg[t]] = "open"
    BY <1>8, <2>1, VerdictValues, AnswerValues DEF publish, Answers, Verdicts, IInv
  <2>3. Verdicts' = [Verdicts EXCEPT ![arg[t]] = v]
    BY <1>8, <2>1, VerdictValues DEF publish, Verdicts, IInv, TypeOK
  <2>4. outcome[t] # "none" /\ outcome[t] \in Outcome
    BY <1>8 DEF publish, IInv, OutcomeSound, TypeOK
  <2>5. AnswerOf(t)' = v
    BY <1>8, <2>1, <2>4 DEF publish, Return, AnswerOf, IInv, TypeOK, Outcome
  <2>6. \A u \in Threads \ {t} : AnswerOf(u)' = AnswerOf(u)
    BY <1>8 DEF publish, Return, AnswerOf, IInv, TypeOK
  <2>7. Answers' = [Answers EXCEPT ![t] = v]
    BY <2>5, <2>6 DEF Answers
  <2>8. Once!Decide(t, v)
    BY <1>8, <2>2, <2>3, <2>7 DEF publish, Once!Decide, Answers, Verdicts
  <2> QED BY <2>8
<1>9. ASSUME NEW t \in Threads, wait_for_compilation(t) PROVE Once!Answer(t)
  <2>1. arg[t] \in Funcs /\ funcs[arg[t]] \in {"Compiled", "FailedToCompile"}
    BY <1>9, AskedInit
    DEF wait_for_compilation, IInv, TypeOK, FuncEntity, CallsReady, WaitersLate
  <2>2. Answers[t] = "pending" /\ Verdicts[arg[t]] # "open"
    BY <1>9, <2>1, VerdictValues, AnswerValues
    DEF wait_for_compilation, Answers, Verdicts, IInv
  <2>3. AnswerOf(t)' = Verdicts[arg[t]]
    BY <1>9, <2>1, VerdictValues
    DEF wait_for_compilation, Return, WaitResult, AnswerOf, Verdicts, IInv, TypeOK
  <2>4. \A u \in Threads \ {t} : AnswerOf(u)' = AnswerOf(u)
    BY <1>9 DEF wait_for_compilation, Return, AnswerOf, IInv, TypeOK
  <2>5. Answers' = [Answers EXCEPT ![t] = Verdicts[arg[t]]]
    BY <2>3, <2>4 DEF Answers
  <2> QED
    BY <1>9, <2>2, <2>5 DEF wait_for_compilation, Once!Answer, Answers, Verdicts
<1>10. ASSUME NEW t \in Threads, set_fuel(t) PROVE Stutter
  BY <1>10 DEF set_fuel, Answers, AnswerOf, Verdicts
<1>11. CASE UNCHANGED vars
  BY <1>0, <1>11 DEF vars, Answers, AnswerOf, Verdicts
<1> HIDE DEF Stutter
<1> QED
  BY <1>0, <1>1, <1>2, <1>3, <1>4, <1>5, <1>6, <1>7, <1>8, <1>9, <1>10, <1>11
  DEF Next, Load, Run, Once!Next

\* CodeMap::get as its callers see it, for any threads and modules: the verdict
\* on a body is reached once, by one caller, and answers every `get` of it.
THEOREM Refinement == Spec => OneVerdict
<1>1. Init => Once!Init
  BY VerdictValues DEF Init, Once!Init, AnswerOf
<1> QED BY <1>1, Invariance, StepRefines, PTL DEF Spec, OneVerdict, Once!Spec
=============================================================================

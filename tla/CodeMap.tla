------------------------------ MODULE CodeMap ------------------------------
(***************************************************************************)
(* The engine's table of function bodies (crates/wasmi/src/engine/         *)
(* code_map.rs) as several threads share it: module loaders initialise     *)
(* entries while executors of other stores call CodeMap::get.              *)
(*                                                                         *)
(* Every section between lock() and the end of its guard is one action;    *)
(* what happens between two sections (the translation of a body, the       *)
(* choice to compile or to wait) is open to the steps of other threads.    *)
(***************************************************************************)
EXTENDS Integers, FiniteSets

CONSTANTS
    Funcs,          \* the EngineFuncs of the engine
    Modules,        \* the Wasm modules: a partition of Funcs
    Threads,        \* threads that execute Wasm, each with a store of its own
    Valid,          \* functions whose body the Wasm validator accepts
    Translatable,   \* functions whose body FuncTranslator accepts
    Metered,        \* Config::consume_fuel
    Cost,           \* the fuel that translating one body costs
    MaxFuel,        \* bound: the most fuel a store holds
    NoFunc          \* the argument of a thread that never called `get`

ASSUME CodeMapAssumption ==
    /\ Modules \subseteq SUBSET Funcs
    /\ Valid \subseteq Funcs
    /\ Translatable \subseteq Funcs
    /\ Metered \in BOOLEAN
    /\ Cost \in Nat
    /\ MaxFuel \in Nat
    /\ NoFunc \notin Funcs

VARIABLES
    mode,           \* Config::compilation_mode of the engine
    funcs,          \* CodeMap.funcs: the FuncEntity of every function
    ready,          \* modules whose Module::new returned Ok
    pc,             \* where each thread is inside `get`
    arg,            \* the function a thread asks for, or asked for last
    outcome,        \* what UncompiledFuncEntity::compile gave a thread
    result,         \* what the last `get` of a thread returned
    fuel            \* the fuel left in each thread's store

vars == <<mode, funcs, ready, pc, arg, outcome, result, fuel>>

CompilationMode == {"Eager", "LazyTranslation", "Lazy"}
FuncEntity == {"Uninit", "Uncompiled", "Compiling", "FailedToCompile", "Compiled"}
Outcome == {"none", "ok", "invalid", "out_of_fuel"}
Result == Outcome \cup {"lazy_failed", "panic"}
PC == {"idle", "get_compiled", "get_uncompiled", "compile", "publish", "wait"}

Init ==
    /\ mode \in CompilationMode
    /\ funcs = [f \in Funcs |-> "Uninit"]
    /\ ready = {}
    /\ pc = [t \in Threads |-> "idle"]
    /\ arg = [t \in Threads |-> NoFunc]
    /\ outcome = [t \in Threads |-> "none"]
    /\ result = [t \in Threads |-> "none"]
    /\ fuel \in [Threads -> 0 .. MaxFuel]

-----------------------------------------------------------------------------
(* Loading a module: translate_func once per body.                         *)

LoadUnchanged == UNCHANGED <<mode, pc, arg, outcome, result, fuel>>

\* Mutant: the eager path forgets to ask the validator.
init_compiled_unvalidated(f) ==
    /\ mode = "Eager"
    /\ funcs[f] = "Uninit"
    /\ funcs' = [funcs EXCEPT ![f] = "Compiled"]
    /\ UNCHANGED ready
    /\ LoadUnchanged

\* Eager: validated and translated here; an error makes Module::new fail and
\* leaves the entry Uninit.
init_func_as_compiled(f) ==
    /\ mode = "Eager"
    /\ f \in Valid \cap Translatable
    /\ funcs[f] = "Uninit"
    /\ funcs' = [funcs EXCEPT ![f] = "Compiled"]
    /\ UNCHANGED ready
    /\ LoadUnchanged

\* Both lazy modes store the bytes (LazyFuncTranslator::setup) before the
\* validator of LazyTranslation looks at them.
init_func_as_uncompiled(f) ==
    /\ mode # "Eager"
    /\ funcs[f] = "Uninit"
    /\ funcs' = [funcs EXCEPT ![f] = "Uncompiled"]
    /\ UNCHANGED ready
    /\ LoadUnchanged

\* Mutant: a module is handed out while bodies are still missing.
publish_partial_module(m) ==
    /\ m \notin ready
    /\ ready' = ready \cup {m}
    /\ UNCHANGED funcs
    /\ LoadUnchanged

\* Module::new returns Ok after the last body: only then can an instance, and
\* with it a call of `get`, name a function of the module.
finish_module(m) ==
    /\ m \notin ready
    /\ \A f \in m : funcs[f] # "Uninit"
    /\ mode = "LazyTranslation" => m \subseteq Valid
    /\ ready' = ready \cup {m}
    /\ UNCHANGED funcs
    /\ LoadUnchanged

-----------------------------------------------------------------------------
(* CodeMap::get and the sections it is made of.                            *)

Return(t, r) ==
    /\ pc' = [pc EXCEPT ![t] = "idle"]
    /\ result' = [result EXCEPT ![t] = r]

\* An executor reaches a call of f.
get(t, f) ==
    /\ pc[t] = "idle"
    /\ \E m \in ready : f \in m
    /\ pc' = [pc EXCEPT ![t] = "get_compiled"]
    /\ arg' = [arg EXCEPT ![t] = f]
    /\ result' = [result EXCEPT ![t] = "none"]
    /\ UNCHANGED <<mode, funcs, ready, outcome, fuel>>

\* The fast path.
get_compiled(t) ==
    /\ pc[t] = "get_compiled"
    /\ \/ /\ funcs[arg[t]] = "Compiled"
          /\ Return(t, "ok")
       \/ /\ funcs[arg[t]] # "Compiled"
          /\ pc' = [pc EXCEPT ![t] = "get_uncompiled"]
          /\ UNCHANGED result
    /\ UNCHANGED <<mode, funcs, ready, arg, outcome, fuel>>

\* Mutant: the body is cloned instead of taken, the entry stays Uncompiled.
clone_uncompiled(t) ==
    /\ pc[t] = "get_uncompiled"
    /\ pc' = [pc EXCEPT ![t] =
                 IF funcs[arg[t]] = "Uncompiled" THEN "compile" ELSE "wait"]
    /\ UNCHANGED <<mode, funcs, ready, arg, outcome, result, fuel>>

\* Mutant: an entry that is being compiled counts as not compiled yet.
take_uncompiled_twice(t) ==
    /\ pc[t] = "get_uncompiled"
    /\ \/ /\ funcs[arg[t]] \in {"Uncompiled", "Compiling", "FailedToCompile"}
          /\ funcs' = [funcs EXCEPT ![arg[t]] = "Compiling"]
          /\ pc' = [pc EXCEPT ![t] = "compile"]
       \/ /\ funcs[arg[t]] = "Compiled"
          /\ pc' = [pc EXCEPT ![t] = "wait"]
          /\ UNCHANGED funcs
    /\ UNCHANGED <<mode, ready, arg, outcome, result, fuel>>

\* Take the uncompiled body and mark the entry, or go and wait.
get_uncompiled(t) ==
    /\ pc[t] = "get_uncompiled"
    /\ \/ /\ funcs[arg[t]] = "Uncompiled"
          /\ funcs' = [funcs EXCEPT ![arg[t]] = "Compiling"]
          /\ pc' = [pc EXCEPT ![t] = "compile"]
       \/ /\ funcs[arg[t]] # "Uncompiled"
          /\ pc' = [pc EXCEPT ![t] = "wait"]
          /\ UNCHANGED funcs
    /\ UNCHANGED <<mode, ready, arg, outcome, result, fuel>>

\* LazyTranslation has validated the body when the module was loaded.
Compiles(f) == f \in Translatable /\ (mode = "LazyTranslation" \/ f \in Valid)

\* Mutant: the fuel is taken without looking whether there is enough.
compile_unchecked(t) ==
    /\ pc[t] = "compile"
    /\ pc' = [pc EXCEPT ![t] = "publish"]
    /\ fuel' = IF Metered THEN [fuel EXCEPT ![t] = @ - Cost] ELSE fuel
    /\ outcome' = [outcome EXCEPT ![t] = IF Compiles(arg[t]) THEN "ok" ELSE "invalid"]
    /\ UNCHANGED <<mode, funcs, ready, arg, result>>

\* UncompiledFuncEntity::compile, outside the lock: the fuel is taken first
\* and stays spent when the body then turns out invalid.
compile(t) ==
    /\ pc[t] = "compile"
    /\ pc' = [pc EXCEPT ![t] = "publish"]
    /\ \/ /\ Metered /\ fuel[t] < Cost
          /\ outcome' = [outcome EXCEPT ![t] = "out_of_fuel"]
          /\ UNCHANGED fuel
       \/ /\ ~Metered \/ fuel[t] >= Cost
          /\ fuel' = IF Metered THEN [fuel EXCEPT ![t] = @ - Cost] ELSE fuel
          /\ outcome' = [outcome EXCEPT ![t] =
                            IF Compiles(arg[t]) THEN "ok" ELSE "invalid"]
    /\ UNCHANGED <<mode, funcs, ready, arg, result>>

\* Mutant: an error returns early through `?` and leaves the entry Compiling.
publish_only_success(t) ==
    /\ pc[t] = "publish"
    /\ funcs' = IF outcome[t] = "ok"
                THEN [funcs EXCEPT ![arg[t]] = "Compiled"] ELSE funcs
    /\ Return(t, outcome[t])
    /\ outcome' = [outcome EXCEPT ![t] = "none"]
    /\ UNCHANGED <<mode, ready, arg, fuel>>

\* The section that ends `compile`: set_compiled or set_failed_to_compile,
\* which both assert that the entry is still Compiling.
publish(t) ==
    LET asserted == funcs[arg[t]] = "Compiling"
        entity == IF outcome[t] = "ok" THEN "Compiled" ELSE "FailedToCompile"
    IN /\ pc[t] = "publish"
       /\ funcs' = IF asserted THEN [funcs EXCEPT ![arg[t]] = entity] ELSE funcs
       /\ Return(t, IF asserted THEN outcome[t] ELSE "panic")
       /\ outcome' = [outcome EXCEPT ![t] = "none"]
       /\ UNCHANGED <<mode, ready, arg, fuel>>

\* What wait_for_compilation makes of an entry that is not Compiling.
WaitResult(entity) ==
    CASE entity = "Compiled" -> "ok"
      [] entity = "FailedToCompile" -> "lazy_failed"
      [] OTHER -> "panic"

\* The turn of the loop of wait_for_compilation that ends it; the turns that
\* find the entry Compiling change nothing.
wait_for_compilation(t) ==
    /\ pc[t] = "wait"
    /\ funcs[arg[t]] # "Compiling"
    /\ Return(t, WaitResult(funcs[arg[t]]))
    /\ UNCHANGED <<mode, funcs, ready, arg, outcome, fuel>>

\* Store::set_fuel between two calls.
set_fuel(t) ==
    /\ Metered
    /\ pc[t] = "idle"
    /\ fuel' = [fuel EXCEPT ![t] = MaxFuel]
    /\ UNCHANGED <<mode, funcs, ready, pc, arg, outcome, result>>

-----------------------------------------------------------------------------
Load ==
    \/ \E f \in Funcs : init_func_as_compiled(f) \/ init_func_as_uncompiled(f)
    \/ \E m \in Modules : finish_module(m)

Run(t) ==
    \/ get_compiled(t)
    \/ get_uncompiled(t)
    \/ compile(t)
    \/ publish(t)
    \/ wait_for_compilation(t)

Next ==
    \/ Load
    \/ \E t \in Threads : Run(t) \/ set_fuel(t) \/ \E f \in Funcs : get(t, f)

\* The operating system schedules every thread again and again and the lock is
\* held for a few instructions only, so a thread inside `get` keeps moving.
\* Nobody is obliged to call `get`, to load a module or to add fuel.
Fairness == \A t \in Threads : WF_vars(Run(t))

Spec == Init /\ [][Next]_vars /\ Fairness

-----------------------------------------------------------------------------
\* The type of every variable.
TypeOK ==
    /\ mode \in CompilationMode
    /\ funcs \in [Funcs -> FuncEntity]
    /\ ready \subseteq Modules
    /\ pc \in [Threads -> PC]
    /\ arg \in [Threads -> Funcs \cup {NoFunc}]
    /\ outcome \in [Threads -> Outcome]
    /\ result \in [Threads -> Result]
    /\ fuel \in [Threads -> 0 .. MaxFuel]

Compiler(t, f) == pc[t] \in {"compile", "publish"} /\ arg[t] = f

\* An entry is Compiling exactly while one thread, and only one, holds its
\* body: no body is translated twice, and no waiter of wait_for_compilation
\* spins on an entry that nobody is going to settle.
OneCompiler ==
    \A f \in Funcs :
        /\ \A t, u \in Threads : Compiler(t, f) /\ Compiler(u, f) => t = u
        /\ funcs[f] = "Compiling" <=> \E t \in Threads : Compiler(t, f)

\* No assertion of set_compiled and set_failed_to_compile fails and no thread
\* meets the "unexpected function state" of wait_for_compilation.
NoPanic == \A t \in Threads : result[t] # "panic"

\* Code that can be executed went through the validator, whichever of the two
\* places (module load, first call) validates it in this mode.
OnlyValidCode ==
    \A f \in Funcs : funcs[f] = "Compiled" => f \in Valid \cap Translatable

\* A `get` that is under way returns, also when it waits for another thread.
GetReturns == \A t \in Threads : pc[t] # "idle" ~> pc[t] = "idle"

-----------------------------------------------------------------------------
(* What a caller sees: CodeMap implements OnceCompiled.                    *)

VerdictOf(entity) ==
    CASE entity = "Compiled" -> "ok"
      [] entity = "FailedToCompile" -> "err"
      [] OTHER -> "open"

AnswerOf(t) ==
    CASE pc[t] # "idle" -> "pending"
      [] pc[t] = "idle" /\ result[t] \in {"none", "ok"} -> result[t]
      [] OTHER -> "err"

Once == INSTANCE OnceCompiled WITH
    verdict <- [f \in Funcs |-> VerdictOf(funcs[f])],
    asks <- arg,
    answer <- [t \in Threads |-> AnswerOf(t)]

\* Every answer `get` gives about a function is one and the same verdict,
\* reached once: the interleavings of the three critical sections stay hidden.
OneVerdict == Once!Spec

\* The errors `get` and `wait_for_compilation` document: the body is bad, or
\* the caller's own store is short of fuel.
ErrorsAsDocumented ==
    [][\A t \in Threads :
          pc[t] = "wait" /\ result'[t] = "lazy_failed"
             => \/ arg[t] \notin Valid \cap Translatable
                \/ Metered /\ fuel[t] < Cost]_vars
=============================================================================

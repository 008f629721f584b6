# TLA+ models of the Motoko debugger and its interpreter

The repository is a source-level debugger for Motoko programs compiled to Wasm. It is made of a fork of the
Wasmi interpreter (`crates/wasmi` and the crates below it), which was taught to execute one instruction at
a time, and of a debugger (`crates/debugger`) that drives that interpreter from a command line. This
directory holds TLA+ models of the parts that are hard to get right: how function bodies are compiled
on demand by several threads, how the translator turns Wasm operators into instructions that do the same, how the
interpreter keeps its stacks, pointers and caches together, and what a debugging
session may do with an interpreter that is stopped in the middle of a function.

## 1. The system

### Components, their state and operations

| Component | State | Operations | Hard behaviour |
|---|---|---|---|
| Code map, `engine/code_map.rs` | one `FuncEntity` per function under a lock | `init_func_as_compiled`, `init_func_as_uncompiled`, `get` and its three critical sections | threads race for a body, wait for one another, fail |
| Executor, `engine/executor/instrs*` , `stack/*`, `cache.rs` | call stack, instance stack, value stack, `ip`, `sp`, instance cache | one per instruction | raw pointers into a buffer that moves; caches of another object's state |
| Engine executor, `engine/executor/mod.rs`, `resumable.rs` | a pool of stacks, suspended invocations | root call, resume, drop | errors leave a stack as it is and the stack is reused |
| Debugger session, `debugger/src/debugger.rs`, `commands/{process,thread,breakpoint}.rs` | store, stack and engine in statics, executor, function being run, shadow call stack, breakpoints, interrupt flag | launch, continue, six kinds of step, breakpoints, Ctrl-C | any order of commands, after any failure |
| Breakpoint table, `breakpoint.rs` | two hash maps | insert, delete by id, match by substring | ids depend on hash order |
| Command front end, `process.rs`, `commands/*` | command and alias tables, last line | dispatch, repeat on an empty line | aliases dispatch again |
| DWARF, `dwarf/*` | rows sorted by address, subroutine trees | line of an offset, variables of a scope | searches at the borders of ranges |
| Motoko heap, `heap.rs` | none | decode a tagged object | runs functions of the debugged program while it is stopped |
| Translator, `engine/translator/*` | value stack of providers, references to locals, register allocator, label table, instructions emitted so far | one visit per Wasm operator | the last instruction is rewritten by the next operator; registers are reused; forward branches |
| Instructions of the executor, `executor/instrs/*`, over `crates/core` | registers, the store | one arm per instruction, twice: `execute` and `execute_instr` | parameter words, immediates, overlapping copies |
| Memory, table, segments, globals, `memory/`, `table/`, `limits.rs`, `store.rs` | bytes, elements, limits, fuel | size, grow, get, set, fill, copy, init, drop | partial failure, limiter, fuel, the executor's cached pointer |
| Module, linker, instantiation | definitions, arenas of entities | parse, link, instantiate | partial failure |
| WASI and Motoko system calls, `crates/wasi` | file and environment context | host functions | fail in the middle of a call |
| Collections, core, ir, cli, inst_macro | - | data types, arithmetic, instruction set, argument parsing | - |

The session calls `Executor::execute_step` for every instruction; the executor calls back through the
`Interceptor` trait (`execute_inst`, `invoke_func`, `pop_frame`). The executor asks the code map for the body
of every function it calls, and the code map has the translator make it. The engine executor and the session are two drivers of the same executor: the
first creates it anew for each call and throws it away on an error, the second keeps it.

What makes each part correct: one compilation and one verdict per function; whatever encoding the translator
picks for an operator, executing it gives the value, the effect or the trap of Wasm; the executor always executes an
instruction of its newest frame, in that frame's registers and that instance's memory; the engine shows
nothing of an earlier call on a reused stack; the debugger stops where its commands say, shows the calls that are
active, and never steps something that is not there. `PROJECT.json` lists under "hazards" the lines where each
of these can go wrong.

### Modules

| Module | Models | Role |
|---|---|---|
| `OnceCompiled` | what a caller of `CodeMap::get` is promised | abstract specification |
| `CodeMap` | `code_map.rs`, `translate_func`, three compilation modes | implements `OnceCompiled` |
| `CodeMap_proofs` | | theorems |
| `Executor` | one executor, its stacks, every control instruction | state and actions shared by two drivers |
| `Executor_proofs` | | lemmas on stacks and on every instruction, for both drivers |
| `WasmCalls` | a Wasm call as a stack of activations | abstract specification |
| `EngineExecutor` | root calls, suspension and reuse of a stack over `Executor` | implements `WasmCalls` |
| `EngineExecutor_proofs` | | theorems |
| `DebugSession` | the debugger over `Executor` | |
| `DebugSession_proofs` | | theorems, those of the breakpoint table included |
| `Breakpoints` | the breakpoint table and the ids of list and delete | |
| `UntypedVal` | the numeric operations of `crates/core` at small widths | operators |
| `WasmNumerics` | the same operations as the Wasm specification defines them | reference definitions |
| `Instructions` | the instruction set, by family, operator and form of operands | operators |
| `NumericVisitor` | for each numeric operator, what the translator may do with it | operators |
| `NumericTranslation` | translation and execution of one numeric operator | over `NumericVisitor` |
| `BranchEncoding` | comparison, eqz and branch: fusing, labels, far branches | over `NumericTranslation` |
| `NumericTranslation_proofs` | | theorems, those of `BranchEncoding` included |
| `CopyEncoder` | the encoding of copies and register lists | operators |
| `ValueTransfer` | assignments, br, br_if, br_table and return with values | over `CopyEncoder` |
| `ValueTransfer_proofs` | | theorems |
| `LocalPreservation` | value stack, references to locals, register allocation, local.set, defragmentation | over `CopyEncoder` |
| `LoadStore` | loads and stores, their parameter words | over `UntypedVal` |
| `LoadStore_proofs` | | theorems |
| `WasmStore` | the store of the Wasm specification | abstract specification |
| `StoreOps` | operators on memories, tables, segments and globals | implements `WasmStore` |
| `StoreOps_proofs` | | theorems |
| `Programs`, `MC*` | programs and constants for TLC | |

## 2. How state and actions correspond to the code

**CodeMap.** `funcs` is `CodeMap.funcs`, each entry reduced to its variant. A section between `lock()` and the
release of the guard is one action; a thread's `pc` says which section of `get` comes next. `compile` is the translation
outside the lock, `publish` the section that stores its outcome and asserts that the entry is still `Compiling`. A
failed assertion is the result "panic". `mode` is chosen once; functions are split into modules, and
a function can be called only after `finish_module` for its module, because only then does an instance exist. Whether a
body is valid and whether it can be translated are constants, fuel is a counter per store with one price
per body. `Module::new_unchecked`, where the embedder vouches for the code and nothing is
validated, is left out: `OnlyValidCode` is about checked modules.

**Executor.** A program is a constant: a sequence of instruction words per function. Six kinds of words differ in
control (plain, memory.grow, three kinds of calls, returns) besides the parameter words that follow an
instruction and must never be executed. A plain instruction carries the set of words that may come next, which
stands for the value that decides a branch, and a flag that says whether it may trap. A frame holds its function, the saved `ip`, its offset and
whether it changed the instance, as `CallFrame` does. `cap` stands for the identity of the value stack's buffer: it
changes exactly when `Vec::reserve` moves the cells, and `sp` remembers the `cap` it was made for, so that a
pointer into a freed buffer is a pointer whose `cap` differs. `cache` is the instance and the size of the memory it holds a
view of. Each action follows its function step by step, the order of effects before a failing step included: the
frame that is not pushed at the recursion limit though the executor has moved into it, the `ip` that has advanced to
a parameter word when an indirect call traps, the frame that a tail call of a host function has popped. An
action's argument `out` is what `execute_instr` hands back: signal, called function, popped flag.

`WellFormed` states what validation and the translator promise about a body: control continues at instructions and
never at parameter words, and an internal call stays within its instance. `Executor` assumes it; for the operators they cover,
`WordsConsumed` and `NoStrayWord`, both proved, say the first half of the translator's code.

**EngineExecutor.** `phase` is the embedder's view of the one stack: idle, running, suspended by a failing host
function, done, error. A stack in the pool keeps what the last call left on it. `execute_root_func` resets it. Both
`execute_func` and `execute_func_resumable` are there: a host error may become "suspended" or "error".

**DebugSession.** `ui` is where the user is: at the prompt, in a command, or gone (left, a panic, or a step on something that is not
there). `exec` says whether `MainDebugger.executor` is missing, live or of a store that was replaced. A command is its loop: `cmd` keeps the style, the frames
it started with and whether it is at its first instruction; `execute_step` is one turn with all its callbacks, and
`after_step` the loop's decision. `shadow` is `invoked_func_index`. The history variable `clean` says that nothing
has failed since the last restart. Lines and the instructions of the main file are constants, where DWARF would provide them.

**Breakpoints.** A `HashMap` is its keys in iteration order. The standard library promises no order, and its table may reserve room, and rehash,
before it looks whether a key is there; so an insertion, of a present key as well, and a removal may each leave any order. All that is assumed is that two
iterations with neither in between go through the keys alike. Ids are positions, those of breakpoints on functions first. `printed` is what the
user saw last, and `current` says that no breakpoint on a function was set, set again or deleted since.

### The translator and the instructions

These modules have one shape. The state holds a few Wasm operators, what the translator has emitted, and registers. One action per
translator function (`translate_*`, `visit_*`, `encode_*`) emits words, one action per handler of the executor (`execute_*`) runs
them, and a property compares the outcome with what Wasm says of the operators. Which handler an opcode leads to is written
down twice in the code, in `execute` and in the debugger's `execute_instr`; the modules keep both tables and an
instruction that either lacks stops the run. An operand is a provider, as in the code: a register or a constant.

**NumericVisitor, NumericTranslation.** Widths are parameters: 1, 2, 4 and 8 bits stand for 8, 16, 32 and 64, so that a constant
can fit a 16-bit immediate signed, unsigned or not at all, and every value is enumerable. A float is a sign and a magnitude with an infinity and a
NaN; comparisons, minimum, maximum, sign operations and truncation are computed on it, sums, products, roots and roundings stay terms
(`fterm`), equal only if operator and operands are equal. `Rows` lists for each operator the translator function that visits it, its
optimisations for a register and a constant, for a constant and a register, and for two registers, and how a constant fold is made; a translator function
is one action for all its operators. The immediate of a division is built by `new_unchecked`; `UncheckedNonZero` says it never holds a zero.

**BranchEncoding.** Two operators and a branch, the result in a local or not, the condition the last result or another
register, the label behind the branch (pinned now) or ahead (pinned later, and `update_branch_offset` then completes the
instruction). Offsets that do not fit 16 bits go through `ComparatorAndOffset`, whose two halves are `HalfBits` wide.

**CopyEncoder, ValueTransfer.** Values are register numbers, so that a register's content says where it came from.
`encode_copies` picks among eight instructions by the number of values, whether they form a span and whether a
sequential copy would overwrite a value that is still to be read; a copy after a copy may be merged into one. A constant that is no
immediate lives in a register of its own (`alloc_const`).

**LocalPreservation.** `stack` is `ValueStack`: the providers with their tags, `LocalRefs` as its vector with two kinds of links,
and `RegisterAlloc` with the stash of preserved registers, whose register is a function of the slot. `enc` is the
encoder with its last instruction and the notified one. Next to them runs the Wasm function itself (`wasm`): its stack and locals. The property
`StackValues` executes all that was emitted so far and compares every provider and every local with it. An if whose condition is zero
is entered like any other and its effects taken back at its end, and a `br_if` repeats a loop's body once, so that the code is judged on
paths other than the textual one. The model has no frames inside frames, no block parameters or results and no else.

**LoadStore, StoreOps.** `LoadStore` has two memories of a few bytes and two operators in a row, because the second one's instruction is where the
first one's optional memory word would be, and because it may store the value that the first one loaded; `instrs` are the words emitted so far. `StoreOps` lets operators follow one another on one store: `req` is what Wasm was asked,
`code` the words emitted for it, `res` the answer. Memories, tables and globals have addresses, and the instance's indices are mapped to them, so that an
imported global may have two. `buf` counts how often the bytes of a memory moved, and `cache` is where the executor believes memory 0 (its bytes) and global 0
are. Global 0 is read and written through the cache, every other through the store. `global.get` of an immutable global that the module
defines leaves its constant on the translator's stack (`forward_global`), or becomes `ref.func` if a function initialises it; `global.set` of a constant has an
immediate form for i32 and one for i64, both sign extended from 16 bits. Limiter and fuel are chosen at the start.

`WasmStore` has the operations of the Wasm specification with the freedom it leaves filled in: a memory or table
grows only to a size within its maximum and the limiter's, and pays for it; growth is refused only if there is no such room or, for a table, no fuel (and not at all by zero); it
is an error only if the limiter wants one; `OutOfFuel` is the trap of an operation that could happen but for its price. An operation that loses one of these
checks, or makes one too many, does not implement it.

## 3. Runs

Passing runs:

- `code_map`: four functions in three modules (one of two good functions, one whose body does not validate, one whose
  body does not translate), two threads, all modes, fuel for one compilation and a refill. Two threads suffice for every
  race on one entry (the owner of the body and one waiter); the two functions of one module let the threads compile side by side, and the
  other modules overlap their loading with the calls. `OneCompiler`, `NoPanic`,
  `OnlyValidCode`, the refinement `OneVerdict` and the liveness property `GetReturns`.
- `engine_calls`: four functions in two instances that share a memory, with recursion, calls and tail calls in both
  directions, a table with a null entry, host functions that return, fail and grow the memory, and one too wide for the
  stack. Four frames and ten cells, starting from a buffer of two, so that both limits are hit and the buffer moves
  several times. The invariants on pointers, frames, return addresses and cache, and the refinement `CallsImplemented`.
- `debug_session` (`MCDebugger`): a loop over a direct and an indirect call, a callee that calls a host function and may trap. Two
  frames and six cells, at most two launches on the shadow stack; the
  smallest bounds with which a launch overflows, a stopped process is launched over, and a step crosses a call. Deadlock is not checked
  because the user may leave. The program is restricted to calls and returns the shadow stack follows (see `backtrace_drift`). The
  breakpoint table has behaviours of its own, with three functions and two instructions, so that what stays after a removal can still change its
  order. `DeletesWhatWasListed`.
- `numeric_and_control`: every numeric operator with its operands in registers and constant in every combination, about ten values
  of each integer type around the borders of the immediates, signed zeros, infinities and NaN; every comparison with both branches, near and
  far, forward and backward. `SameResult`, `UncheckedNonZero`, `SameBranch`, `ResultKept`. The two modules share
  operators and no variable, so a behaviour of the run is a behaviour of one of them.
- `tables_and_memories`: pairs of loads and stores of all widths at pointers and offsets on both sides of the end of memory and of the
  address space; three operations in a row on two memories, two tables, a data and an element segment and five globals (one imported under the indices 0 and 1, an
  i64, a constant, a reference to a function), the last one any of about a thousand requests, under three limiters and with no fuel, little and enough. `SameAccess`, `NoStrayWord`, `CacheFresh`, and the refinement `Refines`.
  A byte has one bit, a 16-bit constant two and a 32-bit value four, so that constants fall on both sides of the immediates and addresses, page counts and table
  sizes overflow. The maxima lie below what the types could hold, so that limiter, maximum and type each are the first to refuse. A behaviour is one of `LoadStore` or one of `StoreOps`.
- `locals_and_copies`: functions of two locals and up to six operators, all of them (drop and end are free). Six suffice for a
  preserved register to be vacated, collected and handed out again while an instruction that reads it is the last one, and for `LocalRefs`,
  whose threshold is lowered from 16 to 3, to be built, drained and reused. `StackValues`, `DefragValues`, `RefsInSync`. Beside them, in behaviours of their own, transfers of up to six values over
  nine registers to blocks whose parameters overlap the operands from below and from above, and tables of up to three targets; six values, two of them
  in the instruction itself, make a register list of more than one word. `SameTransfer`, `WordsConsumed`.

Runs that show a disagreement between the code and what the repository says of it; section 6 has the traces:
`code_map_errors`, `tail_call_to_host`, `stale_executor`, `parameter_word`, `backtrace_drift`, `far_branch`. Each has the configuration
of the passing run of its module but for the property and, in two of
them, the host functions or the program.

Every property has a mutant: a definition of the same module that changes one mapped definition the way a
slip in the code would, under which the property fails. They stand next to the definition they change.

Named bounds: `MaxFuel` (fuel a refill gives), `MaxPages` (memory growth), `MaxTrace` (launches and calls on the shadow stack before
another launch), `MaxOps` (operators of a function in `LocalPreservation`), `Rounds` (operations in a row in `StoreOps`),
`MaxElems` and `PagesMax` (limits of the types, shrunk). `RecursionLimit`, `MinHeight` and `MaxHeight` are the code's own `StackLimits`, only smaller.

### Fairness

- `CodeMap`: weak fairness of each thread inside `get`. The operating system schedules threads again and again, the
  lock is held for a few instructions, and the waiter spins, so its step stays enabled once the entry is settled. Nobody
  has to call `get`, load a module or refill fuel.
- `DebugSession`: weak fairness of the step of a running command. The command loop is the program's only thread and does nothing but step.
  Nothing is assumed of the user. `InterruptStops` in addition needs a program whose loops pass an instruction of the main file, because
  the flag is looked at only there; the program of the run is one.

`EngineExecutor` states no liveness: a Wasm program need not end. The translator's modules have straight-line behaviours that end, and TLC checks
for deadlock that none ends before its last operator is translated and executed.

## 4. Theorems

Proved with TLAPS for all values of the constants. Every invariant and every refinement named here is also checked by TLC on the instance of a run.

| Theorem | Property | Hypotheses |
|---|---|---|
| `CodeMap_proofs!TypeCorrect`, `MutualExclusion`, `PanicFree`, `ValidatedCode` | `TypeOK`, `OneCompiler`, `NoPanic`, `OnlyValidCode` | |
| `CodeMap_proofs!Refinement` | `OneVerdict`: implements `OnceCompiled` | |
| `EngineExecutor_proofs!TypeCorrect`, `FrameOnStack`, `ValidStackPointer`, `DisjointFrames`, `ValidReturnAddresses`, `CurrentCache`, `FinishesClean` | `TypeOK` and the six safety invariants of `engine_calls` | `TailHostsFail` |
| `EngineExecutor_proofs!Refinement` | `CallsImplemented`: implements `WasmCalls` | `TailHostsFail` |
| `DebugSession_proofs!TypeCorrect`, `FinishIsReturn`, `StepOver`, `StepOut` | `TypeOK`, `FinishReturned`, `StepOverStays`, `StepOutReturns` | |
| `DebugSession_proofs!Breaks` | `BreakpointStops` | `ImportsAreHosts` |
| `DebugSession_proofs!HealthyUntilFailure` | `Healthy` | `TailHostsFail`, `ReturnsInOneWord` |
| `DebugSession_proofs!BacktraceFollows` | `Backtrace` | `ImportsAreHosts`, `Followed` |
| `DebugSession_proofs!DeletesListed` | `DeletesWhatWasListed` | |
| `StoreOps_proofs!FreshCache` | `CacheFresh` | |
| `StoreOps_proofs!Refinement` | `Refines`: implements `WasmStore` | `NoAlias` |
| `LoadStore_proofs!WordsInPlace`, `SameAsWasm` | `NoStrayWord`, `SameAccess` | |
| `ValueTransfer_proofs!SameTransferAlways`, `WordsAlwaysConsumed` | `SameTransfer`, `WordsConsumed` | |
| `NumericTranslation_proofs!NonZeroConstants` | `UncheckedNonZero` | |
| `NumericTranslation_proofs!SameBranchAlways`, `ResultAlwaysKept` | `SameBranch`, `ResultKept` | |

### The arguments

**`CodeMap_proofs`.** The properties are not inductive one by one. `publish` asserts that the entry is `Compiling`, which needs that the thread
that publishes is the one that took the body (`OneCompiler`); a thread that waits must never find the entry `Uninit`
or `Uncompiled`, which needs that entries never go back and that a function asked for belongs to a loaded module; and
an entry that LazyTranslation compiles without validating is valid only because a function that is asked for belongs to a module
that was validated. `IInv` joins these facts as `CallsReady`, `ModulesComplete`, `WaitersLate` and `OutcomeSound`. For the refinement, the abstract verdict
of a function is read off its entry; only `publish`, and loading a module that is compiled eagerly, give a verdict, and `IInv` says that none was given before.

**`Executor_proofs`.** Both drivers execute the same instructions, so what an instruction does is proved once. `StackShape` types the stacks; `StackOK` says
of every frame that it is `Addressed` (its return address is an instruction of its function), that registers are ordered without
overlap, and, the part that took most of the work, that frames and instances are `Coherent`: there is a function from frames to positions on the
instance stack that grows exactly where a frame has `changed`, ends at the top, and gives each frame the instance of its function. From that
follows that the instance below the popped one is the caller's. Push, pop, and the merge of a tail call are lemmas on stacks, `InstrOK` joins one
lemma per instruction, and `InstrEffect` and `InstrFrames` tell what an instruction did to the frames from the signal it hands back.

**`EngineExecutor_proofs`.** The properties speak of the newest frame; a return makes the frame below the newest, so `IInv` has to say of all frames what the
properties say of one, also while the call is suspended, when the stack lies in the resumable call and the executor's pointers are gone. The
refinement maps frames to activations, oldest first, and the instance a function runs in to the cached one; with `IInv` every
action is one step of `WasmCalls` or a stutter, one lemma for each.

**`DebugSession_proofs`.** `SessionInv` fits stack, executor and command together and holds of every program. `Stepping` says what the step commands rely on
without checking it: they compare the *number* of frames with the number at their start, and the frames below that height are still the same ones. It is inductive
because an instruction changes at most the top frame, which `InstrFrames` says. `OrderInv` is the executor's `InOrder` from whatever cell the
newest launch began at, because a launch on top of a stopped call does not reset the stack; it holds until something fails.
`TraceInv` is `Backtrace` place by place: the shadow stack, counted from its end, names the frames' functions.
`TableInv` is about the breakpoint table alone: the iteration order is a sequence of names, and the one printed last unless `current` is false. A deletion by
position then removes the key that was printed there, whatever order the rest takes.

**`StoreOps_proofs`.** `StoreInv` joins the types of the contents (`Contents`, tables no longer than a 32-bit length can say, immutable globals as they were initialised), that the
words under way are those of the operator asked for (`Translated`), and `CacheFresh`. The refinement goes operator by operator: the
words that were chosen by the form of the operands are executed to the effect `WasmStore` gives to the operator, and in each the cache follows the bytes of memory 0.
For growth, `MemoryGrowAnswers` and `TableGrowAnswers` say why each answer is given: the limiter is asked about a size that was cut to what the type can hold,
and still refuses only what has no room. For globals, `Located` says that the cached pointer and the look-up lead to the same cell, which needs
`CacheFresh`; that a constant or a function may stand for an immutable global needs that nothing ever wrote to its cell, whatever index it was written by.

**`LoadStore_proofs`.** `CodeInv`: there is a set of positions, the first and the one after the last word among them, at each of which stands an instruction followed by the words
its form asks for up to the next such position; `ip` is one of them. The delicate form is the optional memory index, which
the executor recognises by looking at the opcode of the next word: it is safe because no instruction has that opcode, and because the words appended later begin at an old end.

`InStep` carries `SameAccess`: the words emitted are those of the operators passed so far, none behind a trap that is known at translation, and whenever `ip` is between two
instructions, memories, registers and trap are what Wasm has between the two operators. Three facts hold it up. An address that is constant and does not fit 32 bits traps at
translation, and Wasm traps too because a memory has at most 2^32 bytes. The memory word is there exactly if the memory is not the first. A value, an offset or an address that
went through a narrower immediate comes back, and a value cut to the width of the access is cut the same way whether as constant or in a register, by
lemmas on remainders. That the bytes of a value add up to it needs no proof: both sides read and write bytes by the same little-endian sum, which stays unexpanded.

**`ValueTransfer_proofs`.** `TransferInv` says in `Ready` what the words from `ip` on will do, in the words of Wasm: a copy puts these cells into these registers and goes on
(`Going`), a return hands out these values (`Leaving`), a conditional form does one of two such things (`MayLeave`, `MayBranch`), and a table does one of them per target (`AtTable`). Each
`encode_*` function establishes it for any number of values, each `execute_*` uses it up. Underneath lie three facts on copies. Copying cells
one after another equals copying them at once if no cell is read after it was overwritten (`NoClash`), which is what the two tests for overlap of the code
test. Dropping the leading copies that do nothing, and merging two copies into one instruction, changes nothing. And a register list, which is the
values in words of three, gives back the values in order, and skipping it ends behind its last word, whatever its length. These are statements about sequences of every length, hence inductions; as the
library's induction schemes cannot be instantiated, each takes the least element of the set of lengths at which the statement fails and shows that there is none.

**`NumericTranslation_proofs`.** `VisitInv` says what a translator function has in hand when it builds an immediate: an operator that can divide comes to `divrem`, constants are
in the range of their type, and what was emitted so far holds no zero where the type says there is none. That a constant which is not zero
as i32 or i64 does not become zero as a 16-bit immediate is the heart of it.

`BranchInv` carries the two properties of branches. It says of the one to three words of code that, with the registers as the comparisons still to run will leave them
(`After`), the last word decides as Wasm does and its offset ends at the label (`Aims`), and that a local holds the result it was assigned (`Stored`). Fusing removes a
comparison from the code, so the branch in its place must decide on its operands what it decided on its result (`Becomes`), and nothing may need that result
any more, which is why the test that it is no local is there. Folding an eqz into the branch negates the comparator: that `negate` gives the opposite of every comparison is true
because it gives none for an order of floats (`Negated`). When the label is pinned the offset is written into that same word. That the methods compute what Wasm says is proved for comparisons, i32.add and the
bitwise operators: a sum that wraps is the pattern that represents it, and the bits of a result are the same set whichever way they are collected.
Branches encoded wide are outside `SameBranch`; the run `far_branch` is about them.

### Hypotheses and assumptions

Each hypothesis excludes programs for which the property is false; for three of them a configuration shows it:

- `TailHostsFail`, no host function that is the target of a tail call returns: `tail_call_to_host`. Hosts that fail in that position
  are covered, as the repository's own resumable tests use them.
- `ReturnsInOneWord`: when the root function returns a list of values, the executor stays behind at a word of the list, and the debugger keeps the executor.
- `ImportsAreHosts`: the shadow stack and the breakpoints take an imported function for a host function, which is true of the debugger's own instance.
- `Followed`: no tail calls, no host function behind a table, no conditional return: `backtrace_drift`.
- `NoAlias`, no memory or table has two indices: `MCAliasedTables.cfg`.

The assumptions type the constants (`CodeMapAssumption`, `ExecutorAssumption` with `WellFormed`, `EngineExecutorAssumption`, `DebugSessionAssumption`,
`StoreAssumption`, `GlobalAssumption`, `RequestAssumption`, `AccessAssumption`, `TransferAssumption`, `BranchAssumption`, `NamesAssumption`, `SamplesAssumption`, `WidthAssumption`). `GlobalAssumption` says what it means that a module
defines an immutable global: it has one index, and its initial value is the one the translator reads from the initialiser. `AccessAssumption` also says that a
memory is no longer than an i32 can address, and `TransferAssumption` what validation and register allocation give: operands in registers of the frame, labels that exist, room for a block's parameters. `PowerAssumption` states, of any two of
the widths, what the proofs use of powers of two and the provers do not know: each is twice the one below it, they are positive and grow with the width, and the smaller divides the larger. `NotationAssumption`
states that the bits of a pattern, each with its weight, add up to the number that the pattern denotes: that is positional notation, a sum over a set, of which the provers know nothing. TLC evaluates all of them on the instances of the runs.

### Only model-checked

- `GetReturns` and `InterruptStops`: liveness under fairness is out of the prover's reach.
- `StackValues`, `DefragValues`: they execute all that a function's body emitted, a fold over programs; the invariant would have to say for every provider on the stack which of the words emitted gives its value.
- `RefsInSync`: it follows the linked lists of `LocalRefs`, whose links go in no order on which an induction could run, and compares with a sorted sequence.
- `SameResult`: it compares nonlinear arithmetic modulo powers of two and shifts and rotations as sums over sets of bits, through the tables of all operators and instruction forms.

## 5. Not modelled

- Translation of `select`, of call parameters, of blocks with parameters or results, of else and of unreachable code, and the
  `ConsumeFuel` instruction at the head of a block. They have control of their own; section 7 plans them.
- The arithmetic of floats beyond what section 2 says: TLC has none.
- The linker, instantiation, source map search and heap decoding: planned as well.
- Reading of Wasm and DWARF, printing, the WASI host functions' effects, the CLI, proc macros: I/O and text.
- The debugger model has no tail calls to host functions (the executor's state after one is undefined, see below) and one instance, as
  `MainDebugger::instantiate` creates. That showing a value runs functions of the stopped program (`heap.rs`) is not in it.

## 6. What the violation runs show

1. `code_map_errors`. Thread 1 takes the body, its store has no fuel, the entry becomes `FailedToCompile`; thread 2, with fuel, is
   answered `LazyCompilationFailed` for a valid function. The comment on `get` names only the caller's own fuel.
2. `tail_call_to_host`. `execute_host_func` pops the frame, the host function returns, and execution goes on at the last word of the tail call. The
   next return pops the wrong frame or finds none.
3. `stale_executor`. Launch, stop, launch again with Y and a name that does not exist: store, stack and engine are new, the executor
   is not. The next step dereferences it.
4. `parameter_word`. An indirect call traps on a null entry; `continue` executes the word after it.
5. `backtrace_drift`. A conditional return that is not taken removes a function from the backtrace that is still active; a
   host function called through a table is added and never removed.
6. `far_branch`. A fused comparison and branch whose label is more than 16 bits away is encoded by `ComparatorAndOffset::as_u64` as `hi << 32 & lo`: a
   forward branch becomes 0, a backward one loses its offset.

Five more properties state what the repository says and do not hold; their configurations are kept beside the others:

- `MCNoContext.cfg` (`MCDebugSession`, `ContextReported`). `continue` as the first command unwraps a store that is `None`, before the code that would report "No execution context".
- `MCNotKilled.cfg` (`MCDebugSession`, `StoppedCallGoesOn`). Launch, stop, launch again with n: the new frame returns into a frame whose saved `ip` lies
  behind the place where it was stopped.
- `MCAliasedTables.cfg` (`MCTablesAndMemories`, `DifferentTables`). A table imported twice has two indices; `table.copy` between them takes the case of "two different tables" and
  panics in `resolve_table_pair_and_fuel`. The same holds of memories.
- `MCSpacesMeet.cfg` (`MCLocalsAndCopies`, `SpacesApart`). `update_min_preserved` compares with `next_dynamic` alone, and for equality: near the end of the register
  file a preserved register is also a dynamic one, no error is reported, and values are lost.
- `MCUnusedSlots.cfg` (`MCLocalsAndCopies`, `UnusedCollected`). Preserving the locals on entry of a block forgets registers that had become unused: they stay taken for
  the rest of the function, which the comment on `removed_preserved` says does not happen.

## 7. Plan

Done: the code map, the executor with its two drivers and their theorems, the session and its breakpoint table, the numeric, branch, transfer,
local, memory and table operators from translation to execution.

Next, in this order:

1. `Select` and calls: the forms of `translate_select`, parameters of calls as `ValueTransfer` has them for branches.
2. `Labels` and control frames: nested blocks with results, else and unreachable code, over `LocalPreservation`; fuel per block.
3. `Instantiate` and `Linker`: definitions, shadowing, the order of imports, element and data segments, the start function, failure at each point.
4. `EngineStacks`: the pool with its bound, several calls and resumptions at once; no stack has two owners.
5. `SourceMap` and `Heap` as operators checked against reference definitions; `DebugSession` with heap inspection that runs functions while the program is stopped.

Theorems planned: `SameResult` for the operators emitted with both operands in registers,
where instruction and reference are one operation; the part of `RefsInSync` that does not follow links, for any number of locals.

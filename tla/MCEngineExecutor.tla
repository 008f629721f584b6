-------------------------- MODULE MCEngineExecutor --------------------------
(* A program of two instances, A (main, f) and B (g, k), that share their  *)
(* memory: recursion, calls and tail calls in both directions, indirect    *)
(* calls, host functions that return, fail and grow the memory.            *)
EXTENDS EngineExecutor, Programs

CONSTANTS main, f, g, k,    \* Wasm functions
          h, e, w,          \* host functions: e always fails, w is too wide
          A, B              \* instances

MCFuncs == {main, f, g, k}
MCHosts == {h, e, w}
MCSucceeds == {h, w}
MCAllSucceed == {h, e, w}
MCFails == {h, e}
MCExports == {main, g, k, h, w}
MCUncompilable == {g}
MCInstanceOf == [x \in MCFuncs |-> IF x \in {main, f} THEN A ELSE B]
MCRegs == [x \in MCFuncs |-> CASE x = main -> 2 [] x = f -> 1
                               [] x = g -> 2 [] x = k -> 9]
MCInOut == [x \in MCHosts |-> CASE x = h -> 2 [] x = e -> 1 [] x = w -> 10]

MCCode ==
    [x \in MCFuncs |->
        CASE x = main -> << Call("call", 0, {f}),
                            Call("call_imported", 1, {g}), Word,
                            Call("call_indirect", 2, {f, h, Null}), Word, Word,
                            Plain({1, 8}, TRUE),
                            Ret("return", 1), Word >>
          [] x = f -> << Ret("return_nez", 0),
                         Call("call", 0, {f}),
                         TailCall("call_imported", 1, {g}), Word >>
          [] x = g -> << Plain({2, 4, 8}, FALSE),
                         TailCall("call_indirect", 1, {f, main, e}), Word,
                         Call("call_imported", 0, {h}),
                         Grow, Word,
                         TailCall("call", 0, {k, g}),
                         Ret("return", 0) >>
          [] x = k -> << Ret("return", 0) >>]
=============================================================================

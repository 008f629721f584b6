--------------------------- MODULE MCDebugSession ---------------------------
(* A program with a loop over calls, direct and through a table, a host    *)
(* function, a function that traps and one that grows the memory.          *)
EXTENDS DebugSession, Programs

CONSTANTS main, g,  \* Wasm functions
          h,        \* a host function
          A         \* the only instance

MCFuncs == {main, g}
MCHosts == {h}
MCInstanceOf == [x \in MCFuncs |-> A]
MCRegs == [x \in MCFuncs |-> 1]
MCInOut == [x \in MCHosts |-> 2]
MCLenResults == [x \in MCFuncs \cup MCHosts |-> IF x = main THEN 1 ELSE 0]
MCNames == {"g"}
MCMatching == [n \in MCNames |-> {g}]

\* Every loop passes an instruction of file 0.
MCFile0 == {[func |-> main, pc |-> 1]}

\* Only calls of Wasm functions through CallInternal and CallIndirect and
\* unconditional returns: the calls the shadow stack follows.
MCCode ==
    [x \in MCFuncs |->
        CASE x = main -> << Plain({2}, FALSE),
                            Call("call", 1, {g}), Word,
                            Plain({1, 5}, FALSE),
                            Call("call_indirect", 1, {g, main, Null}), Word,
                            Ret("return", 0) >>
          [] x = g -> << Call("call_imported", 1, {h}), Word,
                         Plain({4}, TRUE),
                         Ret("return", 0) >>]
MCLineOf ==
    [x \in MCFuncs |->
        CASE x = main -> <<1, 1, 1, 2, 2, 2, 3>>
          [] x = g -> <<NoLine, NoLine, 4, 4>>]

\* A host function behind the table, and a conditional return.
MCUntracedCode ==
    [x \in MCFuncs |->
        CASE x = main -> << Plain({2}, FALSE),
                            Call("call", 1, {g}), Word,
                            Plain({1, 5}, FALSE),
                            Call("call_indirect", 1, {g, h}), Word,
                            Ret("return", 0) >>
          [] x = g -> << Call("call_imported", 1, {h}), Word,
                         Ret("return_nez", 0),
                         Ret("return", 0) >>]
=============================================================================

------------------------------ MODULE Programs ------------------------------
(* Instruction words for the programs the models run.                      *)

Word == [op |-> "word", to |-> {}, words |-> 0, callees |-> {},
         tail |-> FALSE, traps |-> FALSE]
Plain(to, traps) == [Word EXCEPT !.op = "plain", !.to = to, !.traps = traps]
Grow == [Word EXCEPT !.op = "memory_grow", !.words = 1, !.traps = TRUE]
Call(op, words, callees) ==
    [Word EXCEPT !.op = op, !.words = words, !.callees = callees]
TailCall(op, words, callees) ==
    [Call(op, words, callees) EXCEPT !.tail = TRUE]
Ret(op, words) == [Word EXCEPT !.op = op, !.words = words]
=============================================================================

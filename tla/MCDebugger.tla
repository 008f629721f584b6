----------------------------- MODULE MCDebugger -----------------------------
(* The debugger's commands.  A behaviour is one of DebugSession or one of      *)
(* Breakpoints, the table with its ids; the other stands still.                *)
EXTENDS MCDebugSession, Breakpoints

VARIABLE part

MCFunctionNames == {"f", "g", "h"}
MCAddresses == {"a", "b"}

MCInit == part \in {"session", "table"} /\ Init /\ TableInit
MCNext ==
    \/ part = "session" /\ Next /\ UNCHANGED <<part, tableVars>>
    \/ part = "table" /\ TableNext /\ UNCHANGED <<part, vars>>
MCSpec == MCInit /\ [][MCNext]_<<part, vars, tableVars>> /\ Fairness
=============================================================================

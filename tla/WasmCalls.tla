----------------------------- MODULE WasmCalls -----------------------------
(***************************************************************************)
(* What an engine promises a caller of a Wasm function: a stack of         *)
(* activations, each with the place it is at, of which only the newest     *)
(* moves.  A call suspends the newest below its callee, a return goes on   *)
(* exactly where the call left off, a tail call replaces it, and code      *)
(* always runs in the instance its function belongs to.                    *)
(*                                                                         *)
(* There is no register, no offset, no cache and no pointer here.          *)
(***************************************************************************)
EXTENDS Integers, Sequences, SequencesExt

CONSTANTS Funcs, InstanceOf, NoInstance, Limit

VARIABLES
    acts,       \* activations, oldest first: [func, pc]
    status,     \* what the caller of the engine sees
    instance    \* the instance the newest activation runs in

absVars == <<acts, status, instance>>

Start(f) == [func |-> f, pc |-> 1]

\* b is a, with the newest activation at another place of its function.
Moved(a, b) ==
    /\ Len(b) = Len(a)
    /\ Front(b) = Front(a)
    /\ Last(b).func = Last(a).func
    /\ Last(b).pc \in Nat

Init ==
    /\ acts = <<>>
    /\ status = "idle"
    /\ instance = NoInstance

\* Code that goes on runs in the instance of the newest activation.
GoesOn ==
    /\ acts' # <<>>
    /\ status' = "running"
    /\ instance' = InstanceOf[Last(acts').func]

Invoke ==
    /\ status \in {"idle", "done", "error"}
    /\ \E f \in Funcs : acts' = <<Start(f)>>
    /\ GoesOn

\* The newest activation moves within its function.
Step ==
    /\ status = "running"
    /\ Moved(acts, acts')
    /\ GoesOn

Call ==
    /\ status = "running"
    /\ Len(acts) < Limit
    /\ Len(acts') = Len(acts) + 1
    /\ Moved(acts, Front(acts'))
    /\ \E f \in Funcs : Last(acts') = Start(f)
    /\ GoesOn

TailCall ==
    /\ status = "running"
    /\ \E f \in Funcs : acts' = Append(Front(acts), Start(f))
    /\ GoesOn

Return ==
    /\ status = "running"
    /\ acts' = Front(acts)
    /\ GoesOn

Finish ==
    /\ status \in {"running", "idle", "done", "error"}
    /\ status = "running" => Len(acts) = 1
    /\ acts' = <<>>
    /\ status' = "done"
    /\ instance' = NoInstance

Fail ==
    /\ acts' = <<>>
    /\ status' = "error"
    /\ instance' = NoInstance

\* A host function failed: what called it waits, moved past the call if it was
\* an ordinary one and gone if it was a tail call.
Suspend ==
    /\ status = "running"
    /\ \/ Moved(acts, acts')
       \/ Len(acts) > 1 /\ acts' = Front(acts)
    /\ status' = "suspended"
    /\ instance' = NoInstance

Resume ==
    /\ status = "suspended"
    /\ UNCHANGED acts
    /\ GoesOn

Drop ==
    /\ status = "suspended"
    /\ acts' = <<>>
    /\ status' = "idle"
    /\ instance' = NoInstance

Next ==
    Invoke \/ Step \/ Call \/ TailCall \/ Return \/ Finish \/ Fail
        \/ Suspend \/ Resume \/ Drop

Spec == Init /\ [][Next]_absVars
=============================================================================

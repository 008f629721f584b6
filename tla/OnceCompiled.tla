---------------------------- MODULE OnceCompiled ----------------------------
(***************************************************************************)
(* What CodeMap::get promises its callers, with nothing of how it is done: *)
(* the verdict on a function body is reached once, by one of the threads   *)
(* that ask for it, and every answer to every thread is that one verdict.  *)
(***************************************************************************)
CONSTANTS Funcs, Threads, NoFunc

VARIABLES
    verdict,    \* per function: "open" until it is decided, then "ok" or "err"
    asks,       \* per thread: the function it asks for, or asked for last
    answer      \* per thread: "pending" while it waits, then the verdict

vars == <<verdict, asks, answer>>

Init ==
    /\ verdict \in [Funcs -> {"open", "ok"}]
    /\ asks = [t \in Threads |-> NoFunc]
    /\ answer = [t \in Threads |-> "none"]

\* An eagerly compiled function is decided before anybody asks for it.
Preload(f) ==
    /\ verdict[f] = "open"
    /\ \A t \in Threads : asks[t] # f
    /\ verdict' = [verdict EXCEPT ![f] = "ok"]
    /\ UNCHANGED <<asks, answer>>

Ask(t, f) ==
    /\ answer[t] # "pending"
    /\ asks' = [asks EXCEPT ![t] = f]
    /\ answer' = [answer EXCEPT ![t] = "pending"]
    /\ UNCHANGED verdict

\* The thread that decides is answered in the same step.
Decide(t, v) ==
    /\ answer[t] = "pending"
    /\ verdict[asks[t]] = "open"
    /\ verdict' = [verdict EXCEPT ![asks[t]] = v]
    /\ answer' = [answer EXCEPT ![t] = v]
    /\ UNCHANGED asks

Answer(t) ==
    /\ answer[t] = "pending"
    /\ verdict[asks[t]] # "open"
    /\ answer' = [answer EXCEPT ![t] = verdict[asks[t]]]
    /\ UNCHANGED <<verdict, asks>>

Next ==
    \/ \E f \in Funcs : Preload(f)
    \/ \E t \in Threads : \/ \E f \in Funcs : Ask(t, f)
                          \/ \E v \in {"ok", "err"} : Decide(t, v)
                          \/ Answer(t)

Spec == Init /\ [][Next]_vars
=============================================================================

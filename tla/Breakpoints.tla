----------------------------- MODULE Breakpoints -----------------------------
(* The breakpoint table and the ids of the list and delete commands.  An id is *)
(* a position in the iteration order of a HashMap, modelled as a sequence.     *)
(* Inserting a key, one that is there as well, or removing one may leave the   *)
(* keys in any order: the table may be rehashed, and nothing is promised.  Two *)
(* iterations with neither in between go through the keys in the same order.   *)
EXTENDS Naturals, Sequences, SequencesExt, FiniteSets

CONSTANTS FunctionNames, Addresses   \* what breakpoints are set on
ASSUME NamesAssumption == IsFiniteSet(FunctionNames) /\ IsFiniteSet(Addresses)

VARIABLES function_map, inst_map, \* the keys, in iteration order
          printed,                \* what list printed last, by position
          current,                \* no function was inserted or removed since then
          outcome                 \* of the last command
tableVars == <<function_map, inst_map, printed, current, outcome>>

TableInit == /\ function_map = <<>> /\ inst_map = <<>>
             /\ printed = <<>> /\ current = TRUE /\ outcome = "Ok"

Orders(keys) == {order \in [1 .. Cardinality(keys) -> keys] : Range(order) = keys}

\* HashMap::insert and HashMap::remove.
Inserted(map, key) == Orders(Range(map) \cup {key})
Removed(map, key) == Orders(Range(map) \ {key})

insert_function(name) ==
    /\ function_map' \in Inserted(function_map, name)
    /\ current' = FALSE
    /\ outcome' = "Ok" /\ UNCHANGED <<inst_map, printed>>
insert_instruction(address) ==
    /\ inst_map' \in Inserted(inst_map, address)
    /\ outcome' = "Ok" /\ UNCHANGED <<function_map, printed, current>>

\* list_breakpoints: only breakpoints on functions are printed, from id 0.
list_breakpoints ==
    /\ printed' = function_map /\ current' = TRUE /\ outcome' = "Ok"
    /\ UNCHANGED <<function_map, inst_map>>

\* Mutant: the breakpoints on instructions are counted first.
delete_instructions_first(id) ==
    LET insts == Len(inst_map)
    IN \/ /\ id >= insts + Len(function_map) /\ outcome' = "Invalid breakpoint id"
          /\ UNCHANGED <<function_map, inst_map, printed, current>>
       \/ /\ id < insts /\ inst_map' \in Removed(inst_map, inst_map[id + 1])
          /\ outcome' = "Ok" /\ UNCHANGED <<function_map, printed, current>>
       \/ /\ id >= insts /\ id < insts + Len(function_map)
          /\ function_map' \in Removed(function_map, function_map[id - insts + 1])
          /\ current' = FALSE /\ outcome' = "Ok" /\ UNCHANGED <<inst_map, printed>>

delete(id) ==
    LET funcs == Len(function_map)
    IN \/ /\ id >= funcs + Len(inst_map) /\ outcome' = "Invalid breakpoint id"
          /\ UNCHANGED <<function_map, inst_map, printed, current>>
       \/ /\ id < funcs /\ function_map' \in Removed(function_map, function_map[id + 1])
          /\ current' = FALSE /\ outcome' = "Ok" /\ UNCHANGED <<inst_map, printed>>
       \/ /\ id >= funcs /\ id < funcs + Len(inst_map)
          /\ inst_map' \in Removed(inst_map, inst_map[id - funcs + 1])
          /\ outcome' = "Ok" /\ UNCHANGED <<function_map, printed, current>>

Ids == 0 .. Cardinality(FunctionNames) + Cardinality(Addresses)
TableNext == \/ \E name \in FunctionNames : insert_function(name)
             \/ \E address \in Addresses : insert_instruction(address)
             \/ list_breakpoints
             \/ \E id \in Ids : delete(id)

TableSpec == TableInit /\ [][TableNext]_tableVars

-----------------------------------------------------------------------------

\* Deleting by an id that list printed deletes the breakpoint it was printed for
\* and no other, whatever was set or deleted on instructions since, as long as no
\* breakpoint on a function was set, set again or deleted.
DeletesWhatWasListed ==
    [][\A id \in Ids :
         (current /\ id < Len(printed) /\ delete(id)) =>
             /\ Range(function_map') = Range(function_map) \ {printed[id + 1]}
             /\ outcome' = "Ok" /\ inst_map' = inst_map]_tableVars
=============================================================================

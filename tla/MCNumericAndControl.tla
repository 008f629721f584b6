------------------------- MODULE MCNumericAndControl -------------------------
(* The numeric operators of Wasm, and comparisons with the branches on them.   *)
(* A behaviour is one of NumericTranslation or of BranchEncoding; the other    *)
(* stands still.                                                               *)
EXTENDS BranchEncoding

VARIABLE part

\* Widths 1, 2, 4 and 8 keep every boundary apart: a constant may fit 16 bits
\* signed, unsigned or not at all.
MCWidth == [i8 |-> 1, i16 |-> 2, i32 |-> 4, i64 |-> 8]
MCMagnitudes == [f32 |-> {0, 1, 2, 14, 15, 16, 20, 30, 32, 240, 256, 272, 480, 512},
                 f64 |-> {0, 1, 2, 3, 14, 15, 16, 17, 18, 30, 31, 32, 254, 256, 258, 510, 512}]
FloatSamples == {Float(s, m) : s \in {0, 1}, m \in {0, 2, 16, INF, NAN}}
MCSamples == [i32 |-> {0, 1, 2, 3, 4, 7, 8, 9, 14, 15},
              i64 |-> {0, 1, 2, 3, 15, 127, 128, 253, 254, 255},
              f32 |-> FloatSamples, f64 |-> FloatSamples]

\* Offsets of 16 bits shrink to -2 .. 1 and a wide offset to 8 bits, so that
\* near and far labels exist on both sides of the branch.
BranchFloats == {Float(0, 0), Float(1, 2), Float(0, NAN)}
MCOperands == [i32 |-> {0, 1, 2, 7, 15}, i64 |-> {0, 1, 127, 255},
               f32 |-> BranchFloats, f64 |-> BranchFloats]
MCBackward == {1, -9}
MCForward == {0, 9}

-----------------------------------------------------------------------------
NoNumeric == /\ op = <<"i32", "clz">> /\ row = Plain("unary", "clz") /\ args = <<Reg(1)>>
             /\ regs = <<0, 0>> /\ out = NotYet /\ res = NotYet
NoBranch == /\ src = 0 /\ label = 0 /\ instrs = <<>> /\ last_instr = 0 /\ cond = 0 /\ user = 0
            /\ cells = 0 /\ ip = 0 /\ pc = "none"

MCInit ==
    \/ part = "numeric" /\ Init /\ NoBranch
    \/ part = "branch" /\ BranchInit /\ NoNumeric
MCNext ==
    \/ part = "numeric" /\ Next /\ UNCHANGED <<part, branchVars>>
    \/ part = "branch" /\ BranchNext /\ UNCHANGED <<part, vars>>
MCSpec == MCInit /\ [][MCNext]_<<part, vars, branchVars>>
=============================================================================

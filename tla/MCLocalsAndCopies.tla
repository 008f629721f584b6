-------------------------- MODULE MCLocalsAndCopies --------------------------
(* Functions of two locals and up to six operators, and operators that move    *)
(* values.  A behaviour is one of LocalPreservation or of ValueTransfer; the   *)
(* other stands still.                                                         *)
EXTENDS LocalPreservation, ValueTransfer

VARIABLE part

MCWidth == [i8 |-> 1, i16 |-> 2, i32 |-> 3, i64 |-> 5]
MCMagnitudes == [f32 |-> {0}, f64 |-> {0}]
MCPromote == [u \in {4, 5} |-> u + 16]

\* Operands from five registers and constants of every encoding, up to six of
\* them, moved to blocks whose parameters overlap them from below and above.
MCBlockParams == <<1, 3>>
Lit(ty, v) == [k |-> "const", ty |-> ty, v |-> v]
Consts == {Lit("i32", 7), Lit("f32", 5), Lit("i64", 31), Lit("i64", 9), Lit("f64", 21),
           Lit("f64", 19), Lit("ref", 12)}
RegsTo(n) == {Reg(r) : r \in 0 .. n}
Tuples == {<<>>} \cup {<<p>> : p \in RegsTo(4) \cup Consts}
          \cup [1 .. 2 -> RegsTo(5) \cup Consts]
          \cup [1 .. 3 -> RegsTo(4) \cup {Lit("i64", 9)}]
          \cup [1 .. 4 -> RegsTo(4) \cup {Lit("i64", 9)}]
          \cup [1 .. 5 -> {Reg(0), Reg(1), Reg(3), Reg(4)}]
          \cup {t \in [1 .. 6 -> RegsTo(5)] : \A i \in 1 .. 5 : t[i].r - t[i + 1].r \in {1, -1, 3}}
Tests == {Reg(0), Reg(2), Lit("i32", 0), Lit("i32", 1)}
Tables == {<<1>>, <<1, 2, 0>>, <<0, 1>>, <<2, 2>>}
MCSources ==
    [kind : {"sets"}, values : [1 .. 2 -> RegsTo(3) \cup Consts], into : (0 .. 3) \X (0 .. 3)]
    \cup [kind : {"return"}, values : Tuples, test : {Reg(0)}]
    \cup [kind : {"br"}, values : Tuples, label : {0, 1, 2}, test : {Reg(0)}]
    \cup [kind : {"br_if"}, values : Tuples, label : {0, 2}, test : {Reg(0), Reg(1), Lit("i32", 0)}]
    \cup [kind : {"br_table"}, values : Tuples, targets : Tables, test : Tests]

-----------------------------------------------------------------------------
NoTransfer == src = [kind |-> "return", values |-> <<>>, test |-> Reg(0)] /\ TransferInit

MCInit ==
    \/ part = "locals" /\ Init /\ NoTransfer
    \/ part = "transfer" /\ Init /\ TransferInit
MCNext ==
    \/ part = "locals" /\ Next /\ UNCHANGED <<part, transferVars>>
    \/ part = "transfer" /\ TransferNext /\ UNCHANGED <<part, vars>>
MCSpec == MCInit /\ [][MCNext]_<<part, vars, transferVars>>
=============================================================================

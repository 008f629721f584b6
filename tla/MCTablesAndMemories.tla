------------------------- MODULE MCTablesAndMemories -------------------------
(* The operators on tables, memories and globals.  A behaviour is one of       *)
(* StoreOps or one of LoadStore; the other stands still.                       *)
EXTENDS StoreOps, LoadStore

VARIABLE part

\* Bytes of 1 bit, so that an i64 takes eight of them; 16-bit constants run from
\* 0 to 3 and 32-bit values from 0 to 15.
MCWidth == [i8 |-> 1, i16 |-> 2, i32 |-> 4, i64 |-> 8]
MCMagnitudes == [f32 |-> {0}, f64 |-> {0}]

\* StoreOps: two memories of one page of 2 bytes and of two, tables of 2 and 3
\* elements.  Globals 0 and 1 are one imported global, 2 is an i64, 3 a constant and
\* 4 a reference to a function.
MCMemoryAt == (0 :> "m") @@ (1 :> "n")
MCTableAt == (0 :> "t") @@ (1 :> "u")
MCAliasedAt == (0 :> "t") @@ (1 :> "t")
MCInitial == [mem |-> [m |-> <<0, 1>>, n |-> <<1, 1, 0, 0>>],
              tab |-> [t |-> <<1, 2>>, u |-> <<3, 4, 5>>],
              data |-> (0 :> <<1, 0, 1>>), elem |-> (0 :> <<6, 7>>),
              glob |-> [g |-> 2, h |-> 200, k |-> 5, r |-> 9]]
MCGlobalAt == (0 :> "g") @@ (1 :> "g") @@ (2 :> "h") @@ (3 :> "k") @@ (4 :> "r")
MCGlobalType == (0 :> "i32") @@ (1 :> "i32") @@ (2 :> "i64") @@ (3 :> "i32") @@ (4 :> "funcref")
MCFuncAt == (0 :> 8) @@ (1 :> 9)
MCMaxPages == [m |-> 2, n |-> 3]
MCMaxElems == [t |-> 3, u |-> 7]
MCFrozen == 3 :> 5
MCFuncGlobals == 4 :> 1
MCFuels == {Disabled, 1, 2}
MCLimiters == {[on |-> FALSE, memory_size |-> 0, table_elements |-> 0, trap |-> FALSE],
               [on |-> TRUE, memory_size |-> 2, table_elements |-> 3, trap |-> FALSE],
               [on |-> TRUE, memory_size |-> 1, table_elements |-> 7, trap |-> TRUE]}

Op(name, x, y, a, b, n) == [name |-> name, x |-> x, y |-> y, a |-> a, b |-> b, n |-> n]
Both(v) == {Reg(v), Const(v)}
Triples == {<<0, 0, 1>>, <<1, 0, 1>>, <<0, 1, 2>>, <<2, 2, 0>>, <<3, 0, 0>>, <<0, 0, 15>>, <<15, 1, 1>>}
Bulk(names, xy) == {Op(s, p[1], p[2], a, b, n) : s \in names, p \in xy,
                       a \in Both(0), b \in Both(0), n \in Both(0)}
With(o, t) == [o EXCEPT !.a.v = t[1], !.b.v = t[2], !.n.v = t[3]]
Simple == {Op(s, x, 0, Reg(0), Reg(0), Reg(0)) :
              s \in {"memory.size", "table.size", "global.get", "ref.func", "data.drop", "elem.drop"},
              x \in {0, 1}}
          \cup {Op("global.get", x, 0, Reg(0), Reg(0), Reg(0)) : x \in 2 .. 4}
Accesses == {Op(s, x, 0, a, b, Reg(0)) : s \in {"table.get", "table.set"}, x \in {0, 1},
                a \in UNION {Both(v) : v \in {0, 2, 3, 15}}, b \in Both(4)}
Grows == {Op(s, x, 0, Reg(0), Reg(6), n) : s \in {"memory.grow", "table.grow"}, x \in {0, 1},
             n \in UNION {Both(v) : v \in (0 .. 4) \cup {7, 15}}}
Globals == {Op("global.set", x, 0, Reg(0), b, Reg(0)) :
               x \in {0, 1}, b \in UNION {Both(v) : v \in (0 .. 4) \cup {7} \cup (13 .. 15)}}
           \cup {Op("global.set", 2, 0, Reg(0), b, Reg(0)) :
               b \in UNION {Both(v) : v \in (0 .. 3) \cup {14, 15, 127, 128} \cup (253 .. 255)}}
Loads8 == {Op("load8", 0, 0, Reg(a), Reg(0), Reg(0)) : a \in {0, 3, 15}}

MCSetup == {Op("memory.grow", 0, 0, Reg(0), Reg(0), Reg(1)), Op("memory.grow", 1, 0, Reg(0), Reg(0), Const(1)),
            Op("table.grow", 0, 0, Reg(0), Reg(6), Const(1)), Op("table.grow", 1, 0, Reg(0), Reg(6), Reg(2)),
            Op("data.drop", 0, 0, Reg(0), Reg(0), Reg(0)), Op("elem.drop", 0, 0, Reg(0), Reg(0), Reg(0)),
            Op("memory.fill", 1, 0, Const(1), Const(3), Const(2)),
            Op("table.copy", 0, 1, Const(0), Const(1), Reg(2)),
            Op("global.set", 0, 0, Reg(0), Const(7), Reg(0)), Op("global.set", 1, 0, Reg(0), Const(1), Reg(0))}
MCAll == Simple \cup Accesses \cup Grows \cup Globals \cup Loads8
         \cup {With(o, t) : o \in Bulk({"memory.copy", "table.copy"}, {0, 1} \X {0, 1}), t \in Triples}
         \cup {With(o, t) : o \in Bulk({"memory.init", "table.init", "memory.fill", "table.fill"},
                                       {0, 1} \X {0}), t \in Triples}

\* LoadStore: memories of 10 and 16 bytes.
AccessMemories == << <<1, 0, 1, 1, 0, 0, 1, 0, 1, 1>>,
                     <<0, 1, 1, 0, 1, 0, 0, 1, 1, 0, 0, 1, 0, 1, 1, 1>> >>

Pointers == {0, 3, 8, 15}
Offsets == {0, 1, 4, 15}

Operator(o, p, off, m, val) ==
    [ty |-> o[1], op |-> o[2], ptr |-> p, offset |-> off, mem |-> m, val |-> val]
Program(o, p, off, m, val, ptrVal, v) ==
    Operator(o, p, off, m, val) @@ [regs |-> [ptr |-> ptrVal, val |-> v, out |-> 0]]
AccessFirsts ==
    {Program(o, p, off, m, Constant(0), a, 0) :
        o \in LoadOperators, p \in {Register("ptr")} \cup {Constant(a) : a \in Pointers}, off \in Offsets,
        m \in {0, 1}, a \in Pointers}
    \cup {Program(o, p, off, m, val, 3, v) :
        o \in StoreOperators, p \in {Register("ptr")} \cup {Constant(a) : a \in Pointers}, off \in Offsets,
        m \in {0, 1}, val \in {Register("val"), Constant(1), Constant(6), Constant(14)}, v \in {6, 14}}
    \cup {Program(o, p, off, m, val, 3, 170) :
        o \in {s \in StoreOperators : s[1] \in {"i64", "f64"}}, p \in {Register("ptr"), Constant(0)},
        off \in Offsets, m \in {0, 1}, val \in {Register("val"), Constant(85), Constant(254)}}
AccessFollowers ==
    {Operator(<<"i32", "load">>, p, 0, m, Constant(0)) : p \in {Constant(2), Register("ptr")}, m \in {0, 1}}
    \cup {Operator(<<"i64", "store8">>, Constant(9), 0, 0, Constant(1)),
           Operator(<<"i64", "store16">>, Register("ptr"), 2, 1, Register("out"))}

-----------------------------------------------------------------------------
\* The part that stands still is in one of its initial states.
NoStoreOp == Init /\ fuel = Disabled /\ ~limiter.on
NoAccess == AccessInit /\ prog = <<CHOOSE o \in AccessFirsts : TRUE,
                                   CHOOSE o \in AccessFollowers : TRUE>>

MCInit ==
    \/ part = "store" /\ Init /\ NoAccess
    \/ part = "access" /\ NoStoreOp /\ AccessInit
MCNext ==
    \/ part = "store" /\ Next /\ UNCHANGED <<part, accessVars>>
    \/ part = "access" /\ AccessNext /\ UNCHANGED <<part, vars>>
MCSpec == MCInit /\ [][MCNext]_<<part, vars, accessVars>>
=============================================================================

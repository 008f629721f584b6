------------------------------ MODULE StoreOps ------------------------------
(* The operators on memories, tables, segments and globals: translated to one *)
(* instruction and its words, then executed against the store, its limiter,   *)
(* its fuel and the executor's cache of memory 0 and global 0.  Operations    *)
(* follow one another on the same store.                                      *)
EXTENDS UntypedVal, Instructions, TLC

CONSTANTS MemoryAt, TableAt, GlobalAt,  \* the addresses of what the instance has, by index
          FuncAt,               \* the references to its functions, by index
          Initial,              \* the initial contents: mem, tab, data, elem, glob
          MaxPages, MaxElems,   \* by address, the limits of the types
          PagesMax, PageSize,   \* the largest number of pages, the bytes of one
          Limiters,             \* the limiters the store may have
          Fuels,                \* the fuel it may start with, Disabled without metering
          PerFuel,              \* bytes or elements moved for a unit of fuel
          GlobalType,           \* the types of the globals, by index
          Frozen,               \* the immutable globals whose initial value is known, with it
          FuncGlobals,          \* those initialised by ref.func, with the function's index
          Setup, All, Rounds    \* requests before the last, requests at the end, how many

Disabled == 0 - 1

VARIABLES mem, tab, data, elem, glob,
          req, code, res,
          buf,                  \* by address, how often the bytes moved
          cache,                \* where the executor believes memory 0 and global 0 are
          limiter, fuel, rounds
store == <<mem, tab, data, elem, glob, buf, cache, fuel>>
vars == <<store, req, code, res, limiter, rounds>>

None == [name |-> "none"]
Val(v) == [k |-> "val", v |-> v]
Traps(c) == [k |-> "trap", code |-> c]
Panic == [k |-> "panic"]
Reg(v) == [k |-> "reg", v |-> v]
Const(v) == [k |-> "const", v |-> v]
IsConst(p) == p.k = "const"

\* What validation and instantiation leave: contents within the limits of 32 bits,
\* operators whose indices exist and whose values have their types, and no operator
\* that sets an immutable global.
Operand(ty) == {Reg(v) : v \in 0 .. UMax(ty)} \cup {Const(v) : v \in 0 .. UMax(ty)}
MemoryOps == {"memory.init", "memory.copy", "memory.fill", "memory.size", "memory.grow"}
TableOps == {"table.init", "table.copy", "table.fill", "table.get", "table.set", "table.size",
             "table.grow"}
Immutable == DOMAIN Frozen \cup DOMAIN FuncGlobals
\* The value is a reference or has another type than i32.
IsWide(o) == \/ o.name \in {"table.fill", "table.set", "table.grow"}
             \/ o.name = "global.set" /\ GlobalType[o.x] # "i32"
Validated(o) ==
    /\ o \in [name : MemoryOps \cup TableOps
                       \cup {"data.drop", "elem.drop", "global.get", "global.set", "ref.func", "load8"},
              x : Nat, y : Nat, a : Operand("i32"), b : Operand("i64"), n : Operand("i32")]
    /\ IsWide(o) \/ o.b \in Operand("i32")
    /\ o.name \in MemoryOps => o.x \in DOMAIN MemoryAt
    /\ o.name = "memory.copy" => o.y \in DOMAIN MemoryAt
    /\ o.name \in TableOps => o.x \in DOMAIN TableAt
    /\ o.name = "table.copy" => o.y \in DOMAIN TableAt
    /\ o.name \in {"memory.init", "data.drop"} => o.y \in DOMAIN Initial.data
    /\ o.name \in {"table.init", "elem.drop"} => o.y \in DOMAIN Initial.elem
    /\ o.name = "load8" => 0 \in DOMAIN MemoryAt
    /\ o.name \in {"global.get", "global.set"} => o.x \in DOMAIN GlobalAt
    /\ o.name = "global.set" => o.x \notin Immutable
    /\ o.name = "ref.func" => o.x \in DOMAIN FuncAt

ASSUME StoreAssumption ==
    /\ \A i \in DOMAIN MemoryAt : MemoryAt[i] \in DOMAIN Initial.mem
    /\ \A i \in DOMAIN TableAt : TableAt[i] \in DOMAIN Initial.tab
    /\ \A i \in DOMAIN GlobalAt : GlobalAt[i] \in DOMAIN Initial.glob
    /\ Initial.mem \in [DOMAIN Initial.mem -> Seq(Nat)]
    /\ Initial.tab \in [DOMAIN Initial.tab -> Seq(Nat)]
    /\ \A t \in DOMAIN Initial.tab : Len(Initial.tab[t]) <= UMax("i32")
    /\ Initial.data \in [DOMAIN Initial.data -> Seq(Nat)]
    /\ Initial.elem \in [DOMAIN Initial.elem -> Seq(Nat)]
    /\ Initial.glob \in [DOMAIN Initial.glob -> Nat]
    /\ MaxPages \in [DOMAIN Initial.mem -> Nat] /\ MaxElems \in [DOMAIN Initial.tab -> Nat]
    /\ PagesMax \in Nat /\ PageSize \in Nat \ {0} /\ PerFuel \in Nat \ {0}
    /\ Fuels \subseteq Nat \cup {Disabled} /\ Rounds \in Nat
\* An immutable global with a known value, or a known function, is one the module
\* defines: it has one index, and the value its initialiser says.
ASSUME GlobalAssumption ==
    /\ Immutable \subseteq DOMAIN GlobalAt
    /\ \A g \in Immutable, i \in DOMAIN GlobalAt : GlobalAt[i] = GlobalAt[g] => i = g
    /\ \A g \in DOMAIN Frozen : Initial.glob[GlobalAt[g]] = Frozen[g]
    /\ \A g \in DOMAIN FuncGlobals : Initial.glob[GlobalAt[g]] = FuncAt[FuncGlobals[g]]
ASSUME RequestAssumption == \A o \in Setup \cup All : Validated(o)

\* The cache, empty for a memory or a global the instance does not have.
CachedMemory(b) == IF 0 \in DOMAIN MemoryAt THEN <<MemoryAt[0], b[MemoryAt[0]]>> ELSE <<>>
CachedGlobal == IF 0 \in DOMAIN GlobalAt THEN <<GlobalAt[0]>> ELSE <<>>
load_caches(b) == [memory |-> CachedMemory(b), global |-> CachedGlobal]

Init == /\ mem = Initial.mem /\ tab = Initial.tab /\ glob = Initial.glob
        /\ data = Initial.data /\ elem = Initial.elem
        /\ req = None /\ code = <<>> /\ res = Val(0)
        /\ buf = [m \in DOMAIN Initial.mem |-> 0] /\ cache = load_caches(buf)
        /\ limiter \in Limiters /\ fuel \in Fuels /\ rounds = Rounds

-----------------------------------------------------------------------------
(* Translation *)

\* Provider<Const16<u32>>::new: an immediate if it fits, else a constant's register.
Operand16(p) == IF IsConst(p) /\ p.v <= UMax("i16") THEN p ELSE Reg(p.v)
Imms(pairs) == {pair[1] : pair \in {q \in pairs : IsConst(q[2])}}
Index(k, i) == [opcode |-> <<"param", k>>, index |-> i]
Instr(entity, op, form, a, b, n) ==
    [opcode |-> <<entity, op, form>>, a |-> a, b |-> b, n |-> n]

\* The three operands of a copy or an initialisation.
Triple(entity, op, o) ==
    LET a == Operand16(o.a)  b == Operand16(o.b)  n == Operand16(o.n)
    IN Instr(entity, op, Imms({<<"to", a>>, <<"from", b>>, <<"exact", n>>}), a, b, n)

visit_memory_init(o) == <<Triple("memory", "init", o), Index("memory_index", o.x),
                          Index("data_index", o.y)>>
visit_memory_copy(o) == <<Triple("memory", "copy", o), Index("memory_index", o.x),
                          Index("memory_index", o.y)>>
visit_memory_fill(o) ==
    LET a == Operand16(o.a)  n == Operand16(o.n)
        b == IF IsConst(o.b) THEN Const(Wrap("i8", o.b.v)) ELSE o.b
    IN <<Instr("memory", "fill", Imms({<<"at", a>>, <<"imm", b>>, <<"exact", n>>}), a, b, n),
         Index("memory_index", o.x)>>
visit_data_drop(o) == <<Instr("data", "drop", {}, o.y, 0, 0)>>
visit_memory_size(o) == <<Instr("memory", "size", {}, o.x, 0, 0)>>
visit_memory_grow(o) ==
    IF o.n = Const(0) THEN visit_memory_size(o)
    ELSE <<Instr("memory", "grow", Imms({<<"by", o.n>>}), o.a, o.b, o.n),
           Index("memory_index", o.x)>>

visit_table_init(o) == <<Triple("table", "init", o), Index("table_index", o.x),
                         Index("elem_index", o.y)>>
visit_table_copy(o) == <<Triple("table", "copy", o), Index("table_index", o.x),
                         Index("table_index", o.y)>>
visit_table_fill(o) ==
    LET a == Operand16(o.a)  n == Operand16(o.n)
    IN <<Instr("table", "fill", Imms({<<"at", a>>, <<"exact", n>>}), a, Reg(o.b.v), n),
         Index("table_index", o.x)>>
visit_elem_drop(o) == <<Instr("elem", "drop", {}, o.y, 0, 0)>>
visit_table_get(o) ==
    <<Instr("table", "get", Imms({<<"imm", o.a>>}), o.a, o.b, o.n), Index("table_index", o.x)>>
visit_table_set(o) ==
    <<Instr("table", "set", Imms({<<"at", o.a>>}), o.a, Reg(o.b.v), o.n), Index("table_index", o.x)>>
visit_table_size(o) == <<Instr("table", "size", {}, o.x, 0, 0)>>
visit_table_grow(o) ==
    IF o.n = Const(0) THEN visit_table_size(o)
    ELSE LET n == Operand16(o.n)
         IN <<Instr("table", "grow", Imms({<<"imm", n>>}), o.a, Reg(o.b.v), n),
              Index("table_index", o.x)>>

visit_ref_func(f) == <<Instr("ref", "func", {}, f, 0, 0)>>
\* An immutable global with a known value leaves no instruction behind, one with a
\* known function that of ref.func.
visit_global_get(o) ==
    IF o.x \in DOMAIN Frozen THEN <<>>
    ELSE IF o.x \in DOMAIN FuncGlobals THEN visit_ref_func(FuncGlobals[o.x])
    ELSE <<Instr("global", "get", {}, o.x, 0, 0)>>
\* Const16::try_from, of a signed value.
ConstFits16(ty, p) == LET v == Signed(ty, p.v) IN IsConst(p) /\ -SMin("i16") <= v /\ v <= SMax("i16")
visit_global_set(o) ==
    LET ty == GlobalType[o.x]
        Imm16(form) == Instr("global", "set", {form}, o.x, Wrap("i16", Signed(ty, o.b.v)), 0)
    IN << CASE ty = "i32" /\ ConstFits16(ty, o.b) -> Imm16("i32imm16")
            [] ty = "i64" /\ ConstFits16(ty, o.b) -> Imm16("i64imm16")
            [] OTHER -> Instr("global", "set", {}, o.x, Reg(o.b.v), 0) >>
visit_i32_load8_u(o) == <<Instr("i32", "load8_u", "offset16", o.a, 0, 0)>>

Words(o) == CASE o.name = "memory.init" -> visit_memory_init(o)
              [] o.name = "memory.copy" -> visit_memory_copy(o)
              [] o.name = "memory.fill" -> visit_memory_fill(o)
              [] o.name = "data.drop"   -> visit_data_drop(o)
              [] o.name = "memory.size" -> visit_memory_size(o)
              [] o.name = "memory.grow" -> visit_memory_grow(o)
              [] o.name = "table.init"  -> visit_table_init(o)
              [] o.name = "table.copy"  -> visit_table_copy(o)
              [] o.name = "table.fill"  -> visit_table_fill(o)
              [] o.name = "elem.drop"   -> visit_elem_drop(o)
              [] o.name = "table.get"   -> visit_table_get(o)
              [] o.name = "table.set"   -> visit_table_set(o)
              [] o.name = "table.size"  -> visit_table_size(o)
              [] o.name = "table.grow"  -> visit_table_grow(o)
              [] o.name = "global.get"  -> visit_global_get(o)
              [] o.name = "global.set"  -> visit_global_set(o)
              [] o.name = "ref.func"    -> visit_ref_func(o.x)
              [] o.name = "load8"       -> visit_i32_load8_u(o)

visit == /\ req = None /\ rounds > 0 /\ rounds' = rounds - 1
         /\ \E o \in IF rounds = 1 THEN All ELSE Setup : req' = o /\ code' = Words(o)
         /\ UNCHANGED <<store, res, limiter>>

-----------------------------------------------------------------------------
(* Execution *)

table_arms == table_access \cup table_copy \cup table_init \cup table_fill \cup table_grow
memory_arms == memory_growth \cup memory_copy \cup memory_fill \cup memory_init
execute_table_arms == table_arms
execute_memory_arms == memory_arms \cup segment_drops
execute_global_arms == global_ops
execute_instr_table_arms == table_arms
execute_instr_memory_arms == memory_arms \cup segment_drops
execute_instr_global_arms == global_ops
Arms == (execute_table_arms \cap execute_instr_table_arms)
        \cup (execute_memory_arms \cap execute_instr_memory_arms)
        \cup (execute_global_arms \cap execute_instr_global_arms)

Running(entity, op) == /\ code # <<>> /\ code[1].opcode[1] = entity /\ code[1].opcode[2] = op
                       /\ entity # "i32" => code[1].opcode \in Arms
A == code[1].a.v
B == code[1].b.v
N == code[1].n.v
fetch_memory_index(i) == MemoryAt[code[i + 1].index]
fetch_table_index(i) == TableAt[code[i + 1].index]
fetch_segment_index(i) == code[i + 1].index

Finish(r) == res' = r /\ req' = None /\ code' = <<>> /\ UNCHANGED <<limiter, rounds>>
Return(r) == Finish(r) /\ UNCHANGED store

consume_fuel(len) == fuel' = IF fuel = Disabled THEN fuel ELSE fuel - len \div PerFuel
HasFuel(len) == fuel = Disabled \/ len \div PerFuel <= fuel

\* slice.get(at ..) and then .get(.. n)
Slice(s, at, n) == at <= Len(s) /\ n <= Len(s) - at
copy_from_slice(s, at, src, from, n) ==
    SubSeq(s, 1, at) \o SubSeq(src, from + 1, from + n) \o SubSeq(s, at + n + 1, Len(s))
fill(s, at, v, n) == SubSeq(s, 1, at) \o [i \in 1 .. n |-> v] \o SubSeq(s, at + n + 1, Len(s))

\* Bounds, then fuel, then the change: what fails first leaves all as it was.
WriteMemory(m, inBounds, len, bytes) ==
    IF ~inBounds THEN Return(Traps("MemoryOutOfBounds"))
    ELSE IF ~HasFuel(len) THEN Return(Traps("OutOfFuel"))
    ELSE /\ consume_fuel(len) /\ mem' = [mem EXCEPT ![m] = bytes] /\ Finish(Val(0))
         /\ UNCHANGED <<tab, data, elem, glob, buf, cache>>
WriteTable(t, inBounds, len, items) ==
    IF ~inBounds THEN Return(Traps("TableOutOfBounds"))
    ELSE IF ~HasFuel(len) THEN Return(Traps("OutOfFuel"))
    ELSE /\ consume_fuel(len) /\ tab' = [tab EXCEPT ![t] = items] /\ Finish(Val(0))
         /\ UNCHANGED <<mem, data, elem, glob, buf, cache>>

Pages(m) == Len(mem[m]) \div PageSize
execute_memory_size == Running("memory", "size") /\ Return(Val(Pages(MemoryAt[code[1].a])))

\* StoreLimits: the answer to a growth to `desired`, "trap" when it is an error.
Growing(limit, desired, maximum) ==
    IF ~limiter.on \/ (desired <= limit /\ desired <= maximum) THEN "yes"
    ELSE IF limiter.trap THEN "trap" ELSE "no"
memory_growing(desired, maximum) == Growing(limiter.memory_size, desired, maximum)
table_growing(desired, maximum) == Growing(limiter.table_elements, desired, maximum)

\* Mutant: the maximum of the memory's type is forgotten.
memory_grow_result_unlimited(m, n) ==
    LET desired == Pages(m) + n
        asked == memory_growing(IF desired <= PagesMax THEN desired ELSE PagesMax, MaxPages[m])
    IN CASE n > PagesMax -> "invalid"
         [] n <= PagesMax /\ asked = "no" -> "invalid"
         [] n <= PagesMax /\ asked = "trap" -> "GrowthOperationLimited"
         [] n <= PagesMax /\ asked = "yes" ->
              IF desired > PagesMax THEN "invalid"
              ELSE IF ~HasFuel(n * PageSize) THEN "OutOfFuel" ELSE "grows"

\* MemoryEntity::grow: the limiter looks first, then the type, then the fuel.
memory_grow_result(m, n) ==
    LET desired == Pages(m) + n
        asked == memory_growing(IF desired <= PagesMax THEN desired ELSE PagesMax, MaxPages[m])
    IN CASE n > PagesMax -> "invalid"
         [] n <= PagesMax /\ asked = "no" -> "invalid"
         [] n <= PagesMax /\ asked = "trap" -> "GrowthOperationLimited"
         [] n <= PagesMax /\ asked = "yes" ->
              IF desired > PagesMax \/ desired > MaxPages[m] THEN "invalid"
              ELSE IF ~HasFuel(n * PageSize) THEN "OutOfFuel" ELSE "grows"

\* Mutant: the cached memory is not refreshed.
execute_memory_grow_uncached ==
    /\ Running("memory", "grow")
    /\ LET m == fetch_memory_index(1)  r == memory_grow_result(m, N)
       IN IF N = 0 THEN Return(Val(Pages(m)))
          ELSE IF r = "invalid" THEN Return(Val(UMax("i32")))
          ELSE IF r # "grows" THEN Return(Traps(r))
          ELSE /\ consume_fuel(N * PageSize) /\ Finish(Val(Pages(m)))
               /\ mem' = [mem EXCEPT ![m] = @ \o [i \in 1 .. N * PageSize |-> 0]]
               /\ buf' = [buf EXCEPT ![m] = @ + 1]
               /\ cache' = cache
               /\ UNCHANGED <<tab, data, elem, glob>>

execute_memory_grow ==
    /\ Running("memory", "grow")
    /\ LET m == fetch_memory_index(1)  r == memory_grow_result(m, N)
       IN IF N = 0 THEN Return(Val(Pages(m)))
          ELSE IF r = "invalid" THEN Return(Val(UMax("i32")))
          ELSE IF r # "grows" THEN Return(Traps(r))
          ELSE /\ consume_fuel(N * PageSize) /\ Finish(Val(Pages(m)))
               /\ mem' = [mem EXCEPT ![m] = @ \o [i \in 1 .. N * PageSize |-> 0]]
               /\ buf' = [buf EXCEPT ![m] = @ + 1]
               /\ cache' = [cache EXCEPT !.memory = CachedMemory(buf')]
               /\ UNCHANGED <<tab, data, elem, glob>>

\* The pair of two indices that name one entity cannot be resolved.
execute_memory_copy ==
    /\ Running("memory", "copy")
    /\ LET d == fetch_memory_index(1)  s == fetch_memory_index(2)
       IN IF code[2].index # code[3].index /\ d = s THEN Return(Panic)
          ELSE WriteMemory(d, Slice(mem[s], B, N) /\ Slice(mem[d], A, N), N,
                           copy_from_slice(mem[d], A, mem[s], B, N))
execute_memory_fill ==
    /\ Running("memory", "fill")
    /\ LET m == fetch_memory_index(1)
       IN WriteMemory(m, Slice(mem[m], A, N), N, fill(mem[m], A, Wrap("i8", B), N))
execute_memory_init ==
    /\ Running("memory", "init")
    /\ LET m == fetch_memory_index(1)  d == fetch_segment_index(2)
       IN WriteMemory(m, Slice(mem[m], A, N) /\ Slice(data[d], B, N), N,
                      copy_from_slice(mem[m], A, data[d], B, N))
execute_data_drop ==
    /\ Running("data", "drop") /\ data' = [data EXCEPT ![code[1].a] = <<>>] /\ Finish(Val(0))
    /\ UNCHANGED <<mem, tab, elem, glob, buf, cache, fuel>>

\* A load from memory 0 goes through the cached pointer and length.
execute_load8 ==
    /\ Running("i32", "load8_u")
    /\ Return(IF cache.memory # CachedMemory(buf) THEN Panic
              ELSE IF Slice(mem[MemoryAt[0]], A, 1) THEN Val(mem[MemoryAt[0]][A + 1])
              ELSE Traps("MemoryOutOfBounds"))

execute_table_size == Running("table", "size") /\ Return(Val(Len(tab[TableAt[code[1].a]])))
execute_table_get ==
    /\ Running("table", "get")
    /\ LET t == fetch_table_index(1)
       IN Return(IF A < Len(tab[t]) THEN Val(tab[t][A + 1]) ELSE Traps("TableOutOfBounds"))
execute_table_set ==
    /\ Running("table", "set")
    /\ LET t == fetch_table_index(1)
       IN IF A >= Len(tab[t]) THEN Return(Traps("TableOutOfBounds"))
          ELSE /\ tab' = [tab EXCEPT ![t][A + 1] = B] /\ Finish(Val(0))
               /\ UNCHANGED <<mem, data, elem, glob, buf, cache, fuel>>

\* TableEntity::copy and copy_within check bounds each in its own way.
execute_table_copy ==
    /\ Running("table", "copy")
    /\ LET d == fetch_table_index(1)  s == fetch_table_index(2)
           max_offset == IF A > B THEN A ELSE B
           within == max_offset + N <= UMax("i32") /\ max_offset + N <= Len(tab[d])
           same == code[2].index = code[3].index
       IN IF ~same /\ d = s THEN Return(Panic)
          ELSE WriteTable(d, IF same THEN within ELSE Slice(tab[d], A, N) /\ Slice(tab[s], B, N),
                          N, copy_from_slice(tab[d], A, tab[s], B, N))

execute_table_init ==
    /\ Running("table", "init")
    /\ LET t == fetch_table_index(1)  e == fetch_segment_index(2)
       IN WriteTable(t, Slice(tab[t], A, N) /\ Slice(elem[e], B, N), N,
                     copy_from_slice(tab[t], A, elem[e], B, N))
execute_table_fill ==
    /\ Running("table", "fill")
    /\ LET t == fetch_table_index(1)
       IN WriteTable(t, Slice(tab[t], A, N), N, fill(tab[t], A, B, N))

\* TableEntity::grow_untyped: without the fuel the growth fails, it does not trap.
table_grow_result(t, n) ==
    LET desired == Len(tab[t]) + n
        asked == table_growing(IF desired <= UMax("i32") THEN desired ELSE UMax("i32"), MaxElems[t])
    IN CASE asked = "no" -> "invalid"
         [] asked = "trap" -> "GrowthOperationLimited"
         [] asked = "yes" -> IF desired > UMax("i32") \/ desired > MaxElems[t] \/ ~HasFuel(n)
                             THEN "invalid" ELSE "grows"
execute_table_grow ==
    /\ Running("table", "grow")
    /\ LET t == fetch_table_index(1)  r == table_grow_result(t, N)
       IN IF N = 0 THEN Return(Val(Len(tab[t])))
          ELSE IF r = "invalid" THEN Return(Val(UMax("i32")))
          ELSE IF r # "grows" THEN Return(Traps(r))
          ELSE /\ consume_fuel(N) /\ Finish(Val(Len(tab[t])))
               /\ tab' = [tab EXCEPT ![t] = @ \o [i \in 1 .. N |-> B]]
               /\ UNCHANGED <<mem, data, elem, glob, buf, cache>>
execute_element_drop ==
    /\ Running("elem", "drop") /\ elem' = [elem EXCEPT ![code[1].a] = <<>>] /\ Finish(Val(0))
    /\ UNCHANGED <<mem, tab, data, glob, buf, cache, fuel>>

execute_ref_func == Running("ref", "func") /\ Return(Val(FuncAt[code[1].a]))

\* Global 0 is where the cache says, any other is looked up in the store.
global_address(i) == IF i = 0 THEN cache.global[1] ELSE GlobalAt[i]
execute_global_get == Running("global", "get") /\ Return(Val(glob[global_address(code[1].a)]))
global_set_input ==
    CASE code[1].opcode[3] = {}           -> B
      [] code[1].opcode[3] = {"i32imm16"} -> Wrap("i32", Signed("i16", code[1].b))
      [] code[1].opcode[3] = {"i64imm16"} -> Wrap("i64", Signed("i16", code[1].b))
execute_global_set ==
    /\ Running("global", "set") /\ Finish(Val(0))
    /\ glob' = [glob EXCEPT ![global_address(code[1].a)] = global_set_input]
    /\ UNCHANGED <<mem, tab, data, elem, buf, cache, fuel>>
\* The value of a frozen global went to the stack of the translator.
forward_global == req # None /\ code = <<>> /\ Return(Val(Frozen[req.x]))

Done == req = None /\ rounds = 0 /\ UNCHANGED vars

Next == \/ visit
        \/ execute_memory_size \/ execute_memory_grow \/ execute_memory_copy
        \/ execute_memory_fill \/ execute_memory_init \/ execute_data_drop \/ execute_load8
        \/ execute_table_size \/ execute_table_get \/ execute_table_set \/ execute_table_copy
        \/ execute_table_init \/ execute_table_fill \/ execute_table_grow \/ execute_element_drop
        \/ execute_global_get \/ execute_global_set \/ execute_ref_func \/ forward_global
        \/ Done

Spec == Init /\ [][Next]_vars

-----------------------------------------------------------------------------
(* Properties *)

Asked == IF req = None THEN None
         ELSE [name |-> req.name, x |-> req.x, y |-> req.y,
               a |-> req.a.v, b |-> req.b.v, n |-> req.n.v]
Wasm == INSTANCE WasmStore WITH req <- Asked, U64 <- UMax("i64"), U32 <- UMax("i32"), U8 <- UMax("i8")

\* Whatever form an operation was given, and whichever check stops it, it happens
\* as a whole and as Wasm says, or traps for a reason Wasm knows and changes nothing:
\* it grows nothing beyond its maximum, refuses to only for want of room or fuel,
\* and pays for what it does and for nothing else.
Refines == Wasm!Spec

\* The pointers the executor holds are those of memory 0 and global 0 as they are.
CacheFresh == cache = load_caches(buf)

\* No memory and no table of the instance is imported under two indices.
NoAlias == /\ \A i, j \in DOMAIN MemoryAt : MemoryAt[i] = MemoryAt[j] => i = j
           /\ \A i, j \in DOMAIN TableAt : TableAt[i] = TableAt[j] => i = j

\* "Case: copy between two different tables": two indices are two tables.
DifferentTables == res # Panic

-----------------------------------------------------------------------------
(* Invariants *)

\* The contents are sequences of cells, a table is counted in 32 bits.
Contents ==
    /\ mem \in [DOMAIN Initial.mem -> Seq(Nat)] /\ tab \in [DOMAIN Initial.tab -> Seq(Nat)]
    /\ \A t \in DOMAIN Initial.tab : Len(tab[t]) <= UMax("i32")
    /\ data \in [DOMAIN Initial.data -> Seq(Nat)] /\ elem \in [DOMAIN Initial.elem -> Seq(Nat)]
    /\ glob \in [DOMAIN Initial.glob -> Nat]
    /\ \A g \in Immutable : glob[GlobalAt[g]] = Initial.glob[GlobalAt[g]]
\* The words are those of the operator under way.
Translated == IF req = None THEN code = <<>> ELSE Validated(req) /\ code = Words(req)
StoreInv ==
    /\ Contents /\ Translated /\ CacheFresh
    /\ buf \in [DOMAIN Initial.mem -> Nat] /\ fuel \in Nat \cup {Disabled} /\ rounds \in Nat
    /\ limiter \in Limiters
=============================================================================

------------------------------ MODULE WasmStore ------------------------------
(* What Wasm says of the memories, tables, segments and globals of a running  *)
(* instance: one operation is requested, then it happens as a whole or traps  *)
(* and changes nothing.  It grows nothing beyond its maximum, and refuses to  *)
(* only there, on the word of the limiter, or for want of fuel.               *)
EXTENDS Integers, Sequences

CONSTANTS MemoryAt, TableAt, GlobalAt,  \* the addresses of what the instance has, by index
          FuncAt,              \* the references to its functions, by index
          MaxPages, MaxElems,  \* by address, the maximum of a memory and of a table
          PagesMax,            \* the largest number of pages of any memory
          PageSize,            \* bytes of a page
          PerFuel,             \* bytes or elements for a unit of fuel
          U64, U32, U8         \* the largest u64, u32 and u8

VARIABLES mem, tab, glob,      \* contents by address
          data, elem,          \* segments by index
          fuel,                \* what is left, Disabled if it is not counted
          limiter,             \* what the embedder lets the store grow to
          req, res
vars == <<mem, tab, data, elem, glob, fuel, limiter, req, res>>

Disabled == 0 - 1

None == [name |-> "none"]
Val(v) == [k |-> "val", v |-> v]
Traps(code) == [k |-> "trap", code |-> code]
Names == {"memory.size", "memory.grow", "memory.copy", "memory.fill", "memory.init", "data.drop",
          "table.get", "table.set", "table.size", "table.grow", "table.copy", "table.init",
          "table.fill", "elem.drop", "global.get", "global.set", "ref.func",
          "load8"}
Requests == [name : Names, x : Nat, y : Nat,
             a : 0 .. U32, b : 0 .. U64, n : 0 .. U32]

Request == req = None /\ req' \in Requests /\ UNCHANGED <<mem, tab, data, elem, glob, fuel, res>>

Fits(s, at, n) == at + n <= Len(s)
Overwrite(s, at, n, from(_)) ==
    [i \in DOMAIN s |-> IF i > at /\ i <= at + n THEN from(i - at) ELSE s[i]]

IsReq(name) == req.name = name /\ req' = None
Mem(i) == mem[MemoryAt[i]]
Tab(i) == tab[TableAt[i]]
SetMem(i, s) == mem' = [mem EXCEPT ![MemoryAt[i]] = s] /\ UNCHANGED <<tab, data, elem, glob>>
SetTab(i, s) == tab' = [tab EXCEPT ![TableAt[i]] = s] /\ UNCHANGED <<mem, data, elem, glob>>
Same == UNCHANGED <<mem, tab, data, elem, glob, fuel>>
Yield(v) == Same /\ res' = Val(v)

MemorySize == IsReq("memory.size") /\ Yield(Len(Mem(req.x)) \div PageSize)
TableSize == IsReq("table.size") /\ Yield(Len(Tab(req.x)))
GlobalGet == IsReq("global.get") /\ Yield(glob[GlobalAt[req.x]])
GlobalSet == /\ IsReq("global.set") /\ glob' = [glob EXCEPT ![GlobalAt[req.x]] = req.b]
             /\ res' = Val(0) /\ UNCHANGED <<mem, tab, data, elem, fuel>>
RefFunc == IsReq("ref.func") /\ Yield(FuncAt[req.x])
Load8 == IsReq("load8") /\ Fits(Mem(0), req.a, 1) /\ Yield(Mem(0)[req.a + 1])
TableGet == IsReq("table.get") /\ Fits(Tab(req.x), req.a, 1) /\ Yield(Tab(req.x)[req.a + 1])
TableSet == /\ IsReq("table.set") /\ Fits(Tab(req.x), req.a, 1) /\ res' = Val(0)
            /\ SetTab(req.x, [Tab(req.x) EXCEPT ![req.a + 1] = req.b]) /\ fuel' = fuel
DataDrop == /\ IsReq("data.drop") /\ data' = [data EXCEPT ![req.y] = <<>>] /\ res' = Val(0)
            /\ UNCHANGED <<mem, tab, elem, glob, fuel>>
ElemDrop == /\ IsReq("elem.drop") /\ elem' = [elem EXCEPT ![req.y] = <<>>] /\ res' = Val(0)
            /\ UNCHANGED <<mem, tab, data, glob, fuel>>

\* Moving len bytes or elements, or adding them, takes fuel.
Affords(len) == fuel = Disabled \/ len \div PerFuel <= fuel
Pays(len) == Affords(len) /\ fuel' = IF fuel = Disabled THEN fuel ELSE fuel - len \div PerFuel

\* The size after growing is within the maximum, and within what the limiter allows.
MemoryRoom ==
    LET pages == Len(Mem(req.x)) \div PageSize + req.n
    IN /\ pages <= PagesMax /\ pages <= MaxPages[MemoryAt[req.x]]
       /\ limiter.on => pages <= limiter.memory_size
TableRoom ==
    LET size == Len(Tab(req.x)) + req.n
    IN /\ size <= U32 /\ size <= MaxElems[TableAt[req.x]]
       /\ limiter.on => size <= limiter.table_elements

MemoryGrow == /\ IsReq("memory.grow") /\ (req.n = 0 \/ MemoryRoom)
              /\ res' = Val(Len(Mem(req.x)) \div PageSize) /\ Pays(req.n * PageSize)
              /\ SetMem(req.x, Mem(req.x) \o [i \in 1 .. req.n * PageSize |-> 0])
TableGrow == /\ IsReq("table.grow") /\ (req.n = 0 \/ TableRoom)
             /\ res' = Val(Len(Tab(req.x))) /\ Pays(req.n)
             /\ SetTab(req.x, Tab(req.x) \o [i \in 1 .. req.n |-> req.b])
GrowRefused == /\ \/ req.name = "memory.grow" /\ ~MemoryRoom
                  \/ req.name = "table.grow" /\ (~TableRoom \/ ~Affords(req.n))
               /\ req.n # 0 /\ req' = None /\ Same
               /\ \/ res' = Val(U32)
                  \/ limiter.on /\ limiter.trap /\ res' = Traps("GrowthOperationLimited")

MemoryFill == /\ IsReq("memory.fill") /\ Fits(Mem(req.x), req.a, req.n) /\ res' = Val(0) /\ Pays(req.n)
              /\ SetMem(req.x, Overwrite(Mem(req.x), req.a, req.n, LAMBDA i : req.b % (U8 + 1)))
TableFill == /\ IsReq("table.fill") /\ Fits(Tab(req.x), req.a, req.n) /\ res' = Val(0) /\ Pays(req.n)
             /\ SetTab(req.x, Overwrite(Tab(req.x), req.a, req.n, LAMBDA i : req.b))
MemoryCopy == /\ IsReq("memory.copy") /\ res' = Val(0) /\ Pays(req.n)
              /\ Fits(Mem(req.x), req.a, req.n) /\ Fits(Mem(req.y), req.b, req.n)
              /\ SetMem(req.x, Overwrite(Mem(req.x), req.a, req.n, LAMBDA i : Mem(req.y)[req.b + i]))
TableCopy == /\ IsReq("table.copy") /\ res' = Val(0) /\ Pays(req.n)
             /\ Fits(Tab(req.x), req.a, req.n) /\ Fits(Tab(req.y), req.b, req.n)
             /\ SetTab(req.x, Overwrite(Tab(req.x), req.a, req.n, LAMBDA i : Tab(req.y)[req.b + i]))
MemoryInit == /\ IsReq("memory.init") /\ res' = Val(0) /\ Pays(req.n)
              /\ Fits(Mem(req.x), req.a, req.n) /\ Fits(data[req.y], req.b, req.n)
              /\ SetMem(req.x, Overwrite(Mem(req.x), req.a, req.n, LAMBDA i : data[req.y][req.b + i]))
TableInit == /\ IsReq("table.init") /\ res' = Val(0) /\ Pays(req.n)
             /\ Fits(Tab(req.x), req.a, req.n) /\ Fits(elem[req.y], req.b, req.n)
             /\ SetTab(req.x, Overwrite(Tab(req.x), req.a, req.n, LAMBDA i : elem[req.y][req.b + i]))

\* The cells the bulk operations name exist.
MemoryFits == /\ Fits(Mem(req.x), req.a, req.n)
              /\ req.name = "memory.copy" => Fits(Mem(req.y), req.b, req.n)
              /\ req.name = "memory.init" => Fits(data[req.y], req.b, req.n)
TableFits == /\ Fits(Tab(req.x), req.a, req.n)
             /\ req.name = "table.copy" => Fits(Tab(req.y), req.b, req.n)
             /\ req.name = "table.init" => Fits(elem[req.y], req.b, req.n)
MemoryBulk == req.name \in {"memory.fill", "memory.copy", "memory.init"}
TableBulk == req.name \in {"table.fill", "table.copy", "table.init"}

OutOfBounds ==
    /\ req # None /\ req' = None /\ Same
    /\ \/ /\ req.name = "load8" /\ ~Fits(Mem(0), req.a, 1)
          /\ res' = Traps("MemoryOutOfBounds")
       \/ /\ req.name \in {"table.get", "table.set"} /\ ~Fits(Tab(req.x), req.a, 1)
          /\ res' = Traps("TableOutOfBounds")
       \/ MemoryBulk /\ ~MemoryFits /\ res' = Traps("MemoryOutOfBounds")
       \/ TableBulk /\ ~TableFits /\ res' = Traps("TableOutOfBounds")
OutOfFuel ==
    /\ \/ MemoryBulk /\ MemoryFits /\ ~Affords(req.n)
       \/ TableBulk /\ TableFits /\ ~Affords(req.n)
       \/ req.name = "memory.grow" /\ MemoryRoom /\ ~Affords(req.n * PageSize)
    /\ req' = None /\ Same /\ res' = Traps("OutOfFuel")

Operation == \/ Request \/ MemorySize \/ TableSize \/ GlobalGet \/ GlobalSet \/ RefFunc \/ Load8
             \/ TableGet \/ TableSet \/ DataDrop \/ ElemDrop \/ MemoryGrow \/ TableGrow
             \/ GrowRefused \/ MemoryFill \/ TableFill \/ MemoryCopy \/ TableCopy \/ MemoryInit
             \/ TableInit \/ OutOfBounds \/ OutOfFuel
Next == Operation /\ limiter' = limiter

Spec == req = None /\ [][Next]_vars
=============================================================================
